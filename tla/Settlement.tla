----------------------------- MODULE Settlement -----------------------------
(***************************************************************************)
(* How one engine applies the result of each contract: the stream's queue  *)
(* and its worker, the pollers (settlement watch, reconnect audit, orphan  *)
(* cleaner, Redis consumer), the settlement lock, the state lock that the  *)
(* snapshot savers share, the trading cycle that registers purchases, and  *)
(* the risk manager's own tracking, which others prune without the lock.   *)
(*                                                                         *)
(* Every action runs from one suspension point of the asyncio code to the  *)
(* next.  A settlement that meets a free state lock never suspends between *)
(* popping the contract and applying its result; one that meets a saver's  *)
(* waits with the contract already popped, which is stage "popped".        *)
(* Waiting for the settlement lock reads nothing, so it has no stage.      *)
(* Broker connected: the offline branch belongs to RedisQueue.             *)
(***************************************************************************)
EXTENDS Naturals, FiniteSets

CONSTANTS
  Contracts,    \* contracts the broker may sell; each is bought at most once
  Pollers,      \* settlement sources other than the queue worker
  Worker,       \* the task that consumes the local settlement queue
  None,         \* no source, no contract
  MaxOrders,    \* orders per cycle (max_orders_per_cycle)
  SaverRuns,    \* a snapshot saver may hold the state lock
  LockTimesOut, \* waiting for the state lock may exceed its timeout
  PersistFailures, \* times the writes that end a settlement may raise
  WatchTimesOut \* the settlement watch may reach its 3600 s

Sources == Pollers \union {Worker}

ASSUME SourcesAssumption ==
  /\ Worker \notin Pollers
  /\ None \notin Sources
  /\ None \notin Contracts

ASSUME BoundsAssumption ==
  /\ MaxOrders \in Nat \ {0}
  /\ PersistFailures \in Nat
  /\ {SaverRuns, LockTimesOut, WatchTimesOut} \subseteq BOOLEAN

VARIABLES
  broker,      \* what the broker knows of each contract (external)
  active,      \* TradingState.active_contracts
  activeIds,   \* RiskManager.active_contract_ids
  symbolOf,    \* keys of RiskManager.contract_to_symbol
  results,     \* keys of RiskManager.cluster_results
  expected,    \* RiskManager.expected_cluster_settlements
  seen,        \* _settled_contract_ids
  lock,        \* holder of _contract_settlement_lock
  stateLock,   \* "free", "saver" or "settler": who holds _state_lock
  stage,       \* where each source is inside the locked section
  handling,    \* the contract each source is settling
  queued,      \* _settlement_queued_ids
  workerUp,    \* the worker task has not ended by an exception
  watching,    \* a settlement watch task is alive
  cycle,       \* the trading cycle: stage, contract being registered, orders
  credited,    \* history: times each result reached the balance
  booked       \* history: times each result reached the risk ledger

riskVars    == <<activeIds, symbolOf, results, expected>>
historyVars == <<credited, booked>>
settleVars  == <<lock, stage, handling, seen, queued, workerUp>>
vars == <<broker, active, riskVars, stateLock, settleVars, watching, cycle,
          historyVars>>

Idle == [stage |-> "idle", order |-> None, executed |-> 0]

TypeOK ==
  /\ broker \in [Contracts -> {"none", "open", "closed"}]
  /\ active \subseteq Contracts
  /\ activeIds \subseteq Contracts
  /\ symbolOf \subseteq Contracts
  /\ results \subseteq Contracts
  /\ expected \in 0 .. MaxOrders
  /\ seen \subseteq Contracts
  /\ lock \in Sources \union {None}
  /\ stateLock \in {"free", "saver", "settler"}
  /\ stage \in [Sources -> {"idle", "popped", "applied"}]
  /\ handling \in [Sources -> Contracts \union {None}]
  /\ queued \subseteq Contracts
  /\ workerUp \in BOOLEAN
  /\ watching \in BOOLEAN
  /\ cycle \in [stage : {"idle", "buying", "registering", "confirming"},
                order : Contracts \union {None},
                executed : 0 .. MaxOrders]
  /\ credited \in [Contracts -> Nat]
  /\ booked \in [Contracts -> Nat]

Init ==
  /\ broker = [c \in Contracts |-> "none"]
  /\ active = {} /\ activeIds = {} /\ symbolOf = {} /\ results = {}
  /\ expected = 0
  /\ seen = {} /\ queued = {}
  /\ lock = None /\ stateLock = "free"
  /\ stage = [s \in Sources |-> "idle"]
  /\ handling = [s \in Sources |-> None]
  /\ workerUp = TRUE /\ watching = FALSE
  /\ cycle = Idle
  /\ credited = [c \in Contracts |-> 0]
  /\ booked = [c \in Contracts |-> 0]

-----------------------------------------------------------------------------
(* The risk manager's tracking *)

Tracked(c) == c \in activeIds \/ c \in symbolOf

\* Ids the risk manager tracks and TradingState no longer holds lose their
\* tracking, whoever asks and whatever settlement is under way.
PruneOrphans ==
  LET orphans == activeIds \ active IN
  /\ activeIds' = activeIds \ orphans
  /\ symbolOf' = symbolOf \ orphans
  /\ results' = results \ orphans
  /\ UNCHANGED expected

ClusterDone(left, got) ==
  \/ expected > 0 /\ Cardinality(got) >= expected
  \/ left = {}

FinalizeCluster ==
  /\ activeIds' = {}
  /\ symbolOf' = {}
  /\ results' = {}
  /\ expected' = 0

\* Bug: a late result, tracked by its symbol only, is not booked.
RegisterResultOfActiveOnly(c) ==
  IF c \in activeIds \ results
  THEN /\ booked' = [booked EXCEPT ![c] = @ + 1]
       /\ FinalizeCluster
  ELSE UNCHANGED <<riskVars, booked>>

\* An id that is not tracked, or that the cluster has booked, is ignored.
RegisterResult(c) ==
  IF c \notin results /\ Tracked(c)
  THEN LET left == activeIds \ {c}
           got  == results \union {c}
       IN /\ booked' = [booked EXCEPT ![c] = @ + 1]
          /\ IF ClusterDone(left, got)
             THEN FinalizeCluster
             ELSE /\ activeIds' = left
                  /\ results' = got
                  /\ UNCHANGED <<symbolOf, expected>>
  ELSE UNCHANGED <<riskVars, booked>>

ProcessOutcome(c) ==
  /\ credited' = [credited EXCEPT ![c] = @ + 1]
  /\ RegisterResult(c)

-----------------------------------------------------------------------------
(* Purchases *)

\* Bug: the entry guard does not ask for open contracts.
CycleEnterWithOpenContracts ==
  /\ cycle.stage = "idle"
  /\ cycle' = [stage |-> "buying", order |-> None, executed |-> 0]
  /\ UNCHANGED <<broker, active, riskVars, stateLock, settleVars, watching,
                 historyVars>>

\* The entry guard looks at TradingState's open contracts only.
CycleEnter ==
  /\ cycle.stage = "idle"
  /\ active = {}
  /\ cycle' = [stage |-> "buying", order |-> None, executed |-> 0]
  /\ UNCHANGED <<broker, active, riskVars, stateLock, settleVars, watching,
                 historyVars>>

Buy(c) ==
  /\ cycle.stage = "buying"
  /\ cycle.executed < MaxOrders
  /\ broker[c] = "none"
  /\ broker' = [broker EXCEPT ![c] = "open"]
  /\ cycle' = [stage |-> "registering", order |-> c,
               executed |-> cycle.executed]
  /\ UNCHANGED <<active, riskVars, stateLock, settleVars, watching,
                 historyVars>>

\* Bug: the purchase reaches the risk manager and not TradingState.
TrackInRiskOnly(c) ==
  /\ UNCHANGED active
  /\ activeIds' = activeIds \union (IF c \in seen THEN {} ELSE {c})

\* A contract that is settled or registered already is left alone.
Track(c) ==
  IF c \in seen \union active
  THEN UNCHANGED <<active, activeIds>>
  ELSE /\ active' = active \union {c}
       /\ activeIds' = activeIds \union {c}

\* place_order registers the purchase and then names its symbol.
Register ==
  LET c == cycle.order IN
  /\ cycle.stage = "registering"
  /\ lock = None
  /\ Track(c)
  /\ symbolOf' = symbolOf \union {c}
  /\ cycle' = [stage |-> "confirming", order |-> c,
               executed |-> cycle.executed]
  /\ UNCHANGED <<broker, results, expected, stateLock, settleVars, watching,
                 historyVars>>

\* The caller registers it again, after whatever settled in between.
Confirm ==
  LET c == cycle.order IN
  /\ cycle.stage = "confirming"
  /\ lock = None
  /\ Track(c)
  /\ symbolOf' = IF c \in seen \union active THEN symbolOf
                                             ELSE symbolOf \union {c}
  /\ cycle' = [stage |-> "buying", order |-> None,
               executed |-> cycle.executed + 1]
  /\ UNCHANGED <<broker, results, expected, stateLock, settleVars, watching,
                 historyVars>>

\* begin_cluster runs after the last order, so it can erase results that
\* settled while later orders were being sent.
CycleEnd ==
  /\ cycle.stage = "buying"
  /\ cycle' = Idle
  /\ IF cycle.executed > 0
     THEN /\ expected' = cycle.executed
          /\ results' = {}
          /\ watching' = TRUE
     ELSE UNCHANGED <<expected, results, watching>>
  /\ UNCHANGED <<broker, active, activeIds, symbolOf, stateLock, settleVars,
                 historyVars>>

\* External: the broker settles an open contract.
Close(c) ==
  /\ broker[c] = "open"
  /\ broker' = [broker EXCEPT ![c] = "closed"]
  /\ UNCHANGED <<active, riskVars, stateLock, settleVars, watching, cycle,
                 historyVars>>

-----------------------------------------------------------------------------
(* Settlement *)

Enqueue(c) ==
  /\ broker[c] = "closed"
  /\ c \notin seen \union queued
  /\ queued' = queued \union {c}
  /\ UNCHANGED <<broker, active, riskVars, lock, stage, handling, seen,
                 workerUp, stateLock, watching, cycle, historyVars>>

\* The worker drops the queue's mark of c whatever the outcome.
Dequeued(s, c) == IF s = Worker THEN queued \ {c} ELSE queued

\* Bug: the section is entered without the settlement lock.
ArrivesUnlocked(s, c) ==
  /\ stage[s] = "idle"
  /\ broker[c] = "closed"
  /\ s = Worker => workerUp /\ c \in queued

\* s reaches the locked section with a settled payload of c.
Arrives(s, c) ==
  /\ stage[s] = "idle"
  /\ lock = None
  /\ broker[c] = "closed"
  /\ s = Worker => workerUp /\ c \in queued

\* Already settled, or of no interest to this engine.
Ignore(s, c) ==
  /\ Arrives(s, c)
  /\ c \in seen \/ (c \notin active /\ ~Tracked(c))
  /\ queued' = Dequeued(s, c)
  /\ UNCHANGED <<broker, active, riskVars, lock, stage, handling, seen,
                 workerUp, stateLock, watching, cycle, historyVars>>

\* Bug: the contract is read and not popped.
PopKeepingOpen(s, c, next) ==
  /\ Arrives(s, c)
  /\ c \notin seen
  /\ c \in active \/ Tracked(c)
  /\ lock' = s
  /\ stage' = [stage EXCEPT ![s] = next]
  /\ handling' = [handling EXCEPT ![s] = c]
  /\ UNCHANGED <<broker, active, seen, queued, workerUp, watching, cycle>>

\* The contract is popped; a late one was popped before and is only tracked.
Pop(s, c, next) ==
  /\ Arrives(s, c)
  /\ c \notin seen
  /\ c \in active \/ Tracked(c)
  /\ active' = active \ {c}
  /\ lock' = s
  /\ stage' = [stage EXCEPT ![s] = next]
  /\ handling' = [handling EXCEPT ![s] = c]
  /\ UNCHANGED <<broker, seen, queued, workerUp, watching, cycle>>

SettleAtOnce(s, c) ==
  /\ stateLock = "free"
  /\ Pop(s, c, "applied")
  /\ stateLock' = "settler"
  /\ ProcessOutcome(c)

SettleMustWait(s, c) ==
  /\ stateLock = "saver"
  /\ Pop(s, c, "popped")
  /\ UNCHANGED <<stateLock, riskVars, historyVars>>

Resume(s) ==
  /\ stage[s] = "popped"
  /\ stateLock = "free"
  /\ stateLock' = "settler"
  /\ stage' = [stage EXCEPT ![s] = "applied"]
  /\ ProcessOutcome(handling[s])
  /\ UNCHANGED <<broker, active, lock, handling, seen, queued, workerUp,
                 watching, cycle>>

\* Bug: the settlement lock stays taken.
ReleaseKeepingLock(s) ==
  /\ stage' = [stage EXCEPT ![s] = "idle"]
  /\ handling' = [handling EXCEPT ![s] = None]
  /\ queued' = Dequeued(s, handling[s])
  /\ UNCHANGED lock

Release(s) ==
  /\ lock' = None
  /\ stage' = [stage EXCEPT ![s] = "idle"]
  /\ handling' = [handling EXCEPT ![s] = None]
  /\ queued' = Dequeued(s, handling[s])

\* Scheduling the next cycle prunes when no contract is open.
ScheduleNextCycle == IF active = {} THEN PruneOrphans ELSE UNCHANGED riskVars

\* After the writes and the release of the recovery claim, the contract is
\* marked as settled.
Complete(s) ==
  /\ stage[s] = "applied"
  /\ Release(s)
  /\ stateLock' = "free"
  /\ seen' = seen \union {handling[s]}
  /\ ScheduleNextCycle
  /\ UNCHANGED <<broker, active, workerUp, watching, cycle, historyVars>>

\* Bug: the contract is marked as settled in a finally clause.
RaisesMarkingSettled(s) ==
  /\ Release(s)
  /\ seen' = seen \union {handling[s]}
  /\ workerUp' = (workerUp /\ s # Worker)
  /\ UNCHANGED <<broker, active, watching, cycle, historyVars>>

\* An exception leaves the locked section: nothing marks the contract as
\* settled, nothing reopens it, and the worker's loop does not catch it.
Raises(s) ==
  /\ Release(s)
  /\ workerUp' = (workerUp /\ s # Worker)
  /\ UNCHANGED <<broker, active, seen, watching, cycle, historyVars>>

StateLockTimeout(s) ==
  /\ LockTimesOut
  /\ stage[s] = "popped"
  /\ stateLock = "saver"
  /\ Raises(s)
  /\ UNCHANGED <<riskVars, stateLock>>

PersistError(s) ==
  /\ stage[s] = "applied"
  /\ credited[handling[s]] <= PersistFailures
  /\ Raises(s)
  /\ ScheduleNextCycle
  /\ stateLock' = "free"

-----------------------------------------------------------------------------
(* Tasks that share the state without the settlement lock *)

SaverAcquire ==
  /\ SaverRuns
  /\ stateLock = "free"
  /\ stateLock' = "saver"
  /\ UNCHANGED <<broker, active, riskVars, settleVars, watching, cycle,
                 historyVars>>

SaverRelease ==
  /\ stateLock = "saver"
  /\ stateLock' = "free"
  /\ UNCHANGED <<broker, active, riskVars, settleVars, watching, cycle,
                 historyVars>>

\* One turn of the watch's loop: it prunes, and ends when nothing is left.
WatchTurn ==
  /\ watching
  /\ PruneOrphans
  /\ watching' = (activeIds' # {})
  /\ UNCHANGED <<broker, active, stateLock, settleVars, cycle, historyVars>>

\* Bug: giving up also clears the contracts' metadata.
WatchTimeoutClearingMetadata ==
  /\ WatchTimesOut
  /\ watching /\ activeIds # {}
  /\ watching' = FALSE
  /\ activeIds' = {}
  /\ symbolOf' = symbolOf \ activeIds
  /\ UNCHANGED <<broker, active, results, expected, stateLock, settleVars,
                 cycle, historyVars>>

WatchTimeout ==
  /\ WatchTimesOut
  /\ watching /\ activeIds # {}
  /\ watching' = FALSE
  /\ activeIds' = {}
  /\ UNCHANGED <<broker, active, symbolOf, results, expected, stateLock,
                 settleVars, cycle, historyVars>>

OrphanCleanerPrune ==
  /\ active = {} /\ activeIds # {}
  /\ PruneOrphans
  /\ UNCHANGED <<broker, active, stateLock, settleVars, watching, cycle,
                 historyVars>>

Next ==
  \/ CycleEnter \/ Register \/ Confirm \/ CycleEnd
  \/ \E c \in Contracts : Buy(c) \/ Close(c) \/ Enqueue(c)
  \/ \E s \in Sources, c \in Contracts :
       Ignore(s, c) \/ SettleAtOnce(s, c) \/ SettleMustWait(s, c)
  \/ \E s \in Sources :
       Resume(s) \/ Complete(s) \/ StateLockTimeout(s) \/ PersistError(s)
  \/ SaverAcquire \/ SaverRelease
  \/ WatchTurn \/ WatchTimeout \/ OrphanCleanerPrune

Spec == Init /\ [][Next]_vars

\* The tasks the event loop keeps running: the cycle finishes what it began,
\* a settlement under way goes on once the state lock is free, savers let it
\* go, and the pollers ask again about every contract that is still open.
\* The worker's queue promises nothing: the stream may never deliver.
Fairness ==
  /\ SF_vars(Register) /\ SF_vars(Confirm) /\ WF_vars(CycleEnd)
  /\ WF_vars(SaverRelease)
  /\ \A c \in Contracts : WF_vars(Close(c))
  /\ \A s \in Sources : SF_vars(Resume(s)) /\ WF_vars(Complete(s))
  /\ \A s \in Pollers, c \in Contracts :
       SF_vars(c \in active /\ (SettleAtOnce(s, c) \/ SettleMustWait(s, c)))

FairSpec == Spec /\ Fairness

-----------------------------------------------------------------------------
(* Properties *)

Registered(c) ==
  /\ broker[c] # "none"
  /\ ~(cycle.stage = "registering" /\ cycle.order = c)

InFlight(c) == \E s \in Sources : stage[s] # "idle" /\ handling[s] = c

\* However the stream, the watch, the audits and the worker race, and even
\* when one of them gives up waiting for the state lock, the balance takes a
\* contract's result at most once, as long as the final writes succeed.
AppliedAtMostOnce == \A c \in Contracts : credited[c] <= 1

\* A contract marked as settled is neither open nor counted as open by the
\* risk manager, so that no watch waits for it and no entry guard blocks on
\* it for ever: no later result could take it out again.
SettledIsUntracked == seen \intersect (active \union activeIds) = {}

\* A result is applied only after TradingState let go of the contract, and
\* neither registration of the purchase brings it back: what is open has not
\* been paid.
OpenIsNotApplied == \A c \in active : credited[c] = 0

\* Marking a contract as settled shuts every later source out, so the mark
\* comes only after the balance took the result.
SettledIsApplied == \A c \in seen : credited[c] >= 1

\* However a settlement ends, by its mark, by giving up the state lock or by
\* an error in its writes, it leaves the settlement lock to the others.
LockIsReleased == lock # None ~> lock = None

\* A registered contract whose result has not reached the balance can still
\* be settled: it is open, or the risk manager tracks it (the late path), or
\* some source is settling it now.
NoSettlementLost ==
  \A c \in Contracts :
    Registered(c) /\ credited[c] = 0 => c \in active \/ Tracked(c) \/ InFlight(c)

\* The risk ledger (recovery amount, session profit, cluster result) takes
\* the result of every contract that was settled, and takes it once.
BookedExactlyOnce ==
  /\ \A c \in Contracts : booked[c] <= 1
  /\ \A c \in seen : booked[c] = 1

\* A settlement took c out of TradingState and waits for the state lock.
Popped(c) == \E s \in Sources : stage[s] = "popped" /\ handling[s] = c

\* The entry guard asks for no open contract, so a cycle that enters may size its
\* orders before the balance has an earlier result.  It misses no other result
\* than that of a settlement which popped its contract and waits behind a
\* snapshot saver; the settlement lock lets only one do so.
CycleMissesOnlyPopped ==
  [][CycleEnter => \A c \in Contracts :
       broker[c] # "none" => credited[c] = 1 \/ Popped(c)]_vars

\* Once the broker has closed every order, each open contract is settled and
\* the settlement is recorded, even if the stream never delivers it.
EventuallySettled == \A c \in Contracts : c \in active ~> c \in seen

\* What the safety proofs rest on: who is inside the locked section, and how
\* far the result of each contract has come.
LockInv ==
  \A s \in Sources : stage[s] # "idle" =>
    /\ lock = s
    /\ handling[s] \in Contracts

AppliedInv ==
  \A s \in Sources : stage[s] = "applied" => credited[handling[s]] = 1

UnappliedInv ==
  /\ \A c \in active \union activeIds : credited[c] = 0
  /\ \A s \in Sources : stage[s] = "popped" =>
       credited[handling[s]] = 0 /\ handling[s] \notin active

CreditedInv ==
  \A c \in Contracts : credited[c] = 0 \/
    /\ credited[c] = 1
    /\ c \in seen \/ \E s \in Sources : stage[s] = "applied" /\ handling[s] = c

SettledInv == \A c \in seen \union results : credited[c] = 1

CycleInv ==
  cycle.stage \in {"registering", "confirming"} =>
    /\ cycle.order \in Contracts
    /\ broker[cycle.order] # "none"
    /\ cycle.executed < MaxOrders

UnregisteredInv ==
  \A c \in Contracts : ~Registered(c) =>
    credited[c] = 0 /\ c \notin active /\ ~Tracked(c) /\ ~InFlight(c)

SettlementInv ==
  /\ TypeOK /\ CycleInv
  /\ LockInv /\ AppliedInv /\ UnappliedInv /\ CreditedInv /\ SettledInv
  /\ UnregisteredInv

Ledger == INSTANCE ContractLedger WITH
  open     <- {c \in Contracts : Registered(c) /\ credited[c] = 0},
  balance  <- credited,
  risk     <- booked

\* What the settlement code promises as a whole.
ImplementsLedger == Ledger!Spec
=============================================================================
