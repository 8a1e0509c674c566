-------------------------- MODULE SettlementProofs --------------------------
(***************************************************************************)
(* Proofs about Settlement for any contracts, pollers and bounds.  While   *)
(* the final writes succeed, SettlementInv is inductive: the settlement    *)
(* lock admits one source at a time, and whether a contract's result was   *)
(* applied can be read off where the contract is.                          *)
(***************************************************************************)
EXTENDS Settlement, FiniteSetTheorems, TLAPS

(***************************************************************************)
(* Helpers                                                                 *)
(***************************************************************************)

\* Booking a result keeps the risk manager's tracking well typed.
LEMMA RegisterResultType ==
  ASSUME TypeOK, NEW c \in Contracts, RegisterResult(c)
  PROVE  /\ activeIds' \subseteq activeIds
         /\ symbolOf' \subseteq symbolOf
         /\ results' \subseteq results \union {c}
         /\ expected' \in 0 .. MaxOrders
         /\ booked' \in [Contracts -> Nat]
<1> USE DEF TypeOK, RegisterResult, FinalizeCluster, riskVars
<1>0. MaxOrders \in Nat
  BY BoundsAssumption
<1>1. CASE c \notin results /\ Tracked(c)
  <2>1. booked' = [booked EXCEPT ![c] = @ + 1]
    BY <1>1
  <2>2. CASE ClusterDone(activeIds \ {c}, results \union {c})
    BY <1>0, <1>1, <2>1, <2>2
  <2>3. CASE ~ClusterDone(activeIds \ {c}, results \union {c})
    BY <1>0, <1>1, <2>1, <2>3
  <2> QED BY <2>2, <2>3
<1>2. CASE ~(c \notin results /\ Tracked(c))
  BY <1>0, <1>2
<1> QED BY <1>1, <1>2

\* Whatever RegisterResult decides, the contract is no longer counted as
\* open, provided the cluster has not booked it before.
LEMMA RegisterResultDropsId ==
  ASSUME NEW c, c \notin results, RegisterResult(c)
  PROVE  c \notin activeIds'
<1> USE DEF RegisterResult, FinalizeCluster, riskVars
<1>1. CASE Tracked(c)
  BY <1>1
<1>2. CASE ~Tracked(c)
  BY <1>2 DEF Tracked
<1> QED BY <1>1, <1>2

\* Pruning only ever takes tracking away.
LEMMA PruneShrinks ==
  ASSUME PruneOrphans
  PROVE  /\ activeIds' \subseteq activeIds
         /\ symbolOf' \subseteq symbolOf
         /\ results' \subseteq results
         /\ expected' = expected
BY DEF PruneOrphans

LEMMA ScheduleShrinks ==
  ASSUME ScheduleNextCycle
  PROVE  /\ activeIds' \subseteq activeIds
         /\ symbolOf' \subseteq symbolOf
         /\ results' \subseteq results
         /\ expected' = expected
BY PruneShrinks DEF ScheduleNextCycle, riskVars

(***************************************************************************)
(* Type correctness and the discipline of the settlement lock              *)
(***************************************************************************)

BaseInv == TypeOK /\ CycleInv /\ LockInv

LEMMA IdleType ==
  Idle \in [stage : {"idle", "buying", "registering", "confirming"},
            order : Contracts \union {None}, executed : 0 .. MaxOrders]
<1>1. 0 \in 0 .. MaxOrders
  BY BoundsAssumption
<1> QED BY <1>1 DEF Idle

LEMMA BaseInit == Init => BaseInv
<1> SUFFICES ASSUME Init PROVE BaseInv
  OBVIOUS
<1>1. 0 \in 0 .. MaxOrders /\ 0 \in Nat
  BY BoundsAssumption
<1>2. TypeOK
  BY <1>1, IdleType DEF Init, TypeOK
<1>3. LockInv
  BY DEF Init, LockInv
<1>4. CycleInv
  BY DEF Init, CycleInv, Idle
<1> QED BY <1>2, <1>3, <1>4 DEF BaseInv

\* With the lock free, no source is inside the locked section.
LEMMA FreeLockMeansIdle ==
  ASSUME BaseInv, lock = None
  PROVE  \A s \in Sources : stage[s] = "idle"
BY SourcesAssumption DEF BaseInv, TypeOK, LockInv

\* Taking the lock with a contract in hand keeps both.
LEMMA PopBase ==
  ASSUME BaseInv, NEW s \in Sources, NEW c \in Contracts,
         NEW next \in {"popped", "applied"}, Pop(s, c, next)
  PROVE  /\ lock' \in Sources \union {None}
         /\ stage' \in [Sources -> {"idle", "popped", "applied"}]
         /\ handling' \in [Sources -> Contracts \union {None}]
         /\ active' \subseteq Contracts
         /\ UNCHANGED <<broker, seen, queued, workerUp, watching, cycle>>
         /\ LockInv'
<1>1. \A t \in Sources : stage[t] = "idle"
  BY FreeLockMeansIdle DEF Pop, Arrives
<1>2. /\ stage' = [stage EXCEPT ![s] = next]
      /\ handling' = [handling EXCEPT ![s] = c]
      /\ lock' = s
      /\ active' = active \ {c}
      /\ UNCHANGED <<broker, seen, queued, workerUp, watching, cycle>>
  BY DEF Pop
<1>3. LockInv'
  BY <1>1, <1>2 DEF LockInv, BaseInv, TypeOK
<1> QED BY <1>2, <1>3 DEF BaseInv, TypeOK

\* Leaving the section frees the lock and empties the source's hands.
LEMMA ReleaseBase ==
  ASSUME BaseInv, NEW s \in Sources, stage[s] # "idle", Release(s)
  PROVE  /\ lock' = None
         /\ stage' \in [Sources -> {"idle", "popped", "applied"}]
         /\ handling' \in [Sources -> Contracts \union {None}]
         /\ queued' \subseteq Contracts
         /\ \A t \in Sources : stage'[t] = "idle"
         /\ LockInv'
<1>1. \A t \in Sources \ {s} : stage[t] = "idle"
  BY DEF BaseInv, LockInv
<1>2. /\ stage' = [stage EXCEPT ![s] = "idle"]
      /\ handling' = [handling EXCEPT ![s] = None]
      /\ lock' = None
      /\ queued' \subseteq queued
  BY DEF Release, Dequeued
<1> QED BY <1>1, <1>2 DEF BaseInv, TypeOK, LockInv

\* The balance and the risk ledger stay well typed when a result is applied.
LEMMA OutcomeType ==
  ASSUME BaseInv, NEW c \in Contracts, ProcessOutcome(c)
  PROVE  /\ activeIds' \subseteq activeIds
         /\ symbolOf' \subseteq symbolOf
         /\ results' \subseteq results \union {c}
         /\ expected' \in 0 .. MaxOrders
         /\ booked' \in [Contracts -> Nat]
         /\ credited' = [credited EXCEPT ![c] = @ + 1]
         /\ credited' \in [Contracts -> Nat]
<1>1. RegisterResult(c) /\ credited' = [credited EXCEPT ![c] = @ + 1]
  BY DEF ProcessOutcome
<1>2. credited' \in [Contracts -> Nat]
  BY <1>1 DEF BaseInv, TypeOK
<1> QED BY <1>1, <1>2, RegisterResultType DEF BaseInv

LEMMA BaseStep ==
  ASSUME BaseInv, [Next]_vars
  PROVE  BaseInv'
<1> USE SourcesAssumption, BoundsAssumption
<1>1. CASE CycleEnter
  <2>1. 0 \in 0 .. MaxOrders
    OBVIOUS
  <2>2. UNCHANGED <<broker, active, riskVars, stateLock, settleVars, watching,
                    historyVars>>
    BY <1>1 DEF CycleEnter
  <2>3. cycle' \in [stage : {"idle", "buying", "registering", "confirming"},
                    order : Contracts \union {None}, executed : 0 .. MaxOrders]
    BY <1>1, <2>1 DEF CycleEnter
  <2>4. CycleInv'
    BY <1>1 DEF CycleEnter, CycleInv
  <2> QED BY <2>2, <2>3, <2>4 DEF BaseInv, TypeOK, LockInv, riskVars,
                                 settleVars, historyVars
<1>2. CASE Register \/ Confirm
  BY <1>2 DEF Register, Confirm, Track, BaseInv, TypeOK, CycleInv, LockInv, settleVars, historyVars
<1>3. CASE CycleEnd
  <2>1. /\ cycle' = Idle
        /\ expected' \in {cycle.executed, expected}
        /\ results' \in {{}, results}
        /\ watching' \in {TRUE, watching}
        /\ UNCHANGED <<broker, active, activeIds, symbolOf, stateLock,
                       settleVars, historyVars>>
    BY <1>3 DEF CycleEnd
  <2> QED BY <2>1, IdleType DEF BaseInv, TypeOK, CycleInv, LockInv, Idle,
                                settleVars, historyVars
<1>4. ASSUME NEW c \in Contracts, Buy(c)
      PROVE  BaseInv'
  BY <1>4 DEF Buy, BaseInv, TypeOK, CycleInv, LockInv, riskVars, settleVars, historyVars
<1>5. ASSUME NEW c \in Contracts, Close(c)
      PROVE  BaseInv'
  BY <1>5 DEF Close, BaseInv, TypeOK, CycleInv, LockInv, riskVars, settleVars,
              historyVars
<1>6. ASSUME NEW c \in Contracts, Enqueue(c)
      PROVE  BaseInv'
  BY <1>6 DEF Enqueue, BaseInv, TypeOK, CycleInv, LockInv, riskVars, historyVars
<1>7. ASSUME NEW s \in Sources, NEW c \in Contracts, Ignore(s, c)
      PROVE  BaseInv'
  BY <1>7 DEF Ignore, Dequeued, BaseInv, TypeOK, CycleInv, LockInv, riskVars,
              historyVars
<1>8. ASSUME NEW s \in Sources, NEW c \in Contracts, SettleAtOnce(s, c)
      PROVE  BaseInv'
  <2>1. Pop(s, c, "applied") /\ ProcessOutcome(c) /\ stateLock' = "settler"
    BY <1>8 DEF SettleAtOnce
  <2> QED BY <2>1, PopBase, OutcomeType DEF BaseInv, TypeOK, CycleInv
<1>9. ASSUME NEW s \in Sources, NEW c \in Contracts, SettleMustWait(s, c)
      PROVE  BaseInv'
  <2>1. Pop(s, c, "popped") /\ UNCHANGED <<stateLock, riskVars, historyVars>>
    BY <1>9 DEF SettleMustWait
  <2> QED BY <2>1, PopBase DEF BaseInv, TypeOK, CycleInv, riskVars, historyVars
<1>10. ASSUME NEW s \in Sources, Resume(s)
       PROVE  BaseInv'
  <2>1. /\ stage[s] = "popped" /\ ProcessOutcome(handling[s])
        /\ stateLock' = "settler"
        /\ stage' = [stage EXCEPT ![s] = "applied"]
        /\ UNCHANGED <<broker, active, lock, handling, seen, queued,
                       workerUp, watching, cycle>>
    BY <1>10 DEF Resume
  <2>2. handling[s] \in Contracts
    BY <2>1 DEF BaseInv, LockInv
  <2> QED BY <2>1, <2>2, OutcomeType DEF BaseInv, TypeOK, CycleInv, LockInv
<1>11. ASSUME NEW s \in Sources, Complete(s)
       PROVE  BaseInv'
  <2>1. /\ stage[s] = "applied" /\ Release(s) /\ ScheduleNextCycle
        /\ stateLock' = "free" /\ seen' = seen \union {handling[s]}
        /\ UNCHANGED <<broker, active, workerUp, watching, cycle, historyVars>>
    BY <1>11 DEF Complete
  <2>2. handling[s] \in Contracts
    BY <2>1 DEF BaseInv, LockInv
  <2> QED BY <2>1, <2>2, ReleaseBase, ScheduleShrinks
          DEF BaseInv, TypeOK, CycleInv, historyVars
<1>12. ASSUME NEW s \in Sources, StateLockTimeout(s)
       PROVE  BaseInv'
  <2>1. /\ stage[s] = "popped" /\ Release(s)
        /\ workerUp' = (workerUp /\ s # Worker)
        /\ UNCHANGED <<broker, active, seen, watching, cycle, historyVars,
                       riskVars, stateLock>>
    BY <1>12 DEF StateLockTimeout, Raises
  <2> QED BY <2>1, ReleaseBase DEF BaseInv, TypeOK, CycleInv, historyVars, riskVars
<1>13. ASSUME NEW s \in Sources, PersistError(s)
       PROVE  BaseInv'
  <2>1. /\ stage[s] = "applied" /\ Release(s) /\ ScheduleNextCycle
        /\ workerUp' = (workerUp /\ s # Worker)
        /\ stateLock' = "free"
        /\ UNCHANGED <<broker, active, seen, watching, cycle, historyVars>>
    BY <1>13 DEF PersistError, Raises
  <2> QED BY <2>1, ReleaseBase, ScheduleShrinks DEF BaseInv, TypeOK, CycleInv, historyVars
<1>14. CASE SaverAcquire
  BY <1>14 DEF SaverAcquire, BaseInv, TypeOK, CycleInv, LockInv, riskVars, settleVars,
               historyVars
<1>15. CASE SaverRelease
  BY <1>15 DEF SaverRelease, BaseInv, TypeOK, CycleInv, LockInv, riskVars, settleVars,
               historyVars
<1>16. CASE WatchTurn
  BY <1>16, PruneShrinks DEF WatchTurn, BaseInv, TypeOK, CycleInv, LockInv, settleVars,
               historyVars
<1>17. CASE WatchTimeout
  BY <1>17 DEF WatchTimeout, BaseInv, TypeOK, CycleInv, LockInv, settleVars, historyVars
<1>18. CASE OrphanCleanerPrune
  BY <1>18, PruneShrinks DEF OrphanCleanerPrune, BaseInv, TypeOK, CycleInv, LockInv,
               settleVars, historyVars
<1>19. CASE UNCHANGED vars
  BY <1>19 DEF vars, BaseInv, TypeOK, CycleInv, LockInv, riskVars, settleVars,
               historyVars
<1> QED
  BY <1>1, <1>2, <1>3, <1>4, <1>5, <1>6, <1>7, <1>8, <1>9, <1>10, <1>11,
     <1>12, <1>13, <1>14, <1>15, <1>16, <1>17, <1>18, <1>19 DEF Next

\* Every variable keeps its type, and the settlement lock admits one source
\* at a time with a contract in hand: the state of orchestrator, risk manager
\* and settlement sources stays meaningful whatever fails.
THEOREM TypeCorrect == Spec => [](TypeOK /\ LockInv)
<1>1. Init => BaseInv
  BY BaseInit
<1>2. BaseInv /\ [Next]_vars => BaseInv'
  BY BaseStep
<1>3. BaseInv => TypeOK /\ LockInv
  BY DEF BaseInv
<1> QED BY <1>1, <1>2, <1>3, PTL DEF Spec

(***************************************************************************)
(* The inductive invariant                                                 *)
(***************************************************************************)

ResultInv == AppliedInv /\ UnappliedInv /\ CreditedInv /\ SettledInv
             /\ UnregisteredInv

LEMMA SettlementInvParts == SettlementInv <=> BaseInv /\ ResultInv
BY DEF SettlementInv, BaseInv, ResultInv

LEMMA ResultInit == Init => ResultInv
BY DEF Init, ResultInv, AppliedInv, UnappliedInv, CreditedInv, SettledInv,
       UnregisteredInv, Tracked, InFlight

\* A step that applies no result, moves no settlement and at most forgets
\* tracking keeps the invariant.
LEMMA ForgettingKeepsResults ==
  ASSUME ResultInv,
         UNCHANGED <<credited, stage, handling, seen>>,
         active' \subseteq active,
         activeIds' \subseteq activeIds,
         symbolOf' \subseteq symbolOf,
         results' \subseteq results,
         \A c \in Contracts : Registered(c) => Registered(c)'
  PROVE  ResultInv'
<1>1. AppliedInv'
  BY DEF ResultInv, AppliedInv
<1>2. UnappliedInv'
  BY DEF ResultInv, UnappliedInv
<1>3. CreditedInv'
  BY DEF ResultInv, CreditedInv
<1>4. SettledInv'
  BY DEF ResultInv, SettledInv
<1>5. UnregisteredInv'
  BY DEF ResultInv, UnregisteredInv, Tracked, InFlight
<1> QED BY <1>1, <1>2, <1>3, <1>4, <1>5 DEF ResultInv

\* A contract that reaches the locked section unsettled was never applied:
\* no source is inside, so only the mark could tell.
LEMMA PoppedIsUnapplied ==
  ASSUME BaseInv, ResultInv, NEW s \in Sources, NEW c \in Contracts,
         NEW next, Pop(s, c, next)
  PROVE  credited[c] = 0 /\ Registered(c) /\ c \notin results
<1>1. \A t \in Sources : stage[t] = "idle"
  BY FreeLockMeansIdle DEF Pop, Arrives
<1>2. c \notin seen /\ (c \in active \/ Tracked(c))
  BY DEF Pop
<1>3. credited[c] = 0
  BY <1>1, <1>2 DEF ResultInv, CreditedInv
<1> QED BY <1>2, <1>3 DEF ResultInv, SettledInv, UnregisteredInv

\* The heart of the argument: s, alone in the section, applies the result of
\* c, which is open nowhere and was not applied before.
LEMMA ApplyingKeepsResults ==
  ASSUME BaseInv, ResultInv, BaseInv', NEW s \in Sources, NEW c \in Contracts,
         credited[c] = 0, Registered(c), c \notin results,
         ProcessOutcome(c), c \notin active',
         active' \subseteq active,
         stage'[s] = "applied", handling'[s] = c,
         UNCHANGED <<broker, cycle, seen>>,
         \A t \in Sources \ {s} : stage[t] = "idle" /\ stage'[t] = "idle",
         stage[s] # "applied"
  PROVE  ResultInv'
<1>1. /\ activeIds' \subseteq activeIds
      /\ symbolOf' \subseteq symbolOf
      /\ results' \subseteq results \union {c}
      /\ credited' = [credited EXCEPT ![c] = @ + 1]
  BY OutcomeType
<1>2. c \notin activeIds'
  BY RegisterResultDropsId DEF ProcessOutcome
<1>3. credited'[c] = 1 /\ \A d \in Contracts \ {c} : credited'[d] = credited[d]
  BY <1>1 DEF BaseInv, TypeOK
<1>4. AppliedInv'
  BY <1>3 DEF AppliedInv
<1>5. UnappliedInv'
  BY <1>1, <1>2, <1>3 DEF ResultInv, UnappliedInv, BaseInv, TypeOK
<1>6. CreditedInv'
  BY <1>3 DEF ResultInv, CreditedInv
<1>7. SettledInv'
  BY <1>1, <1>3 DEF ResultInv, SettledInv, BaseInv, TypeOK
<1>8. UnregisteredInv'
  <2>1. \A d \in Contracts : ~Registered(d)' => ~Registered(d) /\ d # c
    BY DEF Registered
  <2> QED BY <1>1, <1>3, <2>1 DEF ResultInv, UnregisteredInv, Tracked, InFlight
<1> QED BY <1>4, <1>5, <1>6, <1>7, <1>8 DEF ResultInv

LEMMA ResultStep ==
  ASSUME PersistFailures = 0, BaseInv, ResultInv, [Next]_vars
  PROVE  ResultInv'
<1>0. BaseInv'
  BY BaseStep
<1>1. CASE CycleEnter
  BY <1>1, ForgettingKeepsResults
     DEF CycleEnter, Registered, riskVars, settleVars, historyVars
<1>2. CASE Register \/ Confirm
  <2> DEFINE c == cycle.order
  <2>1. /\ lock = None
        /\ Track(c)
        /\ symbolOf' \in {symbolOf, symbolOf \union {c}}
        /\ UNCHANGED <<broker, results, settleVars, historyVars>>
    BY <1>2 DEF Register, Confirm
  <2>2. /\ c \in Contracts /\ broker[c] # "none"
        /\ cycle.stage \in {"registering", "confirming"}
        /\ cycle'.stage \in {"confirming", "buying"}
    BY <1>2 DEF Register, Confirm, BaseInv, CycleInv
  <2>3. \A s \in Sources : stage[s] = "idle"
    BY <2>1, FreeLockMeansIdle
  <2>4. /\ active' \subseteq active \union {c}
        /\ activeIds' \subseteq activeIds \union {c}
        /\ c \in seen => active' = active /\ activeIds' = activeIds
    BY <2>1 DEF Track
  <2>5. c \notin seen => credited[c] = 0
    BY <2>2, <2>3 DEF ResultInv, CreditedInv
  <2>6. AppliedInv'
    BY <2>1, <2>3 DEF AppliedInv, settleVars
  <2>7. UnappliedInv'
    BY <2>1, <2>3, <2>4, <2>5
       DEF ResultInv, UnappliedInv, settleVars, historyVars
  <2>8. CreditedInv'
    BY <2>1 DEF ResultInv, CreditedInv, settleVars, historyVars
  <2>9. SettledInv'
    BY <2>1 DEF ResultInv, SettledInv, settleVars, historyVars
  <2>10. UnregisteredInv'
    <3>1. \A d \in Contracts : ~Registered(d)' => ~Registered(d) /\ d # c
      BY <2>1, <2>2 DEF Registered
    <3> QED BY <2>1, <2>4, <3>1
            DEF ResultInv, UnregisteredInv, Tracked, InFlight, settleVars,
                historyVars
  <2> QED BY <2>6, <2>7, <2>8, <2>9, <2>10 DEF ResultInv
<1>3. CASE CycleEnd
  <2>1. results' \subseteq results
    BY <1>3 DEF CycleEnd
  <2> QED BY <1>3, <2>1, ForgettingKeepsResults
          DEF CycleEnd, Idle, Registered, settleVars, historyVars
<1>4. ASSUME NEW c \in Contracts, Buy(c)
      PROVE  ResultInv'
  <2>1. /\ cycle.stage = "buying" /\ broker[c] = "none"
        /\ broker' = [broker EXCEPT ![c] = "open"]
        /\ cycle' = [stage |-> "registering", order |-> c,
                     executed |-> cycle.executed]
        /\ UNCHANGED <<active, riskVars, settleVars, historyVars>>
    BY <1>4 DEF Buy
  <2>2. \A d \in Contracts : Registered(d) => Registered(d)'
    BY <2>1 DEF Registered
  <2> QED BY <2>1, <2>2, ForgettingKeepsResults
          DEF riskVars, settleVars, historyVars
<1>5. ASSUME NEW c \in Contracts, Close(c)
      PROVE  ResultInv'
  <2>1. \A d \in Contracts : Registered(d) => Registered(d)'
    BY <1>5 DEF Close, Registered, BaseInv, TypeOK
  <2> QED BY <1>5, <2>1, ForgettingKeepsResults
          DEF Close, riskVars, settleVars, historyVars
<1>6. ASSUME NEW c \in Contracts, Enqueue(c)
      PROVE  ResultInv'
  BY <1>6, ForgettingKeepsResults DEF Enqueue, Registered, riskVars, historyVars
<1>7. ASSUME NEW s \in Sources, NEW c \in Contracts, Ignore(s, c)
      PROVE  ResultInv'
  BY <1>7, ForgettingKeepsResults DEF Ignore, Registered, riskVars, historyVars
<1>8. ASSUME NEW s \in Sources, NEW c \in Contracts, SettleAtOnce(s, c)
      PROVE  ResultInv'
  <2>1. Pop(s, c, "applied") /\ ProcessOutcome(c)
    BY <1>8 DEF SettleAtOnce
  <2>2. \A t \in Sources : stage[t] = "idle"
    BY <2>1, FreeLockMeansIdle DEF Pop, Arrives
  <2>3. /\ active' = active \ {c}
        /\ stage' = [stage EXCEPT ![s] = "applied"]
        /\ handling' = [handling EXCEPT ![s] = c]
        /\ UNCHANGED <<broker, cycle, seen>>
    BY <2>1 DEF Pop
  <2>4. /\ stage'[s] = "applied" /\ handling'[s] = c
        /\ \A t \in Sources \ {s} : stage[t] = "idle" /\ stage'[t] = "idle"
    BY <2>2, <2>3 DEF BaseInv, TypeOK
  <2> QED BY <1>0, <2>1, <2>2, <2>3, <2>4, PoppedIsUnapplied,
             ApplyingKeepsResults
<1>9. ASSUME NEW s \in Sources, NEW c \in Contracts, SettleMustWait(s, c)
      PROVE  ResultInv'
  <2>1. Pop(s, c, "popped") /\ UNCHANGED <<riskVars, historyVars>>
    BY <1>9 DEF SettleMustWait
  <2>2. \A t \in Sources : stage[t] = "idle"
    BY <2>1, FreeLockMeansIdle DEF Pop, Arrives
  <2>3. /\ active' = active \ {c}
        /\ stage' = [stage EXCEPT ![s] = "popped"]
        /\ handling' = [handling EXCEPT ![s] = c]
        /\ UNCHANGED <<broker, cycle, seen>>
    BY <2>1 DEF Pop
  <2>4. credited[c] = 0 /\ Registered(c)
    BY <2>1, PoppedIsUnapplied
  <2>5. \A t \in Sources : stage'[t] # "applied"
    BY <2>2, <2>3 DEF BaseInv, TypeOK
  <2>6. AppliedInv'
    BY <2>5 DEF AppliedInv
  <2>7. UnappliedInv'
    BY <2>1, <2>2, <2>3, <2>4
       DEF ResultInv, UnappliedInv, BaseInv, TypeOK, riskVars, historyVars
  <2>8. CreditedInv'
    BY <2>1, <2>2, <2>3 DEF ResultInv, CreditedInv, historyVars
  <2>9. SettledInv'
    BY <2>1, <2>3 DEF ResultInv, SettledInv, riskVars, historyVars
  <2>10. UnregisteredInv'
    <3>1. \A t \in Sources : stage'[t] # "idle" => handling'[t] = c
      BY <2>2, <2>3 DEF BaseInv, TypeOK
    <3>2. \A d \in Contracts : ~Registered(d)' => ~Registered(d) /\ d # c
      BY <2>3, <2>4 DEF Registered
    <3> QED BY <2>1, <2>3, <3>1, <3>2
            DEF ResultInv, UnregisteredInv, Tracked, InFlight, riskVars,
                historyVars
  <2> QED BY <2>6, <2>7, <2>8, <2>9, <2>10 DEF ResultInv
<1>10. ASSUME NEW s \in Sources, Resume(s)
       PROVE  ResultInv'
  <2> DEFINE c == handling[s]
  <2>1. /\ stage[s] = "popped" /\ ProcessOutcome(c)
        /\ stage' = [stage EXCEPT ![s] = "applied"]
        /\ UNCHANGED <<broker, active, lock, handling, seen, queued,
                       workerUp, watching, cycle>>
    BY <1>10 DEF Resume
  <2>2. c \in Contracts /\ \A t \in Sources \ {s} : stage[t] = "idle"
    BY <2>1 DEF BaseInv, LockInv
  <2>3. credited[c] = 0 /\ c \notin active
    BY <2>1 DEF ResultInv, UnappliedInv
  <2>4. c \notin results
    BY <2>3 DEF ResultInv, SettledInv
  <2>5. /\ stage'[s] = "applied" /\ handling'[s] = c
        /\ \A t \in Sources \ {s} : stage'[t] = "idle"
    BY <2>1, <2>2 DEF BaseInv, TypeOK
  <2>6. Registered(c)
    BY <2>1, <2>2 DEF ResultInv, UnregisteredInv, InFlight
  <2> QED BY <1>0, <2>1, <2>2, <2>3, <2>4, <2>5, <2>6, ApplyingKeepsResults
<1>11. ASSUME NEW s \in Sources, Complete(s)
       PROVE  ResultInv'
  <2>1. /\ stage[s] = "applied" /\ Release(s) /\ ScheduleNextCycle
        /\ seen' = seen \union {handling[s]}
        /\ UNCHANGED <<broker, active, cycle, historyVars>>
    BY <1>11 DEF Complete
  <2>2. \A t \in Sources \ {s} : stage[t] = "idle"
    BY <2>1 DEF BaseInv, LockInv
  <2>3. \A t \in Sources : stage'[t] = "idle"
    BY <2>1, ReleaseBase
  <2>4. credited[handling[s]] = 1
    BY <2>1 DEF ResultInv, AppliedInv
  <2>5. /\ activeIds' \subseteq activeIds /\ symbolOf' \subseteq symbolOf
        /\ results' \subseteq results
    BY <2>1, ScheduleShrinks
  <2>6. AppliedInv'
    BY <2>3 DEF AppliedInv
  <2>7. UnappliedInv'
    BY <2>1, <2>3, <2>5 DEF ResultInv, UnappliedInv, historyVars
  <2>8. CreditedInv'
    BY <2>1, <2>2 DEF ResultInv, CreditedInv, historyVars
  <2>9. SettledInv'
    BY <2>1, <2>4, <2>5 DEF ResultInv, SettledInv, historyVars
  <2>10. UnregisteredInv'
    BY <2>1, <2>3, <2>5
       DEF ResultInv, UnregisteredInv, Registered, Tracked, InFlight,
           historyVars
  <2> QED BY <2>6, <2>7, <2>8, <2>9, <2>10 DEF ResultInv
<1>12. ASSUME NEW s \in Sources, StateLockTimeout(s)
       PROVE  ResultInv'
  <2>1. /\ stage[s] = "popped" /\ Release(s)
        /\ UNCHANGED <<broker, active, seen, cycle, historyVars, riskVars>>
    BY <1>12 DEF StateLockTimeout, Raises
  <2>2. \A t \in Sources : stage[t] # "applied"
    BY <2>1 DEF BaseInv, LockInv
  <2>3. \A t \in Sources : stage'[t] = "idle"
    BY <2>1, ReleaseBase
  <2>4. AppliedInv' /\ UnappliedInv'
    BY <2>1, <2>3
       DEF AppliedInv, ResultInv, UnappliedInv, riskVars, historyVars
  <2>5. CreditedInv'
    BY <2>1, <2>2 DEF ResultInv, CreditedInv, historyVars
  <2>6. SettledInv'
    BY <2>1 DEF ResultInv, SettledInv, riskVars, historyVars
  <2>7. UnregisteredInv'
    BY <2>1, <2>3
       DEF ResultInv, UnregisteredInv, Registered, Tracked, InFlight, riskVars,
           historyVars
  <2> QED BY <2>4, <2>5, <2>6, <2>7 DEF ResultInv
<1>13. ASSUME NEW s \in Sources, PersistError(s)
       PROVE  ResultInv'
  <2>1. stage[s] = "applied" /\ credited[handling[s]] <= 0
    BY <1>13 DEF PersistError
  <2> QED BY <2>1 DEF ResultInv, AppliedInv
<1>14. CASE SaverAcquire \/ SaverRelease
  BY <1>14, ForgettingKeepsResults
     DEF SaverAcquire, SaverRelease, Registered, riskVars, settleVars,
         historyVars
<1>15. CASE WatchTurn \/ OrphanCleanerPrune
  <2>1. /\ PruneOrphans
        /\ UNCHANGED <<broker, active, settleVars, cycle, historyVars>>
    BY <1>15 DEF WatchTurn, OrphanCleanerPrune
  <2> QED BY <2>1, PruneShrinks, ForgettingKeepsResults
          DEF Registered, settleVars, historyVars
<1>16. CASE WatchTimeout
  BY <1>16, ForgettingKeepsResults
     DEF WatchTimeout, Registered, settleVars, historyVars
<1>17. CASE UNCHANGED vars
  BY <1>17, ForgettingKeepsResults
     DEF vars, Registered, riskVars, settleVars, historyVars
<1> QED
  BY <1>1, <1>2, <1>3, <1>4, <1>5, <1>6, <1>7, <1>8, <1>9, <1>10, <1>11,
     <1>12, <1>13, <1>14, <1>15, <1>16, <1>17 DEF Next

\* While the writes that end a settlement succeed, where a contract is tells
\* whether its result was applied: the invariant the safety results rest on.
THEOREM Inductive ==
  ASSUME PersistFailures = 0
  PROVE  Spec => []SettlementInv
<1>1. Init => BaseInv /\ ResultInv
  BY BaseInit, ResultInit
<1>2. BaseInv /\ ResultInv /\ [Next]_vars => (BaseInv /\ ResultInv)'
  BY BaseStep, ResultStep
<1>3. BaseInv /\ ResultInv => SettlementInv
  BY SettlementInvParts
<1> QED BY <1>1, <1>2, <1>3, PTL DEF Spec

\* The stream, the worker and any number of pollers may race, wait for the
\* state lock or give up: the balance takes each result at most once.
THEOREM ResultAppliedAtMostOnce ==
  ASSUME PersistFailures = 0
  PROVE  Spec => []AppliedAtMostOnce
<1>1. SettlementInv => AppliedAtMostOnce
  BY DEF SettlementInv, CreditedInv, AppliedAtMostOnce
<1> QED BY <1>1, Inductive, PTL

\* Once settled, a contract is never open again for TradingState or for the
\* risk manager, however registration and settlement interleave.
THEOREM SettledStaysUntracked ==
  ASSUME PersistFailures = 0
  PROVE  Spec => []SettledIsUntracked
<1>1. SettlementInv => SettledIsUntracked
  BY DEF SettlementInv, SettledInv, UnappliedInv, SettledIsUntracked
<1> QED BY <1>1, Inductive, PTL

(***************************************************************************)
(* No settlement is lost                                                   *)
(***************************************************************************)

\* Stronger than NoSettlementLost: an unapplied contract is open in
\* TradingState, or a source holds it while waiting for the state lock.
WithinReach ==
  \A c \in Contracts : Registered(c) /\ credited[c] = 0 =>
    c \in active \/ \E s \in Sources : stage[s] = "popped" /\ handling[s] = c

LEMMA WithinReachStep ==
  ASSUME PersistFailures = 0, LockTimesOut = FALSE, BaseInv, ResultInv,
         WithinReach, [Next]_vars
  PROVE  WithinReach'
<1>1. CASE CycleEnter \/ CycleEnd
  <2>1. /\ UNCHANGED <<broker, active, settleVars, historyVars>>
        /\ cycle.stage # "registering"
    BY <1>1 DEF CycleEnter, CycleEnd
  <2> QED BY <2>1 DEF WithinReach, Registered, settleVars, historyVars
<1>2. CASE Register \/ Confirm
  <2> DEFINE c == cycle.order
  <2>1. /\ Track(c)
        /\ cycle.stage \in {"registering", "confirming"}
        /\ UNCHANGED <<broker, settleVars, historyVars>>
    BY <1>2 DEF Register, Confirm
  <2>2. active \subseteq active' /\ (c \in active' \/ c \in seen)
    BY <2>1 DEF Track
  <2>3. \A d \in Contracts : Registered(d)' => Registered(d) \/ d = c
    BY <2>1 DEF Registered
  <2>4. c \in seen => credited[c] = 1
    BY DEF ResultInv, SettledInv
  <2> QED BY <2>1, <2>2, <2>3, <2>4 DEF WithinReach, settleVars, historyVars
<1>3. ASSUME NEW c \in Contracts, Buy(c)
      PROVE  WithinReach'
  <2>1. /\ broker' = [broker EXCEPT ![c] = "open"]
        /\ cycle.stage = "buying"
        /\ cycle' = [stage |-> "registering", order |-> c,
                     executed |-> cycle.executed]
        /\ UNCHANGED <<active, settleVars, historyVars>>
    BY <1>3 DEF Buy
  <2>2. \A d \in Contracts : Registered(d)' => Registered(d)
    BY <2>1 DEF Registered, BaseInv, TypeOK
  <2> QED BY <2>1, <2>2 DEF WithinReach, settleVars, historyVars
<1>4. ASSUME NEW c \in Contracts, Close(c)
      PROVE  WithinReach'
  <2>1. \A d \in Contracts : Registered(d)' => Registered(d)
    BY <1>4 DEF Close, Registered, BaseInv, TypeOK
  <2> QED BY <1>4, <2>1 DEF Close, WithinReach, settleVars, historyVars
<1>5. ASSUME NEW s \in Sources, NEW c \in Contracts,
             Enqueue(c) \/ Ignore(s, c)
      PROVE  WithinReach'
  BY <1>5 DEF Enqueue, Ignore, WithinReach, Registered, historyVars
<1>6. ASSUME NEW s \in Sources, NEW c \in Contracts, SettleAtOnce(s, c)
      PROVE  WithinReach'
  <2>1. /\ Pop(s, c, "applied")
        /\ credited' = [credited EXCEPT ![c] = @ + 1]
    BY <1>6 DEF SettleAtOnce, ProcessOutcome
  <2>2. \A t \in Sources : stage[t] = "idle"
    BY <2>1, FreeLockMeansIdle DEF Pop, Arrives
  <2>3. active' = active \ {c} /\ UNCHANGED <<broker, cycle>>
    BY <2>1 DEF Pop
  <2>4. credited'[c] # 0 /\ \A d \in Contracts \ {c} : credited'[d] = credited[d]
    BY <2>1 DEF BaseInv, TypeOK
  <2> QED BY <2>2, <2>3, <2>4 DEF WithinReach, Registered
<1>7. ASSUME NEW s \in Sources, NEW c \in Contracts, SettleMustWait(s, c)
      PROVE  WithinReach'
  <2>1. Pop(s, c, "popped") /\ UNCHANGED historyVars
    BY <1>7 DEF SettleMustWait
  <2>2. \A t \in Sources : stage[t] = "idle"
    BY <2>1, FreeLockMeansIdle DEF Pop, Arrives
  <2>3. /\ active' = active \ {c}
        /\ stage'[s] = "popped" /\ handling'[s] = c
        /\ UNCHANGED <<broker, cycle>>
    BY <2>1 DEF Pop, BaseInv, TypeOK
  <2> QED BY <2>1, <2>2, <2>3 DEF WithinReach, Registered, historyVars
<1>8. ASSUME NEW s \in Sources, Resume(s)
      PROVE  WithinReach'
  <2> DEFINE c == handling[s]
  <2>1. /\ stage[s] = "popped"
        /\ credited' = [credited EXCEPT ![c] = @ + 1]
        /\ UNCHANGED <<broker, active, handling, cycle>>
    BY <1>8 DEF Resume, ProcessOutcome
  <2>2. c \in Contracts /\ \A t \in Sources \ {s} : stage[t] = "idle"
    BY <2>1 DEF BaseInv, LockInv
  <2>3. credited'[c] # 0 /\ \A d \in Contracts \ {c} : credited'[d] = credited[d]
    BY <2>1, <2>2 DEF BaseInv, TypeOK
  <2> QED BY <2>1, <2>2, <2>3 DEF WithinReach, Registered
<1>9. ASSUME NEW s \in Sources, Complete(s)
      PROVE  WithinReach'
  <2>1. /\ stage[s] = "applied"
        /\ UNCHANGED <<broker, active, cycle, historyVars>>
    BY <1>9 DEF Complete
  <2>2. \A t \in Sources : stage[t] # "popped"
    BY <2>1 DEF BaseInv, LockInv
  <2> QED BY <2>1, <2>2 DEF WithinReach, Registered, historyVars
<1>10. ASSUME NEW s \in Sources, StateLockTimeout(s) \/ PersistError(s)
       PROVE  WithinReach'
  <2>1. stage[s] = "applied" /\ credited[handling[s]] <= 0
    BY <1>10 DEF StateLockTimeout, PersistError
  <2> QED BY <2>1 DEF ResultInv, AppliedInv
<1>11. CASE SaverAcquire \/ SaverRelease \/ WatchTurn \/ WatchTimeout
            \/ OrphanCleanerPrune
  BY <1>11 DEF SaverAcquire, SaverRelease, WatchTurn, WatchTimeout,
               OrphanCleanerPrune, WithinReach, Registered, settleVars,
               historyVars
<1>12. CASE UNCHANGED vars
  BY <1>12 DEF vars, WithinReach, Registered, settleVars, historyVars
<1> QED
  BY <1>1, <1>2, <1>3, <1>4, <1>5, <1>6, <1>7, <1>8, <1>9, <1>10, <1>11,
     <1>12, SourcesAssumption DEF Next, Sources

\* While the state lock is granted in time and the final writes succeed, every
\* registered contract whose result is outstanding can still be settled,
\* although the watch and the cleaner prune tracking without the lock.
THEOREM NothingIsLost ==
  ASSUME PersistFailures = 0, LockTimesOut = FALSE
  PROVE  Spec => []NoSettlementLost
<1>1. Init => WithinReach
  BY DEF Init, WithinReach, Registered
<1>2. SettlementInv /\ WithinReach /\ [Next]_vars => WithinReach'
  BY SettlementInvParts, WithinReachStep
<1>3. WithinReach => NoSettlementLost
  BY DEF WithinReach, NoSettlementLost, InFlight
<1> QED BY <1>1, <1>2, <1>3, Inductive, PTL DEF Spec

\* However many snapshot savers hold the state lock back, a cycle that enters has
\* every earlier result in the balance but that of a popped contract.
THEOREM CycleMissesAtMostThePopped ==
  ASSUME PersistFailures = 0, LockTimesOut = FALSE
  PROVE  Spec => CycleMissesOnlyPopped
<1> DEFINE Misses == CycleEnter => \A c \in Contracts :
                       broker[c] # "none" => credited[c] = 1 \/ Popped(c)
<1>1. Init => WithinReach
  BY DEF Init, WithinReach, Registered
<1>2. SettlementInv /\ WithinReach /\ [Next]_vars => WithinReach'
  BY SettlementInvParts, WithinReachStep
<1>3. SettlementInv /\ WithinReach => [Misses]_vars
  <2> SUFFICES ASSUME SettlementInv, WithinReach, CycleEnter,
                      NEW c \in Contracts, broker[c] # "none", credited[c] # 1
               PROVE  Popped(c)
    OBVIOUS
  <2>1. credited[c] = 0
    BY DEF SettlementInv, CreditedInv
  <2>2. Registered(c) /\ active = {}
    BY DEF CycleEnter, Registered
  <2> QED BY <2>1, <2>2 DEF WithinReach, Popped
<1> QED BY <1>1, <1>2, <1>3, Inductive, PTL DEF Spec, CycleMissesOnlyPopped

\* What TradingState holds as open has not been paid, however registration and
\* settlement interleave.
THEOREM OpenNeverApplied ==
  ASSUME PersistFailures = 0
  PROVE  Spec => []OpenIsNotApplied
<1>1. SettlementInv => OpenIsNotApplied
  BY DEF SettlementInv, UnappliedInv, OpenIsNotApplied
<1> QED BY <1>1, Inductive, PTL

(***************************************************************************)
(* What is marked as settled was applied, whatever fails                   *)
(***************************************************************************)

\* A source that has applied a result leaves it in the balance.
AppliedIsCredited ==
  \A s \in Sources : stage[s] = "applied" => credited[handling[s]] >= 1

LEMMA MarkedStep ==
  ASSUME BaseInv, AppliedIsCredited, SettledIsApplied, [Next]_vars
  PROVE  AppliedIsCredited' /\ SettledIsApplied'
<1> USE DEF AppliedIsCredited, SettledIsApplied
<1>1. CASE \/ CycleEnter \/ CycleEnd \/ Register \/ Confirm \/ SaverAcquire
           \/ SaverRelease \/ WatchTurn \/ WatchTimeout \/ OrphanCleanerPrune
           \/ UNCHANGED vars
  <2>1. UNCHANGED <<settleVars, historyVars>>
    BY <1>1 DEF CycleEnter, CycleEnd, Register, Confirm, SaverAcquire, SaverRelease,
                WatchTurn, WatchTimeout, OrphanCleanerPrune, vars
  <2> QED BY <2>1 DEF settleVars, historyVars
<1>2. ASSUME NEW s \in Sources, NEW c \in Contracts,
             Buy(c) \/ Close(c) \/ Enqueue(c) \/ Ignore(s, c)
      PROVE  AppliedIsCredited' /\ SettledIsApplied'
  <2>1. UNCHANGED <<stage, handling, seen, credited>>
    BY <1>2 DEF Buy, Close, Enqueue, Ignore, settleVars, historyVars
  <2> QED BY <2>1
<1>3. ASSUME NEW s \in Sources, NEW c \in Contracts, SettleAtOnce(s, c)
      PROVE  AppliedIsCredited' /\ SettledIsApplied'
  <2>1. /\ stage' = [stage EXCEPT ![s] = "applied"]
        /\ handling' = [handling EXCEPT ![s] = c]
        /\ credited' = [credited EXCEPT ![c] = @ + 1]
        /\ UNCHANGED seen
    BY <1>3 DEF SettleAtOnce, Pop, ProcessOutcome
  <2> QED BY <2>1 DEF BaseInv, TypeOK, LockInv
<1>4. ASSUME NEW s \in Sources, NEW c \in Contracts, SettleMustWait(s, c)
      PROVE  AppliedIsCredited' /\ SettledIsApplied'
  <2>1. /\ stage' = [stage EXCEPT ![s] = "popped"]
        /\ handling' = [handling EXCEPT ![s] = c]
        /\ UNCHANGED <<seen, credited>>
    BY <1>4 DEF SettleMustWait, Pop, historyVars
  <2> QED BY <2>1 DEF BaseInv, TypeOK
<1>5. ASSUME NEW s \in Sources, Resume(s)
      PROVE  AppliedIsCredited' /\ SettledIsApplied'
  <2>1. /\ stage' = [stage EXCEPT ![s] = "applied"] /\ stage[s] = "popped"
        /\ credited' = [credited EXCEPT ![handling[s]] = @ + 1]
        /\ UNCHANGED <<seen, handling>>
    BY <1>5 DEF Resume, ProcessOutcome
  <2> QED BY <2>1 DEF BaseInv, TypeOK, LockInv
<1>6. ASSUME NEW s \in Sources, Complete(s)
      PROVE  AppliedIsCredited' /\ SettledIsApplied'
  <2>1. /\ stage[s] = "applied" /\ Release(s)
        /\ seen' = seen \union {handling[s]} /\ UNCHANGED credited
    BY <1>6 DEF Complete, historyVars
  <2>2. \A t \in Sources : stage'[t] = "idle"
    BY <2>1, ReleaseBase
  <2> QED BY <2>1, <2>2
<1>7. ASSUME NEW s \in Sources, StateLockTimeout(s) \/ PersistError(s)
      PROVE  AppliedIsCredited' /\ SettledIsApplied'
  <2>1. stage[s] # "idle" /\ Release(s) /\ UNCHANGED <<seen, credited>>
    BY <1>7 DEF StateLockTimeout, PersistError, Raises, historyVars
  <2>2. \A t \in Sources : stage'[t] = "idle"
    BY <2>1, ReleaseBase
  <2> QED BY <2>1, <2>2
<1> QED
  BY <1>1, <1>2, <1>3, <1>4, <1>5, <1>6, <1>7, SourcesAssumption DEF Next, Sources

\* The mark that shuts every later source out comes only after the balance took
\* the result, with any time-outs of the state lock and failing writes.
THEOREM SettledWasApplied == Spec => []SettledIsApplied
<1>1. Init => BaseInv /\ AppliedIsCredited /\ SettledIsApplied
  BY BaseInit DEF Init, AppliedIsCredited, SettledIsApplied
<1>2. BaseInv /\ AppliedIsCredited /\ SettledIsApplied /\ [Next]_vars
        => (BaseInv /\ AppliedIsCredited /\ SettledIsApplied)'
  BY BaseStep, MarkedStep
<1> QED BY <1>1, <1>2, PTL DEF Spec

(***************************************************************************)
(* With one order to a cluster the settlement implements the ledger        *)
(***************************************************************************)

\* One order to a cluster, no saver that holds the state lock, no failure.
OneOrderToACluster ==
  /\ MaxOrders = 1
  /\ SaverRuns = FALSE /\ LockTimesOut = FALSE /\ PersistFailures = 0

NobodyWaits == stateLock # "saver" /\ \A s \in Sources : stage[s] # "popped"

Awaited(c) == Registered(c) /\ credited[c] = 0

\* Whose result is awaited is open, has its symbol, which no watch that gives up
\* takes away, and is alone; none is while a cycle has yet to register its order.
AwaitedInv ==
  /\ \A c \in Contracts : Awaited(c) => c \in active \intersect symbolOf
  /\ \A c, d \in Contracts : Awaited(c) /\ Awaited(d) => c = d
  /\ \/ cycle.stage = "registering"
     \/ cycle.stage = "buying" /\ cycle.executed = 0
     => \A c \in Contracts : ~Awaited(c)

BookedAgrees == \A c \in Contracts : booked[c] = credited[c]

ClusterInv == SettlementInv /\ NobodyWaits /\ AwaitedInv /\ BookedAgrees

LEMMA ClusterInit == Init => NobodyWaits /\ AwaitedInv /\ BookedAgrees
BY DEF Init, NobodyWaits, AwaitedInv, BookedAgrees, Awaited, Registered, Idle

\* The contract a source finds settled is awaited, and its result is booked.
LEMMA SettlesAwaited ==
  ASSUME OneOrderToACluster, ClusterInv,
         NEW s \in Sources, NEW c \in Contracts, SettleAtOnce(s, c)
  PROVE  /\ Awaited(c)
         /\ active' = active \ {c}
         /\ credited' = [credited EXCEPT ![c] = @ + 1]
         /\ booked' = [booked EXCEPT ![c] = @ + 1]
         /\ stage' = [stage EXCEPT ![s] = "applied"]
         /\ stateLock' = "settler"
         /\ UNCHANGED <<broker, cycle>>
<1> USE DEF ClusterInv
<1>1. /\ lock = None /\ c \notin seen /\ (c \in active \/ Tracked(c))
      /\ active' = active \ {c} /\ stage' = [stage EXCEPT ![s] = "applied"]
      /\ stateLock' = "settler" /\ UNCHANGED <<broker, cycle>>
      /\ ProcessOutcome(c)
  BY DEF SettleAtOnce, Pop, Arrives
<1>2. \A t \in Sources : stage[t] = "idle"
  BY <1>1, FreeLockMeansIdle, SettlementInvParts
<1>3. credited[c] = 0
  BY <1>1, <1>2 DEF SettlementInv, CreditedInv
<1>4. Awaited(c)
  BY <1>1, <1>3 DEF SettlementInv, UnregisteredInv, Awaited
<1>5. Tracked(c) /\ c \notin results
  BY <1>3, <1>4 DEF AwaitedInv, SettlementInv, SettledInv, Tracked
<1>6. /\ credited' = [credited EXCEPT ![c] = @ + 1]
      /\ booked' = [booked EXCEPT ![c] = @ + 1]
  BY <1>1, <1>5 DEF ProcessOutcome, RegisterResult
<1> QED BY <1>1, <1>4, <1>6

Results == <<{c \in Contracts : Registered(c) /\ credited[c] = 0}, credited, booked>>

\* A step of the ledger, or one it does not see.
LedgerStep == [Ledger!Next]_Results

Kept == NobodyWaits' /\ AwaitedInv' /\ BookedAgrees' /\ LedgerStep

\* A step that neither buys nor settles, and takes no open contract's symbol.
LEMMA QuietKeeps ==
  ASSUME ClusterInv, UNCHANGED <<broker, active, cycle, historyVars>>,
         symbolOf \intersect active \subseteq symbolOf',
         stateLock' # "saver", \A s \in Sources : stage'[s] # "popped"
  PROVE  Kept
<1>1. UNCHANGED <<broker, active, cycle, credited, booked>>
  BY DEF historyVars
<1>2. \A c \in Contracts : (Registered(c)' <=> Registered(c)) /\ (Awaited(c)' <=> Awaited(c))
  BY <1>1 DEF Awaited, Registered
<1>3. AwaitedInv' /\ BookedAgrees'
  BY <1>1, <1>2 DEF ClusterInv, AwaitedInv, BookedAgrees
<1>4. LedgerStep
  BY <1>1, <1>2 DEF LedgerStep, Results
<1> QED BY <1>3, <1>4 DEF Kept, NobodyWaits

\* A step of the cycle that registers nothing new: what is awaited stays so.
LEMMA CycleKeeps ==
  ASSUME ClusterInv, UNCHANGED <<settleVars, stateLock, historyVars>>,
         \A c \in Contracts : Registered(c)' <=> Registered(c),
         active \subseteq active', symbolOf \subseteq symbolOf',
         \/ cycle'.stage = "registering"
         \/ cycle'.stage = "buying" /\ cycle'.executed = 0
         => \A c \in Contracts : ~Awaited(c)
  PROVE  Kept
<1>1. UNCHANGED <<stage, stateLock, credited, booked>>
  BY DEF settleVars, historyVars
<1>2. \A c \in Contracts : Awaited(c)' <=> Awaited(c)
  BY <1>1 DEF Awaited
<1>3. NobodyWaits' /\ AwaitedInv' /\ BookedAgrees'
  BY <1>1, <1>2 DEF ClusterInv, NobodyWaits, AwaitedInv, BookedAgrees
<1>4. LedgerStep
  BY <1>1, <1>2 DEF LedgerStep, Results
<1> QED BY <1>3, <1>4 DEF Kept

\* The registration makes the order's contract the only one that is awaited.
LEMMA RegisterKeeps ==
  ASSUME ClusterInv, Register, NEW c, c = cycle.order
  PROVE  Kept
<1> USE DEF ClusterInv
<1>1. /\ cycle.stage = "registering" /\ Track(c)
      /\ symbolOf' = symbolOf \union {c}
      /\ cycle' = [stage |-> "confirming", order |-> c, executed |-> cycle.executed]
      /\ UNCHANGED <<broker, stage, stateLock, seen, credited, booked>>
  BY DEF Register, settleVars, historyVars
<1>2. c \in Contracts /\ broker[c] # "none" /\ ~Registered(c)
  BY <1>1 DEF SettlementInv, CycleInv, Registered
<1>3. credited[c] = 0 /\ c \notin active
  BY <1>2 DEF SettlementInv, UnregisteredInv
<1>4. c \notin seen
  BY <1>2, <1>3 DEF SettlementInv, SettledInv
<1>5. active' = active \union {c}
  BY <1>1, <1>3, <1>4 DEF Track
<1>6. \A d \in Contracts : ~Awaited(d)
  BY <1>1 DEF AwaitedInv
<1>7. \A d \in Contracts : Registered(d)' <=> Registered(d) \/ d = c
  BY <1>1, <1>2 DEF Registered
<1>8. \A d \in Contracts : Awaited(d)' <=> d = c
  BY <1>1, <1>2, <1>3, <1>6, <1>7 DEF Awaited
<1>9. NobodyWaits' /\ AwaitedInv' /\ BookedAgrees'
  BY <1>1, <1>2, <1>5, <1>8 DEF NobodyWaits, AwaitedInv, BookedAgrees
<1>10. Ledger!Open(c)
  <2>1. {d \in Contracts : Registered(d) /\ credited[d] = 0} = {}
    BY <1>6 DEF Awaited
  <2>2. {d \in Contracts : Registered(d) /\ credited[d] = 0}' = {c}
    BY <1>2, <1>8 DEF Awaited
  <2> QED BY <1>1, <1>3, <2>1, <2>2 DEF Ledger!Open
<1> QED BY <1>2, <1>9, <1>10 DEF Kept, LedgerStep, Ledger!Next

\* A settlement takes the only awaited contract, and pays and books it.
LEMMA SettleKeeps ==
  ASSUME OneOrderToACluster, ClusterInv,
         NEW s \in Sources, NEW c \in Contracts, SettleAtOnce(s, c)
  PROVE  Kept
<1>1. /\ Awaited(c) /\ active' = active \ {c}
      /\ credited' = [credited EXCEPT ![c] = @ + 1]
      /\ booked' = [booked EXCEPT ![c] = @ + 1]
      /\ stage' = [stage EXCEPT ![s] = "applied"] /\ stateLock' = "settler"
      /\ UNCHANGED <<broker, cycle>>
  BY SettlesAwaited
<1>2. TypeOK
  BY DEF ClusterInv, SettlementInv
<1>3. \A d \in Contracts : Awaited(d) <=> d = c
  BY <1>1 DEF ClusterInv, AwaitedInv
<1>4. \A d \in Contracts : Registered(d)' <=> Registered(d)
  BY <1>1 DEF Registered
<1>5. \A d \in Contracts : ~Awaited(d)'
  BY <1>1, <1>2, <1>3, <1>4 DEF Awaited, TypeOK
<1>6. NobodyWaits'
  BY <1>1, <1>2 DEF ClusterInv, NobodyWaits, TypeOK
<1>7. AwaitedInv'
  BY <1>5 DEF AwaitedInv
<1>8. BookedAgrees'
  BY <1>1, <1>2 DEF ClusterInv, BookedAgrees, TypeOK
<1>9. Ledger!Settle(c)
  <2>1. {d \in Contracts : Registered(d) /\ credited[d] = 0} = {c}
    BY <1>3 DEF Awaited
  <2>2. {d \in Contracts : Registered(d) /\ credited[d] = 0}' = {}
    BY <1>5 DEF Awaited
  <2> QED BY <1>1, <2>1, <2>2 DEF Ledger!Settle
<1> QED BY <1>6, <1>7, <1>8, <1>9 DEF Kept, LedgerStep, Ledger!Next

LEMMA ClusterStep ==
  ASSUME OneOrderToACluster, ClusterInv, [Next]_vars
  PROVE  Kept
<1> USE DEF ClusterInv
<1>0. TypeOK /\ NobodyWaits
  BY DEF SettlementInv
<1>1. CASE CycleEnter
  <2>1. /\ active = {} /\ cycle.stage = "idle" /\ cycle'.stage = "buying"
        /\ UNCHANGED <<broker, active, symbolOf, stateLock, settleVars, historyVars>>
    BY <1>1 DEF CycleEnter, riskVars
  <2>2. \A c \in Contracts : ~Awaited(c)
    BY <2>1 DEF AwaitedInv
  <2>3. \A c \in Contracts : Registered(c)' <=> Registered(c)
    BY <2>1 DEF Registered
  <2> QED BY <2>1, <2>2, <2>3, CycleKeeps
<1>2. CASE Register
  BY <1>2, RegisterKeeps
<1>3. CASE Confirm
  <2>1. /\ cycle.stage = "confirming" /\ Track(cycle.order)
        /\ symbolOf \subseteq symbolOf'
        /\ cycle' = [stage |-> "buying", order |-> None,
                     executed |-> cycle.executed + 1]
        /\ UNCHANGED <<broker, stateLock, settleVars, historyVars>>
    BY <1>3 DEF Confirm
  <2>2. active \subseteq active' /\ cycle'.executed # 0
    BY <1>0, <2>1 DEF Track, TypeOK
  <2>3. \A c \in Contracts : Registered(c)' <=> Registered(c)
    BY <2>1 DEF Registered
  <2> QED BY <2>1, <2>2, <2>3, CycleKeeps
<1>4. CASE CycleEnd
  <2>1. /\ cycle.stage = "buying" /\ cycle' = Idle
        /\ UNCHANGED <<broker, active, symbolOf, stateLock, settleVars, historyVars>>
    BY <1>4 DEF CycleEnd
  <2>2. \A c \in Contracts : Registered(c)' <=> Registered(c)
    BY <2>1 DEF Registered, Idle
  <2>3. cycle'.stage = "idle"
    BY <2>1 DEF Idle
  <2> QED BY <2>1, <2>2, <2>3, CycleKeeps
<1>5. ASSUME NEW c \in Contracts, Buy(c)
      PROVE  Kept
  <2>1. /\ cycle.stage = "buying" /\ cycle.executed < 1 /\ broker[c] = "none"
        /\ broker' = [broker EXCEPT ![c] = "open"]
        /\ cycle' = [stage |-> "registering", order |-> c, executed |-> cycle.executed]
        /\ UNCHANGED <<active, symbolOf, stateLock, settleVars, historyVars>>
    BY <1>5 DEF Buy, riskVars, OneOrderToACluster
  <2>2. \A d \in Contracts : ~Awaited(d)
    BY <1>0, <2>1 DEF AwaitedInv, TypeOK
  <2>3. \A d \in Contracts : Registered(d)' <=> Registered(d)
    BY <1>0, <2>1 DEF Registered, TypeOK
  <2> QED BY <2>1, <2>2, <2>3, CycleKeeps
<1>6. ASSUME NEW c \in Contracts, Close(c)
      PROVE  Kept
  <2>1. /\ broker[c] = "open" /\ broker' = [broker EXCEPT ![c] = "closed"]
        /\ UNCHANGED <<active, symbolOf, cycle, stateLock, settleVars, historyVars>>
    BY <1>6 DEF Close, riskVars
  <2>2. \A d \in Contracts : Registered(d)' <=> Registered(d)
    BY <1>0, <2>1 DEF Registered, TypeOK
  <2> QED BY <2>1, <2>2, CycleKeeps DEF AwaitedInv
<1>7. ASSUME NEW s \in Sources, NEW c \in Contracts, Enqueue(c) \/ Ignore(s, c)
      PROVE  Kept
  <2>1. UNCHANGED <<broker, active, symbolOf, cycle, historyVars, stage, stateLock>>
    BY <1>7 DEF Enqueue, Ignore, riskVars
  <2> QED BY <1>0, <2>1, QuietKeeps DEF NobodyWaits
<1>8. ASSUME NEW s \in Sources, NEW c \in Contracts, SettleAtOnce(s, c)
      PROVE  Kept
  BY <1>8, SettleKeeps
<1>9. ASSUME NEW s \in Sources, NEW c \in Contracts, SettleMustWait(s, c)
      PROVE  FALSE
  BY <1>0, <1>9 DEF SettleMustWait, NobodyWaits
<1>10. ASSUME NEW s \in Sources, Resume(s) \/ StateLockTimeout(s) \/ PersistError(s)
       PROVE  FALSE
  BY <1>0, <1>10 DEF Resume, StateLockTimeout, PersistError, NobodyWaits,
                     OneOrderToACluster, SettlementInv, AppliedInv
<1>11. ASSUME NEW s \in Sources, Complete(s)
       PROVE  Kept
  <2>1. /\ stage[s] = "applied" /\ Release(s) /\ ScheduleNextCycle
        /\ stateLock' = "free"
        /\ UNCHANGED <<broker, active, cycle, historyVars>>
    BY <1>11 DEF Complete
  <2>2. \A t \in Sources : stage'[t] = "idle"
    BY <2>1, ReleaseBase, SettlementInvParts
  <2>3. symbolOf \intersect active \subseteq symbolOf'
    BY <2>1 DEF ScheduleNextCycle, riskVars
  <2> QED BY <2>1, <2>2, <2>3, QuietKeeps
<1>12. CASE SaverAcquire \/ SaverRelease
  BY <1>0, <1>12 DEF SaverAcquire, SaverRelease, NobodyWaits, OneOrderToACluster
<1>13. CASE WatchTurn \/ WatchTimeout \/ OrphanCleanerPrune \/ UNCHANGED vars
  <2>1. /\ UNCHANGED <<broker, active, cycle, historyVars, stage, stateLock>>
        /\ symbolOf \intersect active \subseteq symbolOf'
    BY <1>13 DEF WatchTurn, WatchTimeout, OrphanCleanerPrune, PruneOrphans, vars,
                 settleVars, riskVars
  <2> QED BY <1>0, <2>1, QuietKeeps DEF NobodyWaits
<1> QED
  BY <1>1, <1>2, <1>3, <1>4, <1>5, <1>6, <1>7, <1>8, <1>9, <1>10, <1>11, <1>12,
     <1>13, SourcesAssumption DEF Next, Sources

LEMMA ClusterInvariance ==
  ASSUME OneOrderToACluster
  PROVE  Spec => []ClusterInv /\ [][Kept]_vars
<1>1. PersistFailures = 0
  BY DEF OneOrderToACluster
<1>2. Spec => []SettlementInv
  BY <1>1, Inductive
<1>3. SettlementInv /\ NobodyWaits /\ AwaitedInv /\ BookedAgrees /\ [Next]_vars
        => NobodyWaits' /\ AwaitedInv' /\ BookedAgrees' /\ Kept
  BY ClusterStep DEF ClusterInv, Kept
<1>4. [](ClusterInv <=> SettlementInv /\ NobodyWaits /\ AwaitedInv /\ BookedAgrees)
  BY PTL DEF ClusterInv
<1> QED BY <1>2, <1>3, <1>4, ClusterInit, PTL DEF Spec

\* With one order to a cluster, and a state lock nobody else holds, the risk
\* ledger takes every result once, although the watch gives up and prunes.
THEOREM BookedOnceEach ==
  ASSUME OneOrderToACluster
  PROVE  Spec => []BookedExactlyOnce
<1>1. ClusterInv => BookedExactlyOnce
  BY DEF ClusterInv, SettlementInv, BookedAgrees, BookedExactlyOnce, CreditedInv,
         SettledInv, TypeOK
<1> QED BY <1>1, ClusterInvariance, PTL

\* The refinement: initial states are the ledger's, and every step is a step of
\* the ledger or none (its liveness is the model checker's).
THEOREM SettlementImplementsLedger ==
  ASSUME OneOrderToACluster
  PROVE  Spec => Ledger!Safety
<1>1. Init => Ledger!Init
  BY DEF Init, Ledger!Init, Registered
<1>2. Kept => LedgerStep
  BY DEF Kept
<1>3. UNCHANGED vars => UNCHANGED Results
  BY DEF vars, Results, Registered, historyVars
<1>4. [Kept]_vars => [Ledger!Next]_Results
  BY <1>2, <1>3 DEF LedgerStep
<1> QED BY <1>1, <1>4, ClusterInvariance, PTL DEF Spec, Ledger!Safety, Results
=============================================================================
