--------------------------- MODULE PilotEvidence ---------------------------
(***************************************************************************)
(* The evidence a setup version is judged by.  Every purchase of the DEMO  *)
(* pilot leaves rows in the writer's queue (the purchase, its attribution  *)
(* to the version, the settlement); a worker writes them in batches to     *)
(* contract_executions, where the indicator service counts the first       *)
(* Sample purchases and promotes the version, or fails it, once.           *)
(*                                                                         *)
(* No gate bounds the purchases: without a confirmed setup the executor    *)
(* takes a mandatory order of the same version.                            *)
(***************************************************************************)
EXTENDS Integers, SequencesExt

CONSTANTS Sample,        \* purchases that make a verdict (200 in the code)
          MaxPurchases,  \* bound: contracts bought
          BatchLimit,    \* rows a batch takes at most (500 in the code)
          MaxFaults      \* bound: writes that fail, shutdowns and crashes, settlements not heard from the broker

ASSUME PilotAssumption ==
  /\ Sample \in Nat \ {0, 1} /\ MaxPurchases \in Nat /\ BatchLimit \in Nat \ {0}
  /\ MaxFaults \in Nat

\* Contracts are numbered in the order of their purchase.
Purchases == 1..MaxPurchases
Outcomes  == {"won", "lost"}
Reports   == {"broker", "inferred_rest", "profit_table", "late"}

VARIABLES
  purchased,     \* contracts bought so far
  outcome,       \* what the broker paid each, "open" until it settled
  report,        \* where the engine learnt it from
  unattributed,  \* bought contracts whose attribution is still to be recorded
  queued,        \* rows in the writer's queue
  writer,        \* the worker: whether it runs and the batch in its hands
  stopping,      \* how far the shutdown of the writer is, and its batch
  accepted,      \* rows put into the queue (history)
  missing,       \* rows refused, in a batch that failed, or lost with the process (history)
  executions,    \* contract_executions
  registry,      \* state of the version in pullback_registry
  decidedOn,     \* the sample the verdict was taken on (history)
  failures, stops

pilotVars == <<purchased, outcome, report, unattributed, queued, writer, stopping, accepted,
               missing, executions, registry, decidedOn, failures, stops>>

tradeVars    == <<purchased, outcome, report, unattributed>>
evidenceVars == <<executions, registry, decidedOn>>

\* A row carries a result, and where it was learnt from, with the settlement only.
Rows == [contract : Purchases, kind : {"purchase", "attribution"},
         profit : {"none"}, source : {"pending"}]
          \cup [contract : Purchases, kind : {"settlement"},
                profit : Outcomes, source : {"broker", "inferred_rest", "profit_table"}]

StopStages == {"open", "flushing", "writing", "flushed", "draining", "rest", "writing rest",
               "closed", "aborted"}

\* What contract_executions keeps of a contract, as far as the verdict reads it.
Executions == [start : BOOLEAN, price : BOOLEAN, attributed : BOOLEAN,
               profit : Outcomes \cup {"none"},
               source : {"none", "pending", "broker", "inferred_rest", "profit_table"}]

Row(c, kind, profit, source) == [contract |-> c, kind |-> kind, profit |-> profit, source |-> source]

NoExecution == [start |-> FALSE, price |-> FALSE, attributed |-> FALSE, profit |-> "none", source |-> "none"]
Idle        == [works |-> FALSE, batch |-> <<>>]
Working     == [works |-> TRUE, batch |-> <<>>]
Running     == [stage |-> "open", batch |-> <<>>]

PilotInit ==
  /\ purchased = 0 /\ unattributed = {}
  /\ outcome = [c \in Purchases |-> "open"]
  /\ report = [c \in Purchases |-> "none"]
  /\ queued = <<>> /\ writer = Idle /\ stopping = Running
  /\ accepted = {} /\ missing = {}
  /\ executions = [c \in Purchases |-> NoExecution]
  /\ registry = "piloto" /\ decidedOn = {}
  /\ failures = 0 /\ stops = 0

Unheard == Cardinality({d \in 1..purchased : report[d] \notin {"none", "broker"}})
Faults  == failures + stops + Unheard

-----------------------------------------------------------------------------
(* The writer *)

Refusing == stopping.stage \in {"draining", "rest", "writing rest", "closed"}
Alive    == stopping.stage \notin {"closed", "aborted"}

InMemory == ToSet(queued) \cup ToSet(writer.batch) \cup ToSet(stopping.batch)

\* A worker that ended is replaced at the next row.
EnsureWorker == writer' = IF writer.works THEN writer ELSE Working

Enqueue(row) ==
  IF Refusing
  THEN missing' = missing \cup {row} /\ UNCHANGED <<queued, writer, accepted>>
  ELSE /\ queued' = Append(queued, row)
       /\ accepted' = accepted \cup {row}
       /\ EnsureWorker
       /\ UNCHANGED missing

\* Ticks and bars pass through the same queue and the same batches; only what
\* they do to the worker is kept.
EnqueueTick ==
  /\ Alive /\ ~Refusing /\ ~writer.works
  /\ EnsureWorker
  /\ UNCHANGED <<tradeVars, queued, stopping, accepted, missing, evidenceVars, failures, stops>>

Collect ==
  /\ Alive /\ writer.works
  /\ queued # <<>> /\ Len(writer.batch) < BatchLimit
  /\ writer' = [writer EXCEPT !.batch = Append(@, Head(queued))]
  /\ queued' = Tail(queued)
  /\ UNCHANGED <<tradeVars, stopping, accepted, missing, evidenceVars, failures, stops>>

\* A row of the profit table does not repeat the price.
Priced(row) == row.kind = "purchase" \/ (row.kind = "settlement" /\ row.source # "profit_table")

\* Bug: the latest row names the source.
UpsertedLastSource(old, row) ==
  [ start      |-> old.start \/ row.kind = "purchase" \/ row.source = "broker",
    price      |-> old.price \/ Priced(row),
    attributed |-> old.attributed \/ row.kind = "attribution",
    profit     |-> IF row.source = "broker" \/ old.profit = "none" THEN row.profit ELSE old.profit,
    source     |-> row.source ]

\* The upsert: a field that the new row lacks keeps its value, and a profit
\* that was stored gives way to the broker's only.
Upserted(old, row) ==
  [ start      |-> old.start \/ row.kind = "purchase" \/ row.source = "broker",
    price      |-> old.price \/ Priced(row),
    attributed |-> old.attributed \/ row.kind = "attribution",
    profit     |-> IF row.source = "broker" \/ old.profit = "none" THEN row.profit ELSE old.profit,
    source     |-> IF "broker" \in {row.source, old.source} THEN "broker" ELSE row.source ]

Upsert(table, row) == [table EXCEPT ![row.contract] = Upserted(@, row)]

AfterBatch(batch) ==
  LET table[i \in 0..Len(batch)] ==
        IF i = 0 THEN executions ELSE Upsert(table[i - 1], batch[i])
  IN table[Len(batch)]

\* The interval is over, or the batch is full.
BatchWritten ==
  /\ Alive /\ writer.works /\ writer.batch # <<>>
  /\ executions' = AfterBatch(writer.batch)
  /\ writer' = IF Refusing /\ queued = <<>> THEN Idle ELSE Working
  /\ UNCHANGED <<tradeVars, queued, stopping, accepted, missing, registry, decidedOn, failures, stops>>

\* An exception ends the worker, with the batch in its hands; a batch without
\* rows of contracts is one of ticks.
BatchFails ==
  /\ Alive /\ writer.works /\ Faults < MaxFaults
  /\ failures' = failures + 1
  /\ missing' = missing \cup ToSet(writer.batch)
  /\ writer' = Idle
  /\ UNCHANGED <<tradeVars, queued, stopping, accepted, evidenceVars, stops>>

-----------------------------------------------------------------------------
(* Purchases and settlements *)

\* A cycle buys with nothing open and one order at a time.
Purchase ==
  LET c == purchased + 1
  IN /\ stopping.stage = "open" /\ c \in Purchases
     /\ unattributed = {} /\ \A d \in 1..purchased : outcome[d] # "open"
     /\ purchased' = c
     /\ unattributed' = {c}
     /\ Enqueue(Row(c, "purchase", "none", "pending"))
     /\ UNCHANGED <<outcome, report, stopping, evidenceVars, failures, stops>>

\* Recorded after the contract's registration, when it may have settled.
Attribute(c) ==
  /\ Alive /\ c \in unattributed
  /\ unattributed' = unattributed \ {c}
  /\ Enqueue(Row(c, "attribution", "none", "pending"))
  /\ UNCHANGED <<purchased, outcome, report, stopping, evidenceVars, failures, stops>>

\* A contract lasts minutes, a batch fractions of a second: the rows of its
\* purchase do not wait that long.
Settled(c, how, o) ==
  /\ Alive /\ c <= purchased /\ outcome[c] = "open"
  /\ \A row \in InMemory : row.contract # c
  /\ outcome' = [outcome EXCEPT ![c] = o]
  /\ report' = [report EXCEPT ![c] = how]
  /\ UNCHANGED <<purchased, unattributed, stopping, evidenceVars, failures, stops>>

\* The broker's own message.
SettleByBroker(c) ==
  \E o \in Outcomes : Settled(c, "broker", o) /\ Enqueue(Row(c, "settlement", o, "broker"))

\* From the account's balance after the expiry, which may have moved for
\* another reason.
SettleByBalance(c) ==
  \E o, guess \in Outcomes :
    /\ Faults < MaxFaults
    /\ Settled(c, "inferred_rest", o)
    /\ Enqueue(Row(c, "settlement", guess, "inferred_rest"))

\* From the broker's profit table, when its message on the contract does not come.
SettleByTable(c) ==
  \E o \in Outcomes :
    /\ Faults < MaxFaults
    /\ Settled(c, "profit_table", o)
    /\ Enqueue(Row(c, "settlement", o, "profit_table"))

\* A settlement of a contract no longer tracked leaves no row.
SettleLate(c) ==
  \E o \in Outcomes :
    /\ Faults < MaxFaults
    /\ Settled(c, "late", o)
    /\ UNCHANGED <<queued, writer, accepted, missing>>

-----------------------------------------------------------------------------
(* Shutdown, crash and restart *)

Stage(from, to) == stopping.stage = from /\ stopping' = [stopping EXCEPT !.stage = to]

\* close_infra_services flushes, closes the store, then closes the writer.
Shutdown ==
  /\ Faults < MaxFaults /\ stops' = stops + 1
  /\ Stage("open", "flushing")
  /\ UNCHANGED <<tradeVars, queued, writer, accepted, missing, evidenceVars, failures>>

\* The flush takes the whole queue, beside the worker and its batch.
FlushTakes(from, writing, next) ==
  /\ stopping.stage = from
  /\ stopping' = IF queued = <<>> THEN [stage |-> next, batch |-> <<>>]
                                  ELSE [stage |-> writing, batch |-> queued]
  /\ queued' = <<>>
  /\ UNCHANGED <<tradeVars, writer, accepted, missing, evidenceVars, failures, stops>>

FlushSucceeds(writing, next) ==
  /\ stopping.stage = writing
  /\ executions' = AfterBatch(stopping.batch)
  /\ stopping' = [stage |-> next, batch |-> <<>>]
  /\ UNCHANGED <<tradeVars, queued, writer, accepted, missing, registry, decidedOn, failures, stops>>

\* The exception leaves the shutdown: the writer is not closed.
FlushFails(writing) ==
  /\ stopping.stage = writing /\ Faults < MaxFaults
  /\ failures' = failures + 1
  /\ missing' = missing \cup ToSet(stopping.batch)
  /\ stopping' = [stage |-> "aborted", batch |-> <<>>]
  /\ UNCHANGED <<tradeVars, queued, writer, accepted, evidenceVars, stops>>

Flush == \/ FlushTakes("flushing", "writing", "flushed")
         \/ FlushSucceeds("writing", "flushed")
         \/ FlushFails("writing")

\* Bug: close does not wait for the worker.
CloseWriterUnawaited ==
  /\ Stage("flushed", "rest")
  /\ UNCHANGED <<tradeVars, queued, writer, accepted, missing, evidenceVars, failures, stops>>

\* close() refuses new rows, waits for the worker, which first empties the
\* queue, and flushes what a worker that failed left behind.
CloseWriter ==
  /\ Stage("flushed", "draining")
  /\ UNCHANGED <<tradeVars, queued, writer, accepted, missing, evidenceVars, failures, stops>>

\* The worker waits for a row, finds none and sees that the writer closed.
WorkerEnds ==
  /\ Refusing /\ writer = Working /\ queued = <<>>
  /\ writer' = Idle
  /\ UNCHANGED <<tradeVars, queued, stopping, accepted, missing, evidenceVars, failures, stops>>

WorkerAwaited ==
  /\ ~writer.works
  /\ Stage("draining", "rest")
  /\ UNCHANGED <<tradeVars, queued, writer, accepted, missing, evidenceVars, failures, stops>>

FlushRest == \/ FlushTakes("rest", "writing rest", "closed")
             \/ FlushSucceeds("writing rest", "closed")
             \/ FlushFails("writing rest")

\* The process is gone, with its queue and its batches, and starts again.
StartAnew ==
  /\ missing' = missing \cup InMemory
                        \cup {Row(c, "attribution", "none", "pending") : c \in unattributed}
  /\ unattributed' = {} /\ queued' = <<>> /\ writer' = Idle /\ stopping' = Running
  /\ UNCHANGED <<purchased, outcome, report, accepted, evidenceVars, failures>>

Restarted == ~Alive /\ StartAnew /\ UNCHANGED stops
Crashed   == Alive /\ Faults < MaxFaults /\ stops' = stops + 1 /\ StartAnew

-----------------------------------------------------------------------------
(* The indicator service *)

InPilot(c)   == executions[c].price /\ executions[c].attributed
Before(c, d) == \/ executions[c].start /\ ~executions[d].start
                \/ executions[c].start = executions[d].start /\ c < d
Ranked       == {c \in Purchases : InPilot(c) /\ Cardinality({d \in Purchases : InPilot(d) /\ Before(d, c)}) < Sample}

\* Bug: an inferred result settles a contract too.
IsSettledAnyhow(c) == executions[c].profit # "none"

IsSettled(c) == executions[c].source = "broker" /\ executions[c].profit # "none"

\* Returns of a unit of stake, in tenths.
Return(o) == IF o = "won" THEN 8 ELSE -10

\* mean - 1.653 * deviation / sqrt(n) > 0, with the sum and the squares of the
\* returns and 1.653^2 = 2.7324.
LowerBoundIsPositive(results) ==
  LET n   == Cardinality(DOMAIN results)
      sum == FoldFunction(LAMBDA o, acc : acc + Return(o), 0, results)
      sq  == FoldFunction(LAMBDA o, acc : acc + Return(o) * Return(o), 0, results)
  IN sum > 0 /\ sum * sum * (n - 1) * 10000 > 27324 * (n * sq - sum * sum)

Promote ==
  /\ registry = "piloto"
  /\ Cardinality(Ranked) >= Sample /\ \A c \in Ranked : IsSettled(c)
  /\ decidedOn' = Ranked
  /\ registry' = IF LowerBoundIsPositive([c \in Ranked |-> executions[c].profit])
                  THEN "ativo" ELSE "reprovado"
  /\ UNCHANGED <<tradeVars, queued, writer, stopping, accepted, missing, executions, failures, stops>>

-----------------------------------------------------------------------------
PilotNext ==
  \/ Purchase \/ EnqueueTick \/ Collect \/ BatchWritten \/ BatchFails
  \/ \E c \in Purchases : \/ Attribute(c) \/ SettleByBroker(c)
                          \/ SettleByBalance(c) \/ SettleByTable(c) \/ SettleLate(c)
  \/ Shutdown \/ Flush \/ CloseWriter \/ WorkerEnds \/ WorkerAwaited \/ FlushRest
  \/ Restarted \/ Crashed
  \/ Promote

PilotSpec == PilotInit /\ [][PilotNext]_pilotVars

-----------------------------------------------------------------------------
(* Properties *)

PilotTypeOK ==
  /\ purchased \in 0..MaxPurchases
  /\ outcome \in [Purchases -> Outcomes \cup {"open"}]
  /\ report \in [Purchases -> Reports \cup {"none"}]
  /\ unattributed \subseteq Purchases
  /\ queued \in Seq(Rows)
  /\ writer \in [works : BOOLEAN, batch : Seq(Rows)]
  /\ stopping \in [stage : StopStages, batch : Seq(Rows)]
  /\ accepted \subseteq Rows /\ missing \subseteq Rows
  /\ executions \in [Purchases -> Executions]
  /\ registry \in {"piloto", "ativo", "reprovado"}
  /\ decidedOn \subseteq Purchases
  /\ failures \in Nat /\ stops \in Nat

\* A verdict rests on Sample contracts whose results are the broker's own, is
\* the one these results deserve, and passes over an earlier purchase only
\* when a row of it was lost: late, repeated or inferred settlements, rows
\* written out of order by the worker and the flush, and the two updates of
\* one execution cannot bend it (upsert of contract_executions, view and
\* promotion of the indicator service).
DecidedOnBrokerResults ==
  registry # "piloto" =>
    /\ Cardinality(decidedOn) = Sample
    /\ \A c \in decidedOn : report[c] = "broker"
    /\ registry = "ativo" <=> LowerBoundIsPositive([c \in decidedOn |-> outcome[c]])
    /\ \A d \in decidedOn, c \in 1..purchased :
         c < d => c \in decidedOn \/ \E row \in missing : row.contract = c

Written(row) ==
  LET e == executions[row.contract]
  IN CASE row.kind = "purchase"    -> e.start /\ e.price
       [] row.kind = "attribution" -> e.attributed
       [] row.kind = "settlement"  -> e.profit # "none" /\ (row.source = "broker" => e.source = "broker")

\* A row that the writer accepted is in its hands or in the table until a
\* write fails or the process dies, and a writer that was closed leaves
\* nothing behind, also when its worker died on the way (worker, flush and
\* close of TimescaleMarketWriter).
RowsAreWritten ==
  /\ \A row \in accepted \ missing : row \in InMemory \/ Written(row)
  /\ stopping.stage = "closed" => InMemory = {}

\* A row of the contract was lost, or it settled without the broker's own
\* message: it may keep its version in the pilot for ever.
Spoiled(c) == report[c] # "broker" \/ \E row \in missing : row.contract = c

\* When the first Sample contracts are complete and nothing is on its way to
\* the table, the indicator service has judged the version or can do so at
\* its next tick, whatever order their rows were written in.
CompletePilotIsJudged ==
  (/\ Sample <= purchased /\ unattributed = {} /\ InMemory = {}
   /\ \A c \in 1..Sample : ~Spoiled(c))
    => \/ registry # "piloto"
       \/ Ranked = 1..Sample /\ (\A c \in Ranked : IsSettled(c))
=============================================================================
