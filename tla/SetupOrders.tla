---------------------------- MODULE SetupOrders -----------------------------
(***************************************************************************)
(* From a closed candle to a purchase: the indicator service publishes its *)
(* verdict on the candle, a cycle of the engine reads the verdicts, takes  *)
(* the confirmed setups, quotes and ranks them, or makes up a mandatory    *)
(* order without any, and buys within the first minute of the next candle. *)
(* The clock runs beside all of it, and the contracts settle one candle    *)
(* later, when a loss arms the reversal of its symbol.                     *)
(*                                                                         *)
(* The cycle holds the trading slot (CycleSlot), the reservation of the    *)
(* order is that of OrderClaims: here it may be refused at any time.  Over *)
(* REST no setup is bought (require_quote_edge).  What a contract without  *)
(* an answer brings is not followed.                                       *)
(***************************************************************************)
EXTENDS Integers, SequencesExt

CONSTANTS Symbols,
          Promoted,     \* the symbol whose verdict a cycle waits for
          LastCandle,   \* bound: candles considered
          MaxFallback   \* candidates a cycle tries (3 in the code)

ASSUME SetupAssumption ==
  /\ Promoted \in Symbols /\ IsFiniteSet(Symbols)
  /\ LastCandle \in Nat \ {0} /\ MaxFallback \in Nat \ {0}

Sides    == {"CALL", "PUT"}
Verdicts == Sides \cup {"SEM SINAL"}

\* A candle of 900 s: 20 s in which a cycle still waits for the verdict, the
\* rest of the 60 s in which one may buy, and the last 5 s, in which the
\* signal of the candle before or of this one passes for current.
NextPart == [start |-> "open", open |-> "shut", shut |-> "last"]

VARIABLES
  clock,     \* the current candle and its part
  rows,      \* pullback_signals: the verdicts on the candle closed last
  observed,  \* symbols whose last_epoch in the indicator service is that candle
  cycle,     \* how far the cycle is, what it read and its orders
  contract,  \* the open contract
  armed,     \* _pending_loss_reversals
  cooldown,  \* _symbol_loss_quarantine: the candle in which the rest of a symbol ends
  streak,    \* _symbol_consecutive_losses: symbols whose last contract lost
  purchases, \* what the broker sold last, in this candle (history)
  lossSince  \* symbols that lost after their last reversal (history)

setupVars == <<clock, rows, observed, cycle, contract, armed, cooldown, streak,
               purchases, lossSince>>

indicatorVars == <<rows, observed>>
lossVars      == <<armed, cooldown, streak>>

NoContract == [symbol |-> "none", candle |-> 0]
NoVerdicts == [s \in Symbols |-> "none"]

\* epoch and signals are those of the reading, _indicator_period_signals;
\* tried are the symbols asked for as the mandatory order.
NoCycle == [at |-> "idle", epoch |-> 0, signals |-> NoVerdicts,
            awaits |-> FALSE, orders |-> <<>>, tried |-> {}]

\* What a cycle may try to buy.
Candidates ==
  [symbol : Symbols, signal : Sides \cup {"any"}, epoch : 0 .. LastCandle,
   kind : {"setup", "mandatory"}, turned : BOOLEAN]

CycleStages == {"idle", "reading", "read", "quoting", "mandatory", "asked", "buying", "sending"}

Cycles ==
  [at : CycleStages, epoch : 0 .. LastCandle, signals : [Symbols -> Sides \cup {"none"}],
   awaits : BOOLEAN, orders : Seq(Candidates), tried : SUBSET Symbols]

SetupTypeOK ==
  /\ clock \in [candle : 1 .. LastCandle, part : {"start", "open", "shut", "last"}]
  /\ rows \in [Symbols -> Verdicts \cup {"none"}] /\ observed \subseteq Symbols
  /\ cycle \in Cycles
  /\ contract \in [symbol : Symbols, candle : 1 .. LastCandle] \cup {NoContract}
  /\ armed \subseteq Symbols /\ streak \subseteq Symbols /\ lossSince \subseteq Symbols
  /\ cooldown \in [Symbols -> Nat]
  /\ purchases \subseteq [order : Candidates, owed : BOOLEAN]

SetupInit ==
  /\ clock = [candle |-> 1, part |-> "start"]
  /\ rows = NoVerdicts /\ observed = {}
  /\ cycle = NoCycle /\ contract = NoContract
  /\ armed = {} /\ cooldown = [s \in Symbols |-> 0] /\ streak = {}
  /\ purchases = {} /\ lossSince = {}

-----------------------------------------------------------------------------
(* Time *)

Closed == clock.candle - 1

InWindow == clock.part \in {"start", "open"}

\* signal_epoch_current
Current(epoch) == \/ InWindow /\ epoch = Closed
                  \/ clock.part = "last" /\ epoch \in {Closed, Closed + 1}

\* require_current_signal_candle
Buyable(epoch) == InWindow /\ epoch = Closed

TimePasses ==
  /\ clock.part # "last"
  /\ clock' = [clock EXCEPT !.part = NextPart[@]]
  /\ UNCHANGED <<indicatorVars, cycle, contract, lossVars, purchases, lossSince>>

\* Nothing else needs to happen in the rest of the candle.
CandleCloses ==
  /\ clock.candle < LastCandle
  /\ clock' = [candle |-> clock.candle + 1, part |-> "start"]
  /\ rows' = NoVerdicts /\ observed' = {}
  /\ purchases' = {}
  /\ UNCHANGED <<cycle, contract, lossVars, lossSince>>

-----------------------------------------------------------------------------
(* The indicator service *)

\* Bug: a second observation of a candle replaces its verdict.
RowReplaced(old, verdict) == verdict

\* ON CONFLICT DO NOTHING
RowStored(old, verdict) == IF old = "none" THEN verdict ELSE old

\* When the answer to the insertion is lost, the candle is observed again and
\* its verdict may be another: the rows that the broker serves differ, or it
\* is late for them.  What it publishes on older candles nobody reads.
Observe(s) ==
  /\ s \notin observed
  /\ \E verdict \in Verdicts : rows' = [rows EXCEPT ![s] = RowStored(@, verdict)]
  /\ observed' \in {observed, observed \cup {s}}
  /\ UNCHANGED <<clock, cycle, contract, lossVars, purchases, lossSince>>

\* restore(latest_setups())
RestartIndicator ==
  /\ observed' = {s \in Symbols : rows[s] # "none"}
  /\ UNCHANGED <<clock, rows, cycle, contract, lossVars, purchases, lossSince>>

-----------------------------------------------------------------------------
(* The reading of a cycle *)

\* refresh_indicator_consensus clears what was read, asks for the verdicts on
\* the candle closed last, and awaits them.
StartReading == cycle' = [NoCycle EXCEPT !.at = "reading", !.epoch = Closed]

StartCycle ==
  /\ cycle.at = "idle" /\ contract = NoContract
  /\ StartReading
  /\ UNCHANGED <<clock, indicatorVars, contract, lossVars, purchases, lossSince>>

\* The rows of the candle asked for; those of an older candle are not kept
\* here and may be any.
RowsOf(epoch) == IF epoch = Closed THEN {rows} ELSE [Symbols -> Verdicts \cup {"none"}]

\* A reading that fails leaves nothing.
ReadVerdicts ==
  /\ cycle.at = "reading"
  /\ \E read \in RowsOf(cycle.epoch) \cup {NoVerdicts} :
       cycle' = [cycle EXCEPT
         !.at = "read", !.awaits = read[Promoted] = "none",
         !.signals = [s \in Symbols |-> IF read[s] \in Sides THEN read[s] ELSE "none"]]
  /\ UNCHANGED <<clock, indicatorVars, contract, lossVars, purchases, lossSince>>

\* One second later, twelve times at most, for the promoted symbol's verdict.
ReadAgain ==
  /\ cycle.at = "read" /\ cycle.awaits /\ clock.part = "start"
  /\ StartReading
  /\ UNCHANGED <<clock, indicatorVars, contract, lossVars, purchases, lossSince>>

-----------------------------------------------------------------------------
(* The choice of the orders *)

SetupOrder(s, turned) ==
  [symbol |-> s, signal |-> cycle.signals[s], epoch |-> cycle.epoch,
   kind |-> "setup", turned |-> turned]

\* Its signal is whatever the reading or the last candle holds.
MandatoryOrder(s, turned) ==
  [symbol |-> s, signal |-> "any", epoch |-> 0, kind |-> "mandatory", turned |-> turned]

Resting(s) == clock.candle < cooldown[s] \/ (clock.candle = cooldown[s] /\ clock.part # "last")

\* period_candidates: the evidence and the writer admit some symbols, the
\* market turns the side of some, which disarms their reversal at once.  What
\* is no longer current is left out last.
\* From here on the cycle goes by its orders.
Select ==
  /\ cycle.at = "read"
  /\ \E admitted \in SUBSET Symbols :
       LET chosen == {s \in admitted : /\ cycle.signals[s] \in Sides /\ s # contract.symbol
                                       /\ s \in armed \/ ~Resting(s)}
           current == IF Current(cycle.epoch) THEN chosen ELSE {}
       IN \E flipped \in SUBSET chosen :
            /\ armed' = armed \ flipped
            /\ cycle' = [NoCycle EXCEPT
                 !.at = IF current = {} THEN "mandatory" ELSE "quoting",
                 !.orders = SetToSeq({SetupOrder(s, s \in flipped \cap armed) : s \in current})]
  /\ UNCHANGED <<clock, indicatorVars, contract, cooldown, streak, purchases, lossSince>>

\* Some are quoted in time, and ranked.
Rank ==
  /\ cycle.at = "quoting"
  /\ \E ranked \in SetToAllKPermutations(ToSet(cycle.orders)) :
       /\ Len(ranked) <= MaxFallback
       /\ \A i \in DOMAIN ranked : Current(ranked[i].epoch)
       /\ cycle' = [cycle EXCEPT
            !.at = IF ranked = <<>> THEN "mandatory" ELSE "buying", !.orders = ranked]
  /\ UNCHANGED <<clock, indicatorVars, contract, lossVars, purchases, lossSince>>

\* Without a setup: any symbol, at its signal's side, if it has one, or at
\* that of its last candle; the epoch is the one at the time of the quote.
AskMandatory(s) ==
  /\ cycle.at = "mandatory" /\ s \notin cycle.tried
  /\ \E flipped \in SUBSET {s} :
       /\ armed' = armed \ flipped
       /\ cycle' = [cycle EXCEPT !.at = "asked", !.tried = @ \cup {s},
                                 !.orders = <<MandatoryOrder(s, s \in flipped \cap armed)>>]
  /\ UNCHANGED <<clock, indicatorVars, contract, cooldown, streak, purchases, lossSince>>

\* The balance is not enough for the smallest stake.
TooPoor ==
  /\ cycle.at = "mandatory" /\ cycle.tried = {}
  /\ cycle' = NoCycle
  /\ UNCHANGED <<clock, indicatorVars, contract, lossVars, purchases, lossSince>>

MandatoryQuoted ==
  /\ cycle.at = "asked"
  /\ \/ cycle' = [NoCycle EXCEPT
          !.at = "buying", !.orders = <<[cycle.orders[1] EXCEPT !.epoch = Closed]>>]
     \/ cycle' = IF cycle.tried = Symbols THEN NoCycle
                 ELSE [cycle EXCEPT !.at = "mandatory", !.orders = <<>>]
  /\ UNCHANGED <<clock, indicatorVars, contract, lossVars, purchases, lossSince>>

-----------------------------------------------------------------------------
(* The purchase *)

Skipped == IF Len(cycle.orders) = 1 THEN NoCycle
           ELSE [cycle EXCEPT !.at = "buying", !.orders = Tail(@)]

\* The order is checked, its reservation asked for, and checked again.
TakeOrder ==
  /\ cycle.at = "buying"
  /\ \/ cycle' = Skipped
     \/ Current(cycle.orders[1].epoch) /\ cycle' = [cycle EXCEPT !.at = "sending"]
  /\ UNCHANGED <<clock, indicatorVars, contract, lossVars, purchases, lossSince>>

\* The proposal came; the last check, and what is no longer current raises.
Refused ==
  /\ cycle.at = "sending"
  /\ cycle' = Skipped
  /\ UNCHANGED <<clock, indicatorVars, contract, lossVars, purchases, lossSince>>

Sold(o) ==
  /\ cycle.at = "sending" /\ o = cycle.orders[1] /\ Buyable(o.epoch)
  /\ purchases' = {[order |-> o, owed |-> o.symbol \in lossSince]}
  /\ lossSince' = IF o.turned THEN lossSince \ {o.symbol} ELSE lossSince

\* The first purchase ends the cycle's orders.
Buy(o) ==
  /\ Sold(o)
  /\ cycle' = NoCycle
  /\ contract' = [symbol |-> o.symbol, candle |-> clock.candle]
  /\ UNCHANGED <<clock, indicatorVars, lossVars>>

\* The answer is lost; the cycle goes on to the next candidate.
BuyUnheard(o) ==
  /\ Sold(o)
  /\ cycle' = Skipped
  /\ UNCHANGED <<clock, indicatorVars, contract, lossVars>>

\* Bug: a win arms the reversal too.
ArmedByAny(s, won) == armed \cup {s}

ArmedAfter(s, won) == IF won THEN armed \ {s} ELSE armed \cup {s}

\* A contract of one candle ends in the next one.
ContractSettles(won) ==
  LET s == contract.symbol
  IN /\ contract # NoContract /\ clock.candle > contract.candle
     /\ contract' = NoContract
     /\ armed' = ArmedAfter(s, won)
     /\ IF won
        THEN streak' = streak \ {s} /\ UNCHANGED <<cooldown, lossSince>>
        ELSE /\ streak' = streak \cup {s}
             /\ cooldown' = [cooldown EXCEPT ![s] = clock.candle + IF s \in streak THEN 1 ELSE 0]
             /\ lossSince' = lossSince \cup {s}
     /\ UNCHANGED <<clock, indicatorVars, cycle, purchases>>

-----------------------------------------------------------------------------
SetupNext ==
  \/ TimePasses \/ CandleCloses
  \/ \E s \in Symbols : Observe(s)
  \/ RestartIndicator
  \/ StartCycle \/ ReadVerdicts \/ ReadAgain \/ Select \/ Rank
  \/ \E s \in Symbols : AskMandatory(s)
  \/ TooPoor \/ MandatoryQuoted \/ TakeOrder \/ Refused
  \/ cycle.at = "sending" /\ (Buy(cycle.orders[1]) \/ BuyUnheard(cycle.orders[1]))
  \/ \E won \in BOOLEAN : ContractSettles(won)

SetupSpec == SetupInit /\ [][SetupNext]_setupVars

-----------------------------------------------------------------------------
(* Properties *)

\* A setup is bought only in the minute after its candle, on the verdict that
\* stands in the database: the time a reading, a quote, a reservation or an
\* answer takes, a second observation of the candle and a restart of the
\* indicator service cannot bring in another candle's verdict or a replaced
\* one (_observe and save_setup, refresh_indicator_consensus,
\* signal_epoch_current, require_current_signal_candle).
BoughtAsPublished ==
  \A p \in purchases : p.order.kind = "setup" =>
    p.order.epoch = Closed /\ p.order.signal = rows[p.order.symbol]

\* A purchase against the signal because of a loss answers a loss that no
\* other purchase answered, also after one whose answer was lost
\* (resolve_telemetry_side, handle_settlement_loss_quarantine).
OneReversalPerLoss == \A p \in purchases : p.order.turned => p.owed
=============================================================================
