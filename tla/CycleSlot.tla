----------------------------- MODULE CycleSlot ------------------------------
(***************************************************************************)
(* Who may run a decision cycle: the flag is_trading, taken without a lock *)
(* and cleared by more than its holder; the main loop, the candle callback *)
(* and the task that follows a settlement, which compete for it; and the   *)
(* entry conditions, with the cooldown, the window at the opening of each  *)
(* candle, the cadence and the fast mode that lifts it.                    *)
(*                                                                         *)
(* The code between two awaits is one action.  Time appears as what it     *)
(* changes: a window opens or closes, the cadence elapses, a wait ends.    *)
(***************************************************************************)
EXTENDS Naturals, FiniteSets

CONSTANT MaxOpen  \* contracts open at once

ASSUME MaxOpenAssumption == MaxOpen \in Nat \ {0}

Runners == {"main", "candle", "post"}

VARIABLES
  pullback, \* pullback_strategy.enabled
  stopped,  \* the session met its target: shutdown_reason is set
  trading,  \* is_trading
  phase,    \* where each cycle is: out, deciding, ordering, bought
  open,     \* how many contracts state.active_contracts holds
  window,   \* the opening window of the current candle
  cooldown, \* _cooldown_until is to come
  due,      \* the cadence elapsed since _last_cluster_cycle_end
  blocked,  \* maintenance, reconciliation or the persistence barrier
  fast,     \* _dl_fast_cycle
  post,     \* _post_settlement_task: none, breath, loop, trying
  polling,  \* _trading_slot_poll_task is running
  ousted    \* history: cycles whose slot was freed before their end

cycleVars == <<trading, phase, ousted>>
clockVars == <<window, due, blocked>>
postVars  == <<fast, post, polling>>
slotVars  == <<pullback, stopped, cycleVars, open, cooldown, clockVars, postVars>>

InCycle == {r \in Runners : phase[r] # "out"}

SlotTypeOK ==
  /\ {pullback, stopped, trading, window, cooldown, due, blocked, fast, polling}
       \subseteq BOOLEAN
  /\ phase \in [Runners -> {"out", "deciding", "ordering", "bought"}]
  /\ open \in 0 .. MaxOpen
  /\ post \in {"none", "breath", "loop", "trying"}
  /\ ousted \subseteq Runners

SlotInit ==
  /\ pullback \in BOOLEAN
  /\ stopped = FALSE /\ trading = FALSE
  /\ phase = [r \in Runners |-> "out"]
  /\ open = 0
  /\ window \in BOOLEAN
  /\ cooldown = FALSE /\ due = TRUE /\ blocked = FALSE
  /\ fast = FALSE /\ post = "none" /\ polling = FALSE
  /\ ousted = {}

-----------------------------------------------------------------------------
(* Entering *)

\* Bug: the cooldown is not lifted in the window.
CooldownInWindow == cooldown

\* With the pullback strategy a cooldown is cleared in every window: the last
\* boundary it is compared with is never written.
CooldownHolds == cooldown /\ ~(pullback /\ window)

Ready == ~CooldownHolds /\ ~blocked /\ ~stopped /\ ~trading /\ open = 0

\* Bug: the slot is taken while another cycle holds it.
EntryWithoutSlot(isFast) ==
  ~CooldownHolds /\ ~blocked /\ ~stopped /\ open = 0 /\ window /\ (isFast \/ due)

\* Bug: the open contracts are not looked at.
EntryWithContracts(isFast) ==
  ~CooldownHolds /\ ~blocked /\ ~stopped /\ ~trading /\ window /\ (isFast \/ due)

EntryAllowed(isFast) == Ready /\ window /\ (isFast \/ due)

Enter(r) ==
  /\ phase[r] = "out"
  /\ EntryAllowed(fast)
  /\ trading' = TRUE
  /\ phase' = [phase EXCEPT ![r] = "deciding"]
  /\ cooldown' = FALSE
  /\ UNCHANGED <<pullback, stopped, open, clockVars, postVars, ousted>>

\* The main loop does not try while the cooldown holds; it starts a cycle also
\* while the post-settlement task is pending, the candle callback does not.
EnterMain   == Enter("main")
EnterCandle == post = "none" /\ Enter("candle")

\* A try outside the window waits for the next one; so do, while a loss is
\* pending, the main loop after a try that was refused or placed no order and
\* the task after a settlement.
Postpone ==
  /\ \/ Ready /\ ~window
     \/ phase["main"] = "out" /\ ~EntryAllowed(fast)
     \/ post = "loop" /\ ~pullback
  /\ cooldown' = TRUE
  /\ UNCHANGED <<pullback, stopped, cycleVars, open, clockVars, postVars>>

-----------------------------------------------------------------------------
(* A cycle *)

\* The slot is freed, whoever holds it.
Free(r) ==
  /\ trading' = FALSE
  /\ ousted' = (ousted \union InCycle) \ {r}

EndCycle(r) ==
  /\ Free(r)
  /\ phase' = [phase EXCEPT ![r] = "out"]

\* Bug: a cycle that fails keeps the slot.
FailKeepingSlot(r) ==
  /\ phase[r] # "out"
  /\ phase' = [phase EXCEPT ![r] = "out"]
  /\ due' = FALSE
  /\ UNCHANGED <<pullback, stopped, trading, ousted, open, cooldown, window, blocked, postVars>>

Decide(r) ==
  /\ phase[r] = "deciding"
  /\ ~blocked
  /\ phase' = [phase EXCEPT ![r] = "ordering"]
  /\ UNCHANGED <<pullback, stopped, trading, ousted, open, cooldown, clockVars, postVars>>

Buy(r) ==
  /\ phase[r] \in {"ordering", "bought"}
  /\ open < MaxOpen
  /\ open' = open + 1
  /\ phase' = [phase EXCEPT ![r] = "bought"]
  /\ UNCHANGED <<pullback, stopped, trading, ousted, cooldown, clockVars, postVars>>

\* The cycle ends with an order.
Succeed(r) ==
  /\ phase[r] = "bought"
  /\ EndCycle(r)
  /\ due' = FALSE
  /\ UNCHANGED <<pullback, stopped, open, cooldown, window, blocked, postVars>>

\* It ends without one: a pause follows.
FindNothing(r) ==
  /\ phase[r] \in {"deciding", "ordering"}
  /\ EndCycle(r)
  /\ due' = FALSE
  /\ cooldown' = TRUE
  /\ UNCHANGED <<pullback, stopped, open, window, blocked, postVars>>

\* An exception, at any point, or a warm-up that suspends the cycle.
Fail(r) ==
  /\ phase[r] # "out"
  /\ EndCycle(r)
  /\ due' = FALSE
  /\ UNCHANGED <<pullback, stopped, open, cooldown, window, blocked, postVars>>

\* The stream is not synchronised: the cycle does not count.
Unsynchronised(r) ==
  /\ phase[r] = "deciding"
  /\ EndCycle(r)
  /\ UNCHANGED <<pullback, stopped, open, cooldown, clockVars, postVars>>

Finish(r) == Succeed(r) \/ FindNothing(r) \/ Fail(r) \/ Unsynchronised(r)

-----------------------------------------------------------------------------
(* After a settlement *)

Schedule == post' = IF post = "none" THEN "breath" ELSE post

\* The last contract settles: a cycle is scheduled, or the pending one woken.
LastSettles ==
  /\ open > 0
  /\ open' = open - 1
  /\ IF open = 1 /\ ~stopped THEN Schedule ELSE UNCHANGED post
  /\ UNCHANGED <<pullback, stopped, cycleVars, cooldown, clockVars, fast, polling>>

\* That settlement met the session's target.
TargetMet ==
  /\ open > 0
  /\ open' = open - 1
  /\ stopped' = TRUE
  /\ UNCHANGED <<pullback, cycleVars, cooldown, clockVars, postVars>>

Breathe ==
  /\ post = "breath"
  /\ post' = "loop"
  /\ UNCHANGED <<pullback, stopped, cycleVars, open, cooldown, clockVars, fast, polling>>

StopTrying ==
  /\ stopped /\ post \in {"breath", "loop"}
  /\ post' = "none"
  /\ UNCHANGED <<pullback, stopped, cycleVars, open, cooldown, clockVars, fast, polling>>

\* Contracts are open longer than the tolerance window, or without the
\* pullback strategy the attempts ran out: the orphans are reconciled and the
\* slot is freed.
Recover ==
  /\ post = "loop" /\ ~stopped
  /\ open > 0 \/ ~pullback
  /\ Free("nobody")
  /\ polling' = FALSE
  /\ UNCHANGED <<pullback, stopped, phase, open, cooldown, clockVars, fast, post>>

StartPolling ==
  /\ post = "loop" /\ ~stopped
  /\ open = 0 /\ trading
  /\ polling' = TRUE
  /\ UNCHANGED <<pullback, stopped, cycleVars, open, cooldown, clockVars, fast, post>>

\* The poll ends when it finds the slot free, or frees it at its deadline.
Poll ==
  /\ polling
  /\ polling' = FALSE
  /\ Free("nobody")
  /\ UNCHANGED <<pullback, stopped, phase, open, cooldown, clockVars, fast, post>>

\* An attempt lifts the cadence, for every runner while it lasts.
Attempt ==
  /\ post = "loop" /\ ~stopped
  /\ open = 0 /\ ~trading
  /\ fast' = TRUE
  /\ post' = "trying"
  /\ UNCHANGED <<pullback, stopped, cycleVars, open, cooldown, clockVars, polling>>

EnterPost == post = "trying" /\ Enter("post")

\* The attempt is over: refused, executed or failed.  Without an order it is
\* repeated unless the pullback strategy is on.
EndAttempt ==
  /\ post = "trying"
  /\ phase["post"] = "out"
  /\ fast' = FALSE
  /\ post' \in IF pullback THEN {"none"} ELSE {"none", "loop"}
  /\ UNCHANGED <<pullback, stopped, cycleVars, open, cooldown, clockVars, polling>>

\* It is cancelled after 90 s, in its cycle, which ends, or still before it,
\* where it consumes the settlement queue.  The slot is freed either way, also
\* from under another cycle.
TimeOutAttempt ==
  /\ post = "trying"
  /\ EndCycle("post")
  /\ due' = (due /\ phase["post"] = "out")
  /\ fast' = FALSE
  /\ post' = IF pullback THEN "none" ELSE "loop"
  /\ UNCHANGED <<pullback, stopped, open, cooldown, window, blocked, polling>>

-----------------------------------------------------------------------------
(* Time *)

\* A pause ends with the candle at the latest.  With the pullback strategy it may
\* be a few seconds longer, and only CooldownHolds lifts it.
OpenWindow ==
  /\ ~window
  /\ window' = TRUE
  /\ cooldown' = (cooldown /\ pullback)
  /\ UNCHANGED <<pullback, stopped, cycleVars, open, due, blocked, postVars>>

CloseWindow ==
  /\ window
  /\ window' = FALSE
  /\ UNCHANGED <<pullback, stopped, cycleVars, open, cooldown, due, blocked, postVars>>

Elapse ==
  /\ ~due
  /\ due' = TRUE
  /\ UNCHANGED <<pullback, stopped, cycleVars, open, cooldown, window, blocked, postVars>>

Warm ==
  /\ cooldown
  /\ cooldown' = FALSE
  /\ UNCHANGED <<pullback, stopped, cycleVars, open, clockVars, postVars>>

Block ==
  /\ blocked' = ~blocked
  /\ UNCHANGED <<pullback, stopped, cycleVars, open, cooldown, window, due, postVars>>

-----------------------------------------------------------------------------
SlotNext ==
  \/ EnterMain \/ EnterCandle \/ EnterPost \/ Postpone
  \/ \E r \in Runners :
       Decide(r) \/ Buy(r) \/ Succeed(r) \/ FindNothing(r) \/ Fail(r) \/ Unsynchronised(r)
  \/ LastSettles \/ TargetMet
  \/ Breathe \/ StopTrying \/ Recover \/ StartPolling \/ Poll \/ Attempt \/ EndAttempt
  \/ TimeOutAttempt
  \/ OpenWindow \/ CloseWindow \/ Elapse \/ Warm \/ Block

SlotNotSettled == open > 0 /\ (LastSettles \/ TargetMet)

\* Cycles end, contracts settle, candles open and barriers are lifted; the main
\* loop looks several times in every window.
SlotFairness ==
  /\ \A r \in Runners : WF_slotVars(Finish(r))
  /\ WF_slotVars(SlotNotSettled)
  /\ WF_slotVars(OpenWindow) /\ WF_slotVars(CloseWindow) /\ WF_slotVars(Elapse)
  /\ WF_slotVars(blocked /\ Block)
  /\ WF_slotVars(Breathe \/ Attempt \/ EndAttempt)
  /\ SF_slotVars(EnterMain)

SlotSpec == SlotInit /\ [][SlotNext]_slotVars /\ SlotFairness

-----------------------------------------------------------------------------
(* Properties *)

\* Two cycles decide at the same time only if the slot was freed before the
\* older one ended: by the poll, by the recovery, by the time-out of an attempt
\* that had not entered, or by the end of a cycle older still.
SlotIsExclusive == Cardinality(InCycle \ ousted) <= 1

\* The slot is never left taken with no cycle running: every later cycle would
\* be refused until a settlement that no cycle can bring about.
NoSlotLeak == trading => InCycle # {}

\* With no cycle ousted there is never more than one contract open, and none
\* while a cycle decides: the orders of two cycles do not add up.
OneOrderAtATime ==
  ousted = {} => \A r \in Runners :
    phase[r] \in {"deciding", "ordering"} => open = 0

\* The engine keeps deciding: there is always a next cycle, whoever freed or
\* kept the slot, unless the session stops or barriers come back for ever.
KeepsDeciding == []<>(stopped \/ blocked \/ InCycle # {})
=============================================================================
