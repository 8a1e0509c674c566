-------------------------- MODULE CycleSlotProofs ---------------------------
(***************************************************************************)
(* Proofs about CycleSlot for any number of contracts.  The properties are *)
(* not inductive: the flag must be taken exactly while a cycle that was    *)
(* not ousted runs, and a cycle must no longer count as ousted when its    *)
(* runner enters again.                                                    *)
(***************************************************************************)
EXTENDS CycleSlot, FiniteSetTheorems, TLAPS

Holders == InCycle \ ousted

\* The flag says that some cycle has the slot, one at most has it, and only
\* cycles that run are ousted.
FlagIsHeld ==
  /\ trading <=> Holders # {}
  /\ \A r, s \in Holders : r = s
  /\ ousted \subseteq InCycle

SlotInv == SlotTypeOK /\ FlagIsHeld /\ OneOrderAtATime

SlotPhases == {"out", "deciding", "ordering", "bought"}

LEMMA SlotInitInv == SlotInit => SlotInv
<1> SUFFICES ASSUME SlotInit PROVE SlotInv
  OBVIOUS
<1>1. SlotTypeOK
  <2>1. {pullback, stopped, trading, window, cooldown, due, blocked, fast, polling}
          \subseteq BOOLEAN
    BY Zenon DEF SlotInit
  <2> QED BY <2>1, MaxOpenAssumption DEF SlotInit, SlotTypeOK
<1>2. InCycle = {} /\ ousted = {} /\ trading = FALSE
  BY DEF SlotInit, InCycle
<1>3. OneOrderAtATime
  BY DEF SlotInit, OneOrderAtATime
<1> QED BY <1>1, <1>2, <1>3 DEF SlotInv, FlagIsHeld, Holders

(***************************************************************************)
(* The kinds of step                                                       *)
(***************************************************************************)

\* A step that touches no cycle and opens no contract.
LEMMA BystanderKeeps ==
  ASSUME FlagIsHeld, OneOrderAtATime, UNCHANGED cycleVars, open' \in 0 .. open,
         open \in Nat
  PROVE  FlagIsHeld' /\ OneOrderAtATime'
<1>1. trading' = trading /\ InCycle' = InCycle /\ ousted' = ousted /\ phase' = phase
  BY DEF cycleVars, InCycle
<1>2. FlagIsHeld'
  BY <1>1 DEF FlagIsHeld, Holders
<1>3. OneOrderAtATime'
  BY <1>1 DEF OneOrderAtATime
<1> QED BY <1>2, <1>3

\* A cycle that goes on keeps the slot.
LEMMA CycleGoesOn ==
  ASSUME SlotInv, NEW r \in Runners, phase[r] # "out",
         NEW next \in {"ordering", "bought"},
         phase' = [phase EXCEPT ![r] = next],
         UNCHANGED <<trading, ousted>>
  PROVE  /\ FlagIsHeld'
         /\ InCycle' = InCycle
<1> USE DEF SlotInv, SlotTypeOK
<1>1. InCycle' = InCycle
  BY DEF InCycle
<1> QED BY <1>1 DEF FlagIsHeld, Holders

\* A cycle that enters finds the slot free, and every other cycle ousted.
LEMMA EntryKeeps ==
  ASSUME SlotInv, NEW r \in Runners, Enter(r)
  PROVE  FlagIsHeld' /\ OneOrderAtATime'
<1> USE DEF SlotInv
<1>1. /\ ~trading /\ open = 0 /\ phase[r] = "out"
      /\ trading' = TRUE /\ phase' = [phase EXCEPT ![r] = "deciding"]
      /\ UNCHANGED <<open, ousted>>
  BY DEF Enter, EntryAllowed, Ready
<1>2. InCycle' = InCycle \union {r} /\ r \notin InCycle
  BY <1>1 DEF SlotTypeOK, InCycle
<1>3. Holders = {} /\ Holders' = {r}
  BY <1>1, <1>2 DEF FlagIsHeld, Holders
<1>4. FlagIsHeld'
  BY <1>1, <1>2, <1>3 DEF FlagIsHeld
<1>5. OneOrderAtATime'
  BY <1>1 DEF OneOrderAtATime
<1> QED BY <1>4, <1>5

\* Freeing the slot leaves it with nobody.
LEMMA FreeingKeeps ==
  ASSUME SlotInv, NEW gone, Free(gone), InCycle' = InCycle \ {gone},
         \A r \in InCycle' : phase'[r] = phase[r]
  PROVE  FlagIsHeld' /\ OneOrderAtATime'
<1>1. trading' = FALSE /\ ousted' = (ousted \union InCycle) \ {gone}
  BY DEF Free
<1>2. ousted' = InCycle' /\ Holders' = {}
  BY <1>1 DEF SlotInv, FlagIsHeld, Holders
<1>3. FlagIsHeld'
  BY <1>1, <1>2 DEF FlagIsHeld
<1>4. OneOrderAtATime'
  BY <1>2 DEF OneOrderAtATime, InCycle
<1> QED BY <1>3, <1>4

\* The end of a cycle frees the slot, whoever has it.
LEMMA EndKeeps ==
  ASSUME SlotInv, NEW r \in Runners, EndCycle(r)
  PROVE  FlagIsHeld' /\ OneOrderAtATime'
<1>1. Free(r) /\ phase' = [phase EXCEPT ![r] = "out"]
  BY DEF EndCycle
<1>2. InCycle' = InCycle \ {r} /\ \A s \in InCycle' : phase'[s] = phase[s]
  BY <1>1 DEF SlotInv, SlotTypeOK, InCycle
<1> QED BY <1>1, <1>2, FreeingKeeps

\* So does the poll or the recovery, while no cycle ends.
LEMMA ReleaseKeeps ==
  ASSUME SlotInv, Free("nobody"), UNCHANGED phase
  PROVE  FlagIsHeld' /\ OneOrderAtATime'
<1>1. InCycle' = InCycle \ {"nobody"} /\ \A s \in InCycle' : phase'[s] = phase[s]
  BY DEF InCycle, Runners
<1> QED BY <1>1, FreeingKeeps

(***************************************************************************)
(* Each action                                                             *)
(***************************************************************************)

\* While one cycle that is nobody's victim buys, no other decides.
LEMMA BuyKeeps ==
  ASSUME SlotInv, NEW r \in Runners, Buy(r)
  PROVE  FlagIsHeld' /\ OneOrderAtATime'
<1>1. /\ phase[r] # "out" /\ phase' = [phase EXCEPT ![r] = "bought"]
      /\ UNCHANGED <<trading, ousted>>
  BY DEF Buy
<1>2. FlagIsHeld' /\ InCycle' = InCycle
  BY <1>1, CycleGoesOn
<1>3. ASSUME ousted' = {}, NEW s \in Runners, phase'[s] \in {"deciding", "ordering"}
      PROVE  FALSE
  <2>1. s # r /\ s \in InCycle /\ r \in InCycle
    BY <1>1, <1>2, <1>3 DEF SlotInv, SlotTypeOK, InCycle
  <2> QED BY <2>1, <1>1, <1>3 DEF SlotInv, FlagIsHeld, Holders
<1> QED BY <1>2, <1>3 DEF OneOrderAtATime

LEMMA DecideKeeps ==
  ASSUME SlotInv, NEW r \in Runners, Decide(r)
  PROVE  FlagIsHeld' /\ OneOrderAtATime'
<1>1. /\ phase[r] = "deciding" /\ phase' = [phase EXCEPT ![r] = "ordering"]
      /\ UNCHANGED <<trading, ousted, open>>
  BY DEF Decide
<1>2. FlagIsHeld'
  BY <1>1, CycleGoesOn
<1>3. OneOrderAtATime'
  BY <1>1 DEF SlotInv, SlotTypeOK, OneOrderAtATime
<1> QED BY <1>2, <1>3

LEMMA SlotStep ==
  ASSUME SlotInv, [SlotNext]_slotVars
  PROVE  FlagIsHeld' /\ OneOrderAtATime'
<1> USE DEF SlotInv
<1>0. open \in Nat
  BY DEF SlotTypeOK
<1>1. CASE EnterMain \/ EnterCandle \/ EnterPost
  BY <1>1, EntryKeeps DEF EnterMain, EnterCandle, EnterPost, Runners
<1>2. ASSUME NEW r \in Runners, Decide(r) PROVE FlagIsHeld' /\ OneOrderAtATime'
  BY <1>2, DecideKeeps
<1>3. ASSUME NEW r \in Runners, Buy(r) PROVE FlagIsHeld' /\ OneOrderAtATime'
  BY <1>3, BuyKeeps
<1>4. ASSUME NEW r \in Runners,
             Succeed(r) \/ FindNothing(r) \/ Fail(r) \/ Unsynchronised(r)
      PROVE  FlagIsHeld' /\ OneOrderAtATime'
  BY <1>4, EndKeeps DEF Succeed, FindNothing, Fail, Unsynchronised
<1>8. CASE TimeOutAttempt
  BY <1>8, EndKeeps DEF TimeOutAttempt, Runners
<1>5. CASE LastSettles \/ TargetMet
  <2>1. UNCHANGED cycleVars /\ open' \in 0 .. open
    BY <1>0, <1>5 DEF LastSettles, TargetMet
  <2> QED BY <1>0, <2>1, BystanderKeeps
<1>6. CASE Recover \/ Poll
  BY <1>6, ReleaseKeeps DEF Recover, Poll
<1>7. CASE \/ Postpone \/ Breathe \/ StopTrying \/ StartPolling
           \/ Attempt \/ EndAttempt \/ OpenWindow \/ CloseWindow
           \/ Elapse \/ Warm \/ Block \/ UNCHANGED slotVars
  <2>1. UNCHANGED cycleVars /\ open' = open
    BY <1>7 DEF Postpone, Breathe, StopTrying, StartPolling, Attempt, EndAttempt,
                OpenWindow, CloseWindow, Elapse, Warm, Block, slotVars
  <2> QED BY <1>0, <2>1, BystanderKeeps
<1> QED BY <1>1, <1>2, <1>3, <1>4, <1>5, <1>6, <1>7, <1>8 DEF SlotNext

(***************************************************************************)
(* Types                                                                   *)
(***************************************************************************)

\* The flags.
FlagTypes ==
  {pullback, stopped, trading, window, cooldown, due, blocked, fast, polling}
    \subseteq BOOLEAN

LEMMA FlagsStep ==
  ASSUME FlagTypes, [SlotNext]_slotVars
  PROVE  FlagTypes'
<1> USE DEF FlagTypes, cycleVars, clockVars, postVars
<1>1. CASE EnterMain \/ EnterCandle \/ EnterPost
  BY <1>1, Zenon DEF EnterMain, EnterCandle, EnterPost, Enter
<1>2. ASSUME NEW r \in Runners,
             \/ Decide(r) \/ Buy(r) \/ Succeed(r) \/ FindNothing(r)
             \/ Fail(r) \/ Unsynchronised(r)
      PROVE  FlagTypes'
  BY <1>2, Zenon DEF Decide, Buy, Succeed, FindNothing, Fail, Unsynchronised,
                     EndCycle, Free
<1>3. CASE LastSettles \/ TargetMet \/ Postpone \/ Breathe \/ StopTrying
  BY <1>3, Zenon DEF LastSettles, TargetMet, Postpone, Breathe, StopTrying
<1>4. CASE Recover \/ Poll \/ StartPolling \/ Attempt \/ EndAttempt
  BY <1>4, Zenon DEF Recover, Poll, StartPolling, Attempt, EndAttempt, Free
<1>5. CASE OpenWindow \/ CloseWindow \/ Elapse \/ Warm
  BY <1>5, Zenon DEF OpenWindow, CloseWindow, Elapse, Warm
<1>6. CASE Block \/ UNCHANGED slotVars
  BY <1>6, Zenon DEF Block, slotVars
<1>7. CASE TimeOutAttempt
  BY <1>7, Zenon DEF TimeOutAttempt, EndCycle, Free
<1> QED BY <1>1, <1>2, <1>3, <1>4, <1>5, <1>6, <1>7 DEF SlotNext

\* The cycles, the contracts and the task after a settlement.
ProgressTypes ==
  /\ phase \in [Runners -> SlotPhases]
  /\ open \in 0 .. MaxOpen
  /\ post \in {"none", "breath", "loop", "trying"}

LEMMA ProgressStep ==
  ASSUME ProgressTypes, [SlotNext]_slotVars
  PROVE  ProgressTypes'
<1> USE MaxOpenAssumption DEF ProgressTypes, SlotPhases, cycleVars, clockVars, postVars
<1>1. CASE EnterMain \/ EnterCandle \/ EnterPost
  BY <1>1 DEF EnterMain, EnterCandle, EnterPost, Enter
<1>2. ASSUME NEW r \in Runners, Decide(r) \/ Buy(r)
      PROVE  ProgressTypes'
  BY <1>2 DEF Decide, Buy
<1>3. ASSUME NEW r \in Runners,
             Succeed(r) \/ FindNothing(r) \/ Fail(r) \/ Unsynchronised(r)
      PROVE  ProgressTypes'
  BY <1>3 DEF Succeed, FindNothing, Fail, Unsynchronised, EndCycle
<1>8. CASE TimeOutAttempt
  BY <1>8 DEF TimeOutAttempt, EndCycle
<1>4. CASE LastSettles \/ TargetMet
  BY <1>4 DEF LastSettles, TargetMet, Schedule
<1>5. CASE Breathe \/ StopTrying \/ Attempt \/ EndAttempt
  BY <1>5 DEF Breathe, StopTrying, Attempt, EndAttempt
<1>6. CASE Recover \/ Poll \/ StartPolling \/ Postpone
  BY <1>6 DEF Recover, Poll, StartPolling, Postpone
<1>7. CASE OpenWindow \/ CloseWindow \/ Elapse \/ Warm \/ Block \/ UNCHANGED slotVars
  BY <1>7 DEF OpenWindow, CloseWindow, Elapse, Warm, Block, slotVars
<1> QED BY <1>1, <1>2, <1>3, <1>4, <1>5, <1>6, <1>7, <1>8 DEF SlotNext

LEMMA SlotTypeParts ==
  SlotTypeOK <=> FlagTypes /\ ProgressTypes /\ ousted \subseteq Runners
BY DEF SlotTypeOK, FlagTypes, ProgressTypes, SlotPhases

LEMMA SlotInvariance == SlotSpec => []SlotInv
<1>1. SlotInv /\ [SlotNext]_slotVars => SlotInv'
  <2> SUFFICES ASSUME SlotInv, [SlotNext]_slotVars PROVE SlotInv'
    OBVIOUS
  <2>1. FlagIsHeld' /\ OneOrderAtATime'
    BY SlotStep
  <2>2. FlagTypes' /\ ProgressTypes'
    BY FlagsStep, ProgressStep, SlotTypeParts DEF SlotInv
  <2>3. ousted' \subseteq Runners
    BY <2>1 DEF FlagIsHeld, InCycle
  <2>4. SlotTypeOK'
    BY <2>2, <2>3 DEF SlotTypeOK, FlagTypes, ProgressTypes, SlotPhases
  <2> QED BY <2>1, <2>4 DEF SlotInv
<1> QED BY <1>1, SlotInitInv, PTL DEF SlotSpec

\* Type correctness of what decides who may run a cycle
\* (trading_cycle_entry.try_start_trading_cycle and post_settlement_cycle).
THEOREM SlotTypeCorrect == SlotSpec => []SlotTypeOK
<1>1. SlotInv => SlotTypeOK
  BY DEF SlotInv
<1> QED BY <1>1, SlotInvariance, PTL

\* Whoever frees the slot, the time-out of an attempt included, and however the
\* three runners compete for it, two cycles run at once only if one of them was
\* ousted.
THEOREM SlotExclusive == SlotSpec => []SlotIsExclusive
<1>1. SlotInv => SlotIsExclusive
  <2> SUFFICES ASSUME SlotInv PROVE Cardinality(Holders) <= 1
    BY DEF SlotIsExclusive, Holders
  <2>1. CASE Holders = {}
    BY <2>1, FS_EmptySet
  <2>2. CASE Holders # {}
    <3>1. PICK r : Holders = {r}
      BY <2>2 DEF SlotInv, FlagIsHeld
    <3>2. Cardinality({r}) = 1
      BY FS_Singleton, Zenon
    <3> QED BY <3>1, <3>2
  <2> QED BY <2>1, <2>2
<1> QED BY <1>1, SlotInvariance, PTL

\* The slot is never left taken with no cycle running, by any way a cycle ends.
THEOREM SlotNeverLeaks == SlotSpec => []NoSlotLeak
<1>1. SlotInv => NoSlotLeak
  BY DEF SlotInv, FlagIsHeld, Holders, NoSlotLeak
<1> QED BY <1>1, SlotInvariance, PTL

\* As long as no cycle is ousted, no cycle decides while a contract is open,
\* for any number of contracts a cycle may buy.
THEOREM OrdersDoNotAddUp == SlotSpec => []OneOrderAtATime
<1>1. SlotInv => OneOrderAtATime
  BY DEF SlotInv
<1> QED BY <1>1, SlotInvariance, PTL
=============================================================================
