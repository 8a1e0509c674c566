---------------------------- MODULE ClaimsProofs ----------------------------
(***************************************************************************)
(* Proofs about the two claims an engine makes in Redis: the reservation   *)
(* of a candle and a symbol (OrderClaims), for every number of engines,    *)
(* attempts, candles and crashes and whatever may go wrong with a buy, and *)
(* the share of a loss (RecoveryClaim), for any engines, orders, time-outs *)
(* and restarts.                                                           *)
(*                                                                         *)
(* That no two claims stand for one loss rests on two locks: inside an     *)
(* engine on _pullback_recovery_lock, held from the look at the claims to  *)
(* the answer of Redis, and between engines on the key, which is the       *)
(* order's own until it expires.                                           *)
(***************************************************************************)
EXTENDS OrderClaims, RecoveryClaim, TLAPS

-----------------------------------------------------------------------------
(* OrderClaims *)

\* Where an attempt may be that owns the reservation of its candle, and where
\* one that owns the symbol.
OrderStages == {"claimingSymbol", "stealing", "ready", "buying", "quarantining",
                "undoing", "releasing", "crashed"}
SymbolStages == {"ready", "buying", "quarantining", "undoing", "undoingSymbol",
                 "releasing", "releasingSymbol", "crashed"}

\* Candles come one at a time, and nothing is bought before its candle.
TimeInv ==
  /\ \A a \in Attempts : epoch[a] <= now
  /\ \A k \in Candles : k > now => buys[k] = 0
  /\ \A k \in unacked : k <= now

\* Whose the keys in Redis are.
OwnerInv ==
  /\ \A a \in bought \union stranded : stage[a] = "done"
  /\ \A a \in Attempts, k \in Candles : orderClaim[k] = a =>
       epoch[a] = k /\ (a \in bought \union stranded \/ stage[a] \in OrderStages)
  /\ \A a \in Attempts : symbolClaim = a =>
       a \in bought \union stranded \/ stage[a] \in SymbolStages

\* A purchase counted in the current candle is that of a confirmed attempt.
BuysInv ==
  buys[now] > 0 => now \in Ambiguous \/ \E a \in bought : epoch[a] = now

\* What stops the next attempt after an acknowledgement was lost.
UnackedInv ==
  now \in unacked =>
    \/ unknown = now
    \/ \E a \in unsaved : epoch[a] = now
    \/ \E a \in Attempts : /\ epoch[a] = now /\ orderClaim[now] = a
                          /\ stage[a] \in {"quarantining", "crashed"}

\* An engine remembers the acknowledgement it lost until it restarts.
WarnedInv ==
  /\ \A i \in Instances : localUnknown[i] <= now
  /\ \A a \in unsaved : stage[a] # "new"
  /\ \A a \in Attempts :
       stage[a] = "quarantining" \/ a \in unsaved \ forgotten =>
         epoch[a] <= localUnknown[InstanceOf[a]]

ReservationInv ==
  /\ TypeOK
  /\ TimeInv
  /\ OwnerInv
  /\ ReservationSurvives
  /\ BuysInv
  /\ OneBuyPerCandle
  /\ UnackedInv
  /\ WarnedInv

-----------------------------------------------------------------------------
\* The state before and after every action has its types.
LEMMA ReservationTypeStep == TypeOK /\ [Next]_vars => TypeOK'
<1> SUFFICES ASSUME TypeOK, [Next]_vars PROVE TypeOK'
  OBVIOUS
<1> USE AttemptsAssumption, CandlesAssumption DEF TypeOK, Stages, Candles,
      redisVars, localVars, attemptVars, historyVars, buyHistory, faultHistory, Goto
<1>0. /\ now \in 0 .. MaxCandle
      /\ \A k \in 1 .. MaxCandle : k \in 0 .. MaxCandle
      /\ buys[now] + 1 \in Nat
      /\ [buys EXCEPT ![now] = @ + 1] \in [1 .. MaxCandle -> Nat]
  OBVIOUS
<1>1. ASSUME NEW a \in Attempts, Begin(a) PROVE TypeOK'
  BY <1>0, <1>1 DEF Begin
<1>2. ASSUME NEW a \in Attempts, Ask(a) PROVE TypeOK'
  <2>1. InstanceOf[a] \in Instances /\ epoch[a] \in 1 .. MaxCandle
    BY <1>2 DEF Ask
  <2>2. \/ localClaims' = localClaims
        \/ localClaims' = [localClaims EXCEPT ![InstanceOf[a]] = @ \ {epoch[a]}]
        \/ localClaims' = [localClaims EXCEPT
             ![InstanceOf[a]] = {k \in @ : k >= epoch[a]} \union {epoch[a]}]
    BY <1>2, Zenon DEF Ask, ForgetLocally
  <2>3. localClaims' \in [Instances -> SUBSET (1 .. MaxCandle)]
    <3> DEFINE held == localClaims[InstanceOf[a]]
    <3>1. held \ {epoch[a]} \in SUBSET (1 .. MaxCandle)
      BY <2>1
    <3>2. {k \in held : k >= epoch[a]} \union {epoch[a]} \in SUBSET (1 .. MaxCandle)
      BY <2>1
    <3>3. \E S \in SUBSET (1 .. MaxCandle) :
            localClaims' \in {localClaims, [localClaims EXCEPT ![InstanceOf[a]] = S]}
      BY <2>2, <3>1, <3>2
    <3> QED
      BY <2>1, <3>3
  <2>4. \E s \in {"done", "claiming"} : stage' = [stage EXCEPT ![a] = s]
    BY <1>2 DEF Ask
  <2>5. UNCHANGED <<now, orderClaim, symbolClaim, unknown, localUnknown, open,
                    epoch, token, crashes, buys, bought, unacked, abandoned,
                    stranded, unsaved, forgotten>>
    BY <1>2 DEF Ask
  <2>6. stage' \in [Attempts -> Stages]
        /\ \A b \in Attempts : stage'[b] = "new" \/ epoch'[b] \in 1 .. MaxCandle
    BY <2>1, <2>4, <2>5
  <2> QED
    BY <2>3, <2>5, <2>6
<1>3. ASSUME NEW a \in Attempts, Claim(a) PROVE TypeOK'
  <2>1. InstanceOf[a] \in Instances /\ epoch[a] \in 1 .. MaxCandle
    BY <1>3 DEF Claim
  <2>2. \/ localClaims' = localClaims
        \/ localClaims' = [localClaims EXCEPT ![InstanceOf[a]] = @ \ {epoch[a]}]
    BY <1>3 DEF Claim, ForgetLocally
  <2>3. localClaims' \in [Instances -> SUBSET (1 .. MaxCandle)]
    <3>1. localClaims[InstanceOf[a]] \ {epoch[a]} \in SUBSET (1 .. MaxCandle)
      BY <2>1
    <3>2. \E S \in SUBSET (1 .. MaxCandle) :
            localClaims' \in {localClaims, [localClaims EXCEPT ![InstanceOf[a]] = S]}
      BY <2>2, <3>1
    <3> QED
      BY <2>1, <3>2
  <2>4. \E s \in {"done", "claimingSymbol"} : stage' = [stage EXCEPT ![a] = s]
    BY <1>3 DEF Claim
  <2>5. \/ orderClaim' = orderClaim /\ token' = token
        \/ /\ orderClaim' = [orderClaim EXCEPT ![epoch[a]] = a]
           /\ token' = token \union {a}
    BY <1>3 DEF Claim
  <2>6. UNCHANGED <<now, symbolClaim, unknown, localUnknown, open, epoch,
                    crashes, buys, bought, unacked, abandoned, stranded,
                    unsaved, forgotten>>
    BY <1>3 DEF Claim
  <2>7. stage' \in [Attempts -> Stages]
        /\ \A b \in Attempts : stage'[b] = "new" \/ epoch'[b] \in 1 .. MaxCandle
    BY <2>1, <2>4, <2>6
  <2>8. orderClaim' \in [1 .. MaxCandle -> Attempts \union {None}]
        /\ token' \subseteq Attempts
    BY <2>1, <2>5
  <2> QED
    BY <2>3, <2>6, <2>7, <2>8
<1>4. ASSUME NEW a \in Attempts, ClaimSymbol(a) PROVE TypeOK'
  BY <1>4 DEF ClaimSymbol
<1>5. ASSUME NEW a \in Attempts, Steal(a) PROVE TypeOK'
  BY <1>5 DEF Steal
<1>6. ASSUME NEW a \in Attempts, Place(a) PROVE TypeOK'
  BY <1>6 DEF Place
<1>7. ASSUME NEW a \in Attempts, Reject(a) PROVE TypeOK'
  BY <1>7 DEF Reject
<1>8. ASSUME NEW a \in Attempts, Bought(a) PROVE TypeOK'
  <2>1. buys' \in [1 .. MaxCandle -> Nat]
    BY <1>0, <1>8 DEF Bought
  <2>2. open' \in [Instances -> SUBSET Attempts]
    BY <1>8 DEF Bought
  <2>3. /\ stage' = [stage EXCEPT ![a] = "done"] /\ bought' = bought \union {a}
        /\ stage[a] = "buying"
        /\ UNCHANGED <<now, redisVars, localClaims, localUnknown, epoch, token,
                       crashes, unacked, abandoned, faultHistory>>
    BY <1>8 DEF Bought
  <2>4. stage' \in [Attempts -> Stages]
        /\ \A b \in Attempts : stage'[b] = "new" \/ epoch'[b] \in 1 .. MaxCandle
    BY <2>3
  <2> QED
    BY <2>1, <2>2, <2>3, <2>4
<1>9. ASSUME NEW a \in Attempts, LoseAck(a) PROVE TypeOK'
  BY <1>0, <1>9 DEF LoseAck, OutcomeUnknown
<1>10. ASSUME NEW a \in Attempts, Quarantine(a) PROVE TypeOK'
  BY <1>10 DEF Quarantine
<1>11. ASSUME NEW a \in Attempts, AbandonBuy(a) PROVE TypeOK'
  BY <1>0, <1>11 DEF AbandonBuy, OutcomeUnknown
<1>12. ASSUME NEW a \in Attempts, Release(a) PROVE TypeOK'
  BY <1>0, <1>12 DEF Release, WithoutOrderKey, AfterOrderKey
<1>13. ASSUME NEW a \in Attempts, ReleaseSymbol(a) PROVE TypeOK'
  BY <1>0, <1>13 DEF ReleaseSymbol, WithoutSymbolKey, ForgetLocally, AfterSymbolKey
<1>14. ASSUME NEW a \in Attempts, Settle(a) PROVE TypeOK'
  BY <1>14 DEF Settle
<1>15. CASE NextCandle
  BY <1>15 DEF NextCandle
<1>16. CASE ExpireSymbolClaim
  BY <1>16 DEF ExpireSymbolClaim
<1>17. CASE ExpireUnknown
  BY <1>17 DEF ExpireUnknown
<1>18. ASSUME NEW k \in Candles, ExpireOrderClaim(k) PROVE TypeOK'
  BY <1>18 DEF ExpireOrderClaim
<1>19. ASSUME NEW i \in Instances, Crash(i) PROVE TypeOK'
  <2>1. stage' \in [Attempts -> Stages]
        /\ \A b \in Attempts : stage'[b] = "new" \/ epoch'[b] \in 1 .. MaxCandle
    BY <1>19 DEF Crash
  <2>2. buys' \in [1 .. MaxCandle -> Nat] /\ unacked' \subseteq 1 .. MaxCandle
    BY <1>0, <1>19 DEF Crash
  <2>3. /\ localClaims' \in [Instances -> SUBSET (1 .. MaxCandle)]
        /\ localUnknown' \in [Instances -> 0 .. MaxCandle]
        /\ open' \in [Instances -> SUBSET Attempts]
        /\ crashes' \in 0 .. MaxCrashes
    BY <1>19 DEF Crash
  <2> QED
    BY <1>19, <2>1, <2>2, <2>3 DEF Crash
<1>20. ASSUME NEW a \in Attempts, ClaimFails(a) PROVE TypeOK'
  <2>1. InstanceOf[a] \in Instances /\ epoch[a] \in 1 .. MaxCandle
    BY <1>20 DEF ClaimFails
  <2>2. localClaims' \in [Instances -> SUBSET (1 .. MaxCandle)]
    <3>1. localClaims[InstanceOf[a]] \ {epoch[a]} \in SUBSET (1 .. MaxCandle)
      BY <2>1
    <3> QED
      BY <1>20, <2>1, <3>1 DEF ClaimFails, ForgetLocally
  <2>3. orderClaim' \in [1 .. MaxCandle -> Attempts \union {None}]
    BY <1>20, <2>1 DEF ClaimFails
  <2>4. stage' = [stage EXCEPT ![a] = "done"] /\ stranded' = stranded \union {a}
        /\ UNCHANGED <<now, symbolClaim, unknown, localUnknown, open, epoch, token,
                       crashes, buys, bought, unacked, abandoned, unsaved, forgotten>>
    BY <1>20 DEF ClaimFails
  <2>5. stage' \in [Attempts -> Stages]
        /\ \A b \in Attempts : stage'[b] = "new" \/ epoch'[b] \in 1 .. MaxCandle
    BY <2>1, <2>4
  <2> QED
    BY <2>2, <2>3, <2>4, <2>5
<1>21. ASSUME NEW a \in Attempts, SymbolFails(a) PROVE TypeOK'
  BY <1>21 DEF SymbolFails
<1>22. ASSUME NEW a \in Attempts, QuarantineFails(a) PROVE TypeOK'
  BY <1>0, <1>22 DEF QuarantineFails
<1>23. ASSUME NEW a \in Attempts, ReleaseFails(a) PROVE TypeOK'
  BY <1>0, <1>23 DEF ReleaseFails, WithoutOrderKey, WithoutSymbolKey
<1>24. CASE UNCHANGED vars
  BY <1>24 DEF vars
<1> QED
  BY <1>1, <1>2, <1>3, <1>4, <1>5, <1>6, <1>7, <1>8, <1>9, <1>10, <1>11, <1>12,
     <1>13, <1>14, <1>15, <1>16, <1>17, <1>18, <1>19, <1>20, <1>21, <1>22, <1>23,
     <1>24 DEF Next

\* Only a restart makes an engine forget the acknowledgement it lost.
LEMMA WarnedStep == TypeOK /\ TimeInv /\ WarnedInv /\ [Next]_vars => WarnedInv'
<1> SUFFICES ASSUME TypeOK, TimeInv, WarnedInv, [Next]_vars PROVE WarnedInv'
  OBVIOUS
<1> USE AttemptsAssumption, CandlesAssumption DEF TypeOK, WarnedInv, Stages,
      Candles, redisVars, localVars, attemptVars, historyVars, buyHistory,
      faultHistory, Goto
<1>1. ASSUME NEW a \in Attempts, Begin(a) PROVE WarnedInv'
  <2>1. /\ stage[a] = "new" /\ epoch' = [epoch EXCEPT ![a] = now]
        /\ \E s \in {"done", "asking"} : stage' = [stage EXCEPT ![a] = s]
        /\ UNCHANGED <<now, localUnknown, unsaved, forgotten>>
    BY <1>1 DEF Begin
  <2>2. a \notin unsaved
    BY <2>1
  <2> QED
    BY <2>1, <2>2
<1>2. ASSUME NEW a \in Attempts, LoseAck(a) PROVE WarnedInv'
  <2>1. /\ localUnknown' = [localUnknown EXCEPT ![InstanceOf[a]] = now]
        /\ stage' = [stage EXCEPT ![a] = "quarantining"]
        /\ UNCHANGED <<now, epoch, unsaved, forgotten>>
    BY <1>2 DEF LoseAck
  <2> QED
    BY <2>1 DEF TimeInv
<1>3. ASSUME NEW a \in Attempts, QuarantineFails(a) PROVE WarnedInv'
  BY <1>3 DEF QuarantineFails
<1>4. CASE NextCandle
  <2>1. now' = now + 1 /\ UNCHANGED <<localUnknown, epoch, stage, unsaved, forgotten>>
    BY <1>4 DEF NextCandle
  <2> QED
    BY <2>1
<1>5. ASSUME NEW i \in Instances, Crash(i) PROVE WarnedInv'
  <2>1. /\ localUnknown' = [localUnknown EXCEPT ![i] = 0]
        /\ forgotten' = forgotten \union {a \in unsaved : InstanceOf[a] = i}
        /\ UNCHANGED <<now, epoch, unsaved>>
    BY <1>5 DEF Crash
  <2>2. \A a \in Attempts : stage'[a] = "quarantining" =>
          stage[a] = "quarantining" /\ InstanceOf[a] # i
    BY <1>5 DEF Crash
  <2>3. \A a \in Attempts : stage'[a] \in {stage[a], "crashed"}
    BY <1>5 DEF Crash
  <2> QED
    BY <2>1, <2>2, <2>3
<1>6. CASE \/ UNCHANGED vars
           \/ ExpireSymbolClaim \/ ExpireUnknown
           \/ \E k \in Candles : ExpireOrderClaim(k)
           \/ \E a \in Attempts : Settle(a)
  BY <1>6 DEF vars, ExpireSymbolClaim, ExpireUnknown, ExpireOrderClaim, Settle
<1>7. ASSUME NEW a \in Attempts,
             \/ Ask(a) \/ Claim(a) \/ ClaimSymbol(a) \/ Steal(a) \/ Place(a)
             \/ Reject(a) \/ Bought(a) \/ Quarantine(a) \/ AbandonBuy(a)
             \/ Release(a) \/ ReleaseSymbol(a)
             \/ ClaimFails(a) \/ SymbolFails(a) \/ ReleaseFails(a)
      PROVE WarnedInv'
  <2>1. /\ UNCHANGED <<now, localUnknown, epoch, unsaved, forgotten>>
        /\ \E s \in Stages \ {"new", "quarantining"} : stage' = [stage EXCEPT ![a] = s]
    BY <1>7 DEF Ask, Claim, ClaimSymbol, Steal, Place, Reject, Bought, Quarantine,
       AbandonBuy, OutcomeUnknown, Release, ReleaseSymbol, AfterOrderKey,
       AfterSymbolKey, ClaimFails, SymbolFails, ReleaseFails
  <2> QED
    BY <2>1
<1> QED
  BY <1>1, <1>2, <1>3, <1>4, <1>5, <1>6, <1>7 DEF Next

\* Every action preserves the invariant.
LEMMA ReservationStep == ReservationInv /\ [Next]_vars => ReservationInv'
<1> SUFFICES ASSUME ReservationInv, [Next]_vars PROVE ReservationInv'
  OBVIOUS
<1> USE AttemptsAssumption, CandlesAssumption
    DEF Candles, historyVars, buyHistory, faultHistory
<1>0. TypeOK
  BY DEF ReservationInv
<1>T. TypeOK'
  BY <1>0, ReservationTypeStep
<1>W. WarnedInv'
  BY WarnedStep DEF ReservationInv
<1>1. ASSUME NEW a \in Attempts, Begin(a) PROVE ReservationInv'
  <2>1. TimeInv'
    BY <1>0, <1>1 DEF ReservationInv, TypeOK, redisVars, localVars, Goto,
       Begin, TimeInv
  <2>2. OwnerInv'
    <3>1. /\ stage[a] = "new"
          /\ \A b \in Attempts \ {a} : stage'[b] = stage[b] /\ epoch'[b] = epoch[b]
          /\ bought' = bought /\ stranded' = stranded
          /\ symbolClaim' = symbolClaim
      BY <1>0, <1>1 DEF TypeOK, Begin, Goto, redisVars
    <3>2. a \notin bought \union stranded /\ symbolClaim # a
          /\ bought \union stranded \subseteq Attempts
          /\ \A k \in Candles : orderClaim[k] # a
      BY <3>1 DEF ReservationInv, TypeOK, OrderStages, SymbolStages, OwnerInv
    <3>3. orderClaim' = orderClaim
      BY <1>1 DEF Begin, redisVars
    <3> QED
      BY <1>0, <3>1, <3>2, <3>3 DEF ReservationInv, OwnerInv
  <2>3. ReservationSurvives'
    BY <1>1 DEF ReservationInv, TypeOK, redisVars, localVars, Goto, Begin,
       ReservationSurvives, Holders, OwnerInv
  <2>4. BuysInv'
    BY <1>0, <1>1 DEF ReservationInv, TypeOK, redisVars, localVars, Goto,
       Begin, BuysInv, Ambiguous, TimeInv, OwnerInv, OrderStages, SymbolStages
  <2>5. OneBuyPerCandle'
    BY <1>1 DEF ReservationInv, redisVars, localVars, Goto, Begin,
       OneBuyPerCandle, Ambiguous
  <2>6. UnackedInv'
    BY <1>1 DEF ReservationInv, TypeOK, redisVars, localVars, Goto, Begin,
       UnackedInv
  <2> QED
    BY <1>T, <1>W, <2>1, <2>2, <2>3, <2>4, <2>5, <2>6 DEF ReservationInv
<1>2. ASSUME NEW a \in Attempts, Ask(a) PROVE ReservationInv'
  <2>1. TimeInv'
    BY <1>0, <1>2 DEF ReservationInv, TypeOK, redisVars, Goto, Ask,
       ForgetLocally, TimeInv
  <2>2. OwnerInv'
    <3>1. /\ stage[a] = "asking"
          /\ \A b \in Attempts \ {a} : stage'[b] = stage[b] /\ epoch'[b] = epoch[b]
          /\ bought' = bought /\ stranded' = stranded
          /\ symbolClaim' = symbolClaim
      BY <1>0, <1>2 DEF TypeOK, Ask, Goto, redisVars
    <3>2. a \notin bought \union stranded /\ symbolClaim # a
          /\ bought \union stranded \subseteq Attempts
          /\ \A k \in Candles : orderClaim[k] # a
      BY <3>1 DEF ReservationInv, TypeOK, OrderStages, SymbolStages, OwnerInv
    <3>3. orderClaim' = orderClaim
      BY <1>2 DEF Ask, redisVars
    <3> QED
      BY <1>0, <3>1, <3>2, <3>3 DEF ReservationInv, OwnerInv
  <2>3. ReservationSurvives'
    BY <1>2 DEF ReservationInv, TypeOK, redisVars, Goto, Ask,
       ReservationSurvives, Holders
  <2>4. BuysInv'
    BY <1>0, <1>2 DEF ReservationInv, TypeOK, redisVars, Goto, Ask,
       ForgetLocally, BuysInv, Ambiguous, TimeInv, OwnerInv, OrderStages,
       SymbolStages
  <2>5. OneBuyPerCandle'
    BY <1>2 DEF ReservationInv, redisVars, Goto, Ask, OneBuyPerCandle,
       Ambiguous
  <2>6. UnackedInv'
    BY <1>2 DEF ReservationInv, TypeOK, redisVars, Goto, Ask, UnackedInv
  <2> QED
    BY <1>T, <1>W, <2>1, <2>2, <2>3, <2>4, <2>5, <2>6 DEF ReservationInv
<1>3. ASSUME NEW a \in Attempts, Claim(a) PROVE ReservationInv'
  <2>1. TimeInv'
    BY <1>0, <1>3 DEF ReservationInv, TypeOK, Goto, Claim, ForgetLocally,
       TimeInv
  <2>2. OwnerInv'
    <3>1. /\ stage[a] = "claiming"
          /\ \A b \in Attempts \ {a} : stage'[b] = stage[b] /\ epoch'[b] = epoch[b]
          /\ bought' = bought /\ stranded' = stranded
          /\ symbolClaim' = symbolClaim
      BY <1>0, <1>3 DEF TypeOK, Claim, Goto, redisVars
    <3>2. a \notin bought \union stranded /\ symbolClaim # a
          /\ bought \union stranded \subseteq Attempts
          /\ \A k \in Candles : orderClaim[k] # a
      BY <3>1 DEF ReservationInv, TypeOK, OrderStages, SymbolStages, OwnerInv
    <3>3. /\ epoch' = epoch
          /\ \/ orderClaim' = orderClaim
             \/ /\ orderClaim' = [orderClaim EXCEPT ![epoch[a]] = a]
                /\ stage' = [stage EXCEPT ![a] = "claimingSymbol"]
      BY <1>3 DEF Claim, Goto
    <3>4. CASE orderClaim' = orderClaim
      BY <3>1, <3>2, <3>3, <3>4 DEF ReservationInv, OwnerInv
    <3>5. CASE /\ orderClaim' = [orderClaim EXCEPT ![epoch[a]] = a]
               /\ stage'[a] = "claimingSymbol"
      <4>1. \A k \in Candles : orderClaim'[k] = IF k = epoch[a] THEN a ELSE orderClaim[k]
        BY <1>0, <3>5 DEF TypeOK
      <4> QED
        BY <3>1, <3>2, <3>3, <3>5, <4>1 DEF ReservationInv, OrderStages,
           OwnerInv
    <3>6. stage' = [stage EXCEPT ![a] = "claimingSymbol"] => stage'[a] = "claimingSymbol"
      BY <1>0 DEF TypeOK
    <3> QED
      BY <3>3, <3>4, <3>5, <3>6
  <2>3. ReservationSurvives'
    <3>1. /\ stage[a] = "claiming" /\ now' = now /\ epoch' = epoch /\ bought' = bought
          /\ \A b \in Attempts \ {a} : stage'[b] = stage[b]
      BY <1>0, <1>3 DEF TypeOK, Claim, Goto
    <3>2. a \notin bought /\ now \in Candles
      BY <3>1 DEF ReservationInv, TypeOK, OwnerInv
    <3>3. CASE orderClaim[epoch[a]] = None
      <4>1. orderClaim' = [orderClaim EXCEPT ![epoch[a]] = a]
        BY <1>3, <3>3 DEF Claim
      <4>2. ASSUME NEW b \in Holders', epoch[b] = now PROVE orderClaim'[now] = b
        <5>1. CASE b = a
          BY <1>0, <3>2, <4>1, <4>2, <5>1 DEF TypeOK
        <5>2. CASE b # a
          <6>1. b \in Holders /\ b \in Attempts
            BY <3>1, <4>2, <5>2 DEF Holders
          <6>2. orderClaim[now] = b /\ b # None
            BY <4>2, <6>1 DEF ReservationInv, ReservationSurvives
          <6> QED
            BY <1>0, <3>3, <4>1, <6>2
        <5> QED
          BY <5>1, <5>2
      <4> QED
        BY <3>1, <4>2 DEF ReservationSurvives
    <3>4. CASE orderClaim[epoch[a]] # None
      <4>1. orderClaim' = orderClaim /\ stage' = [stage EXCEPT ![a] = "done"]
        BY <1>3, <3>4 DEF Claim, Goto
      <4>2. Holders' \subseteq Holders
        BY <3>1, <4>1 DEF Holders
      <4> QED
        BY <3>1, <4>1, <4>2 DEF ReservationInv, ReservationSurvives
    <3> QED
      BY <3>3, <3>4
  <2>4. BuysInv'
    BY <1>0, <1>3 DEF ReservationInv, TypeOK, Goto, Claim, ForgetLocally,
       BuysInv, Ambiguous, TimeInv, OwnerInv, OrderStages, SymbolStages
  <2>5. OneBuyPerCandle'
    BY <1>3 DEF ReservationInv, Goto, Claim, OneBuyPerCandle, Ambiguous
  <2>6. UnackedInv'
    BY <1>3 DEF ReservationInv, TypeOK, Goto, Claim, ForgetLocally, UnackedInv,
       ReservationSurvives, Holders
  <2> QED
    BY <1>T, <1>W, <2>1, <2>2, <2>3, <2>4, <2>5, <2>6 DEF ReservationInv
<1>4. ASSUME NEW a \in Attempts, ClaimSymbol(a) PROVE ReservationInv'
  <2>1. TimeInv'
    BY <1>0, <1>4 DEF ReservationInv, TypeOK, localVars, Goto, ClaimSymbol,
       TimeInv
  <2>2. OwnerInv'
    <3>1. /\ stage[a] = "claimingSymbol"
          /\ \A b \in Attempts \ {a} : stage'[b] = stage[b]
          /\ orderClaim' = orderClaim /\ epoch' = epoch
          /\ bought' = bought /\ stranded' = stranded
      BY <1>0, <1>4 DEF TypeOK, ClaimSymbol, Goto, localVars
    <3>2. \/ stage'[a] = "ready" /\ symbolClaim' = a
          \/ stage'[a] \in {"stealing", "undoing"} /\ symbolClaim' = symbolClaim
      BY <1>0, <1>4 DEF TypeOK, ClaimSymbol, Goto
    <3>3. a \notin bought \union stranded /\ symbolClaim # a
          /\ bought \union stranded \subseteq Attempts
      BY <1>0, <3>1 DEF ReservationInv, TypeOK, OwnerInv, SymbolStages
    <3> QED
      BY <3>1, <3>2, <3>3 DEF ReservationInv, OwnerInv, OrderStages,
         SymbolStages
  <2>3. ReservationSurvives'
    BY <1>4 DEF ReservationInv, TypeOK, localVars, Goto, ClaimSymbol,
       ReservationSurvives, Holders
  <2>4. BuysInv'
    BY <1>0, <1>4 DEF ReservationInv, TypeOK, localVars, Goto, ClaimSymbol,
       BuysInv, Ambiguous, TimeInv, OwnerInv, OrderStages, SymbolStages
  <2>5. OneBuyPerCandle'
    BY <1>4 DEF ReservationInv, localVars, Goto, ClaimSymbol, OneBuyPerCandle,
       Ambiguous
  <2>6. UnackedInv'
    BY <1>4 DEF ReservationInv, TypeOK, localVars, Goto, ClaimSymbol,
       UnackedInv
  <2> QED
    BY <1>T, <1>W, <2>1, <2>2, <2>3, <2>4, <2>5, <2>6 DEF ReservationInv
<1>5. ASSUME NEW a \in Attempts, Steal(a) PROVE ReservationInv'
  <2>1. TimeInv'
    BY <1>0, <1>5 DEF ReservationInv, TypeOK, localVars, Goto, Steal, TimeInv
  <2>2. OwnerInv'
    BY <1>5 DEF ReservationInv, TypeOK, localVars, Goto, Steal, OrderStages,
       SymbolStages, OwnerInv
  <2>3. ReservationSurvives'
    BY <1>5 DEF ReservationInv, localVars, Goto, Steal, ReservationSurvives,
       Holders
  <2>4. BuysInv'
    BY <1>0, <1>5 DEF ReservationInv, TypeOK, localVars, Goto, Steal, BuysInv,
       Ambiguous, TimeInv, OwnerInv, OrderStages, SymbolStages
  <2>5. OneBuyPerCandle'
    BY <1>5 DEF ReservationInv, localVars, Goto, Steal, OneBuyPerCandle,
       Ambiguous
  <2>6. UnackedInv'
    BY <1>5 DEF ReservationInv, localVars, Goto, Steal, UnackedInv
  <2> QED
    BY <1>T, <1>W, <2>1, <2>2, <2>3, <2>4, <2>5, <2>6 DEF ReservationInv
<1>6. ASSUME NEW a \in Attempts, Place(a) PROVE ReservationInv'
  <2>1. TimeInv'
    BY <1>0, <1>6 DEF ReservationInv, TypeOK, redisVars, localVars, Goto,
       Place, TimeInv
  <2>2. OwnerInv'
    BY <1>6 DEF ReservationInv, redisVars, localVars, Goto, Place, OrderStages,
       SymbolStages, OwnerInv
  <2>3. ReservationSurvives'
    BY <1>6 DEF ReservationInv, redisVars, localVars, Goto, Place,
       ReservationSurvives, Holders
  <2>4. BuysInv'
    BY <1>0, <1>6 DEF ReservationInv, TypeOK, redisVars, localVars, Goto,
       Place, BuysInv, Ambiguous, TimeInv, OwnerInv, OrderStages, SymbolStages
  <2>5. OneBuyPerCandle'
    BY <1>6 DEF ReservationInv, redisVars, localVars, Goto, Place,
       OneBuyPerCandle, Ambiguous
  <2>6. UnackedInv'
    BY <1>6 DEF ReservationInv, redisVars, localVars, Goto, Place, UnackedInv
  <2> QED
    BY <1>T, <1>W, <2>1, <2>2, <2>3, <2>4, <2>5, <2>6 DEF ReservationInv
<1>7. ASSUME NEW a \in Attempts, Reject(a) PROVE ReservationInv'
  <2>1. TimeInv'
    BY <1>0, <1>7 DEF ReservationInv, TypeOK, redisVars, localVars, Goto,
       Reject, TimeInv
  <2>2. OwnerInv'
    BY <1>7 DEF ReservationInv, redisVars, localVars, Goto, Reject,
       OrderStages, SymbolStages, OwnerInv
  <2>3. ReservationSurvives'
    BY <1>7 DEF ReservationInv, redisVars, localVars, Goto, Reject,
       ReservationSurvives, Holders
  <2>4. BuysInv'
    BY <1>0, <1>7 DEF ReservationInv, TypeOK, redisVars, localVars, Goto,
       Reject, BuysInv, Ambiguous, TimeInv, OwnerInv, OrderStages, SymbolStages
  <2>5. OneBuyPerCandle'
    BY <1>7 DEF ReservationInv, redisVars, localVars, Goto, Reject,
       OneBuyPerCandle, Ambiguous
  <2>6. UnackedInv'
    BY <1>7 DEF ReservationInv, redisVars, localVars, Goto, Reject, UnackedInv
  <2> QED
    BY <1>T, <1>W, <2>1, <2>2, <2>3, <2>4, <2>5, <2>6 DEF ReservationInv
<1>8. ASSUME NEW a \in Attempts, Bought(a) PROVE ReservationInv'
  <2>1. TimeInv'
    BY <1>0, <1>8 DEF ReservationInv, TypeOK, redisVars, Goto, Bought, TimeInv
  <2>2. OwnerInv'
    BY <1>8 DEF ReservationInv, TypeOK, redisVars, Goto, Bought, OwnerInv
  <2>3. ReservationSurvives'
    BY <1>8 DEF ReservationInv, redisVars, Goto, Bought, ReservationSurvives,
       Holders
  <2>4. BuysInv'
    BY <1>0, <1>8 DEF ReservationInv, TypeOK, redisVars, Goto, Bought, BuysInv,
       Ambiguous, TimeInv, OwnerInv, OrderStages, SymbolStages
  <2>5. OneBuyPerCandle'
    BY <1>0, <1>8 DEF ReservationInv, TypeOK, redisVars, Goto, Bought,
       OneBuyPerCandle, Ambiguous, BuysInv, ReservationSurvives, Holders,
       OwnerInv, OrderStages, SymbolStages, TimeInv
  <2>6. UnackedInv'
    BY <1>8 DEF ReservationInv, redisVars, Goto, Bought, UnackedInv
  <2> QED
    BY <1>T, <1>W, <2>1, <2>2, <2>3, <2>4, <2>5, <2>6 DEF ReservationInv
<1>9. ASSUME NEW a \in Attempts, LoseAck(a) PROVE ReservationInv'
  <2>1. TimeInv'
    <3>1. /\ now' = now /\ epoch' = epoch
          /\ buys' \in {buys, [buys EXCEPT ![now] = @ + 1]}
          /\ unacked' = unacked \union {now}
      BY <1>9 DEF LoseAck, OutcomeUnknown
    <3>2. now \in Nat /\ \A k \in Candles : k > now => buys'[k] = buys[k]
      BY <1>0, <3>1 DEF TypeOK
    <3> QED
      BY <3>1, <3>2 DEF ReservationInv, TimeInv
  <2>2. OwnerInv'
    BY <1>9 DEF ReservationInv, redisVars, Goto, LoseAck, OutcomeUnknown,
       OrderStages, SymbolStages, OwnerInv
  <2>3. ReservationSurvives'
    BY <1>9 DEF ReservationInv, redisVars, Goto, LoseAck, OutcomeUnknown,
       ReservationSurvives, Holders
  <2>4. BuysInv'
    BY <1>0, <1>9 DEF ReservationInv, TypeOK, redisVars, Goto, LoseAck,
       OutcomeUnknown, BuysInv, Ambiguous, TimeInv, OwnerInv, OrderStages,
       SymbolStages
  <2>5. OneBuyPerCandle'
    BY <1>9 DEF ReservationInv, TypeOK, redisVars, Goto, LoseAck,
       OutcomeUnknown, OneBuyPerCandle, Ambiguous, Holders
  <2>6. UnackedInv'
    BY <1>9 DEF ReservationInv, TypeOK, redisVars, Goto, LoseAck,
       OutcomeUnknown, UnackedInv, ReservationSurvives, Holders
  <2> QED
    BY <1>T, <1>W, <2>1, <2>2, <2>3, <2>4, <2>5, <2>6 DEF ReservationInv
<1>10. ASSUME NEW a \in Attempts, Quarantine(a) PROVE ReservationInv'
  <2>1. TimeInv'
    BY <1>0, <1>10 DEF ReservationInv, TypeOK, localVars, Goto, Quarantine,
       TimeInv
  <2>2. OwnerInv'
    BY <1>10 DEF ReservationInv, localVars, Goto, Quarantine, OrderStages,
       SymbolStages, OwnerInv
  <2>3. ReservationSurvives'
    BY <1>10 DEF ReservationInv, localVars, Goto, Quarantine,
       ReservationSurvives, Holders
  <2>4. BuysInv'
    BY <1>0, <1>10 DEF ReservationInv, TypeOK, localVars, Goto, Quarantine,
       BuysInv, Ambiguous, TimeInv, OwnerInv, OrderStages, SymbolStages
  <2>5. OneBuyPerCandle'
    BY <1>10 DEF ReservationInv, localVars, Goto, Quarantine, OneBuyPerCandle,
       Ambiguous
  <2>6. UnackedInv'
    BY <1>10 DEF ReservationInv, localVars, Goto, Quarantine, UnackedInv
  <2> QED
    BY <1>T, <1>W, <2>1, <2>2, <2>3, <2>4, <2>5, <2>6 DEF ReservationInv
<1>11. ASSUME NEW a \in Attempts, AbandonBuy(a) PROVE ReservationInv'
  <2>1. TimeInv'
    <3>1. /\ now' = now /\ epoch' = epoch
          /\ buys' \in {buys, [buys EXCEPT ![now] = @ + 1]}
          /\ unacked' = unacked
      BY <1>11 DEF AbandonBuy, OutcomeUnknown
    <3>2. now \in Nat /\ \A k \in Candles : k > now => buys'[k] = buys[k]
      BY <1>0, <3>1 DEF TypeOK
    <3> QED
      BY <3>1, <3>2 DEF ReservationInv, TimeInv
  <2>2. OwnerInv'
    BY <1>11 DEF ReservationInv, redisVars, localVars, Goto, AbandonBuy,
       OutcomeUnknown, OrderStages, SymbolStages, OwnerInv
  <2>3. ReservationSurvives'
    BY <1>11 DEF ReservationInv, redisVars, localVars, Goto, AbandonBuy,
       OutcomeUnknown, ReservationSurvives, Holders
  <2>4. BuysInv'
    BY <1>0, <1>11 DEF ReservationInv, TypeOK, redisVars, localVars, Goto,
       AbandonBuy, OutcomeUnknown, BuysInv, Ambiguous, TimeInv, OwnerInv,
       OrderStages, SymbolStages
  <2>5. OneBuyPerCandle'
    BY <1>11 DEF ReservationInv, TypeOK, redisVars, localVars, Goto,
       AbandonBuy, OutcomeUnknown, OneBuyPerCandle, Ambiguous
  <2>6. UnackedInv'
    BY <1>11 DEF ReservationInv, redisVars, localVars, Goto, AbandonBuy,
       OutcomeUnknown, UnackedInv
  <2> QED
    BY <1>T, <1>W, <2>1, <2>2, <2>3, <2>4, <2>5, <2>6 DEF ReservationInv
<1>12. ASSUME NEW a \in Attempts, Release(a) PROVE ReservationInv'
  <2>1. TimeInv'
    BY <1>0, <1>12 DEF ReservationInv, TypeOK, localVars, Goto, Release,
       WithoutOrderKey, AfterOrderKey, TimeInv
  <2>2. OwnerInv'
    BY <1>0, <1>12 DEF ReservationInv, TypeOK, localVars, Goto, Release,
       WithoutOrderKey, AfterOrderKey, OwnerInv, OrderStages, SymbolStages
  <2>3. ReservationSurvives'
    BY <1>0, <1>12 DEF ReservationInv, TypeOK, localVars, Goto, Release,
       WithoutOrderKey, AfterOrderKey, ReservationSurvives, Holders, OwnerInv,
       OrderStages, SymbolStages, TimeInv
  <2>4. BuysInv'
    BY <1>0, <1>12 DEF ReservationInv, TypeOK, localVars, Goto, Release,
       WithoutOrderKey, AfterOrderKey, BuysInv, Ambiguous, TimeInv, OwnerInv,
       OrderStages, SymbolStages
  <2>5. OneBuyPerCandle'
    BY <1>12 DEF ReservationInv, localVars, Goto, Release, WithoutOrderKey,
       OneBuyPerCandle, Ambiguous
  <2>6. UnackedInv'
    BY <1>12 DEF ReservationInv, localVars, Goto, Release, WithoutOrderKey,
       UnackedInv
  <2> QED
    BY <1>T, <1>W, <2>1, <2>2, <2>3, <2>4, <2>5, <2>6 DEF ReservationInv
<1>13. ASSUME NEW a \in Attempts, ReleaseSymbol(a) PROVE ReservationInv'
  <2>1. TimeInv'
    BY <1>0, <1>13 DEF ReservationInv, TypeOK, Goto, ReleaseSymbol,
       WithoutSymbolKey, WithoutSymbolKey, ForgetLocally, AfterSymbolKey,
       TimeInv
  <2>2. OwnerInv'
    BY <1>13 DEF ReservationInv, Goto, ReleaseSymbol, WithoutSymbolKey,
       OrderStages, OwnerInv
  <2>3. ReservationSurvives'
    BY <1>0, <1>13 DEF ReservationInv, TypeOK, Goto, ReleaseSymbol,
       WithoutSymbolKey, WithoutSymbolKey, ForgetLocally, AfterSymbolKey,
       ReservationSurvives, Holders, OwnerInv, OrderStages, SymbolStages,
       TimeInv
  <2>4. BuysInv'
    BY <1>0, <1>13 DEF ReservationInv, TypeOK, Goto, ReleaseSymbol,
       WithoutSymbolKey, WithoutSymbolKey, ForgetLocally, AfterSymbolKey,
       BuysInv, Ambiguous, TimeInv, OwnerInv, OrderStages, SymbolStages
  <2>5. OneBuyPerCandle'
    BY <1>13 DEF ReservationInv, Goto, ReleaseSymbol, WithoutSymbolKey,
       OneBuyPerCandle, Ambiguous
  <2>6. UnackedInv'
    BY <1>13 DEF ReservationInv, Goto, ReleaseSymbol, WithoutSymbolKey,
       UnackedInv
  <2> QED
    BY <1>T, <1>W, <2>1, <2>2, <2>3, <2>4, <2>5, <2>6 DEF ReservationInv
<1>14. ASSUME NEW a \in Attempts, Settle(a) PROVE ReservationInv'
  <2>1. TimeInv'
    BY <1>0, <1>14 DEF ReservationInv, TypeOK, attemptVars, Settle, TimeInv
  <2>2. OwnerInv'
    BY <1>14 DEF ReservationInv, attemptVars, Settle, OwnerInv
  <2>3. ReservationSurvives'
    BY <1>14 DEF ReservationInv, attemptVars, Settle, ReservationSurvives,
       Holders
  <2>4. BuysInv'
    BY <1>0, <1>14 DEF ReservationInv, TypeOK, attemptVars, Settle, BuysInv,
       Ambiguous, TimeInv, OwnerInv, OrderStages, SymbolStages
  <2>5. OneBuyPerCandle'
    BY <1>14 DEF ReservationInv, attemptVars, Settle, OneBuyPerCandle,
       Ambiguous
  <2>6. UnackedInv'
    BY <1>14 DEF ReservationInv, attemptVars, Settle, UnackedInv
  <2> QED
    BY <1>T, <1>W, <2>1, <2>2, <2>3, <2>4, <2>5, <2>6 DEF ReservationInv
<1>15. CASE NextCandle
  <2>1. TimeInv'
    <3>1. now' = now + 1 /\ UNCHANGED <<epoch, buys, unacked>>
      BY <1>15 DEF NextCandle, attemptVars
    <3>2. now \in Nat /\ Candles \subseteq Nat /\ unacked \subseteq Nat
          /\ \A a \in Attempts : epoch[a] \in Nat
      BY <1>0 DEF TypeOK
    <3> QED
      BY <3>1, <3>2 DEF ReservationInv, TimeInv
  <2>2. OwnerInv'
    BY <1>15 DEF ReservationInv, redisVars, localVars, attemptVars, NextCandle,
       OwnerInv
  <2>3. ReservationSurvives'
    BY <1>0, <1>15 DEF ReservationInv, TypeOK, redisVars, localVars,
       attemptVars, NextCandle, ReservationSurvives, Holders, OwnerInv,
       OrderStages, SymbolStages, TimeInv
  <2>4. BuysInv'
    BY <1>0, <1>15 DEF ReservationInv, TypeOK, redisVars, localVars,
       attemptVars, NextCandle, BuysInv, Ambiguous, TimeInv, OwnerInv,
       OrderStages, SymbolStages
  <2>5. OneBuyPerCandle'
    BY <1>15 DEF ReservationInv, redisVars, localVars, attemptVars, NextCandle,
       OneBuyPerCandle, Ambiguous
  <2>6. UnackedInv'
    BY <1>0, <1>15 DEF ReservationInv, TypeOK, redisVars, localVars,
       attemptVars, NextCandle, UnackedInv, TimeInv, ReservationSurvives,
       Holders, OwnerInv, OrderStages, SymbolStages
  <2> QED
    BY <1>T, <1>W, <2>1, <2>2, <2>3, <2>4, <2>5, <2>6 DEF ReservationInv
<1>16. CASE ExpireSymbolClaim
  <2>1. TimeInv'
    BY <1>0, <1>16 DEF ReservationInv, TypeOK, localVars, attemptVars,
       ExpireSymbolClaim, TimeInv
  <2>2. OwnerInv'
    BY <1>16 DEF ReservationInv, localVars, attemptVars, ExpireSymbolClaim,
       OwnerInv
  <2>3. ReservationSurvives'
    BY <1>16 DEF ReservationInv, localVars, attemptVars, ExpireSymbolClaim,
       ReservationSurvives, Holders
  <2>4. BuysInv'
    BY <1>0, <1>16 DEF ReservationInv, TypeOK, localVars, attemptVars,
       ExpireSymbolClaim, BuysInv, Ambiguous, TimeInv, OwnerInv, OrderStages,
       SymbolStages
  <2>5. OneBuyPerCandle'
    BY <1>16 DEF ReservationInv, localVars, attemptVars, ExpireSymbolClaim,
       OneBuyPerCandle, Ambiguous
  <2>6. UnackedInv'
    BY <1>16 DEF ReservationInv, localVars, attemptVars, ExpireSymbolClaim,
       UnackedInv
  <2> QED
    BY <1>T, <1>W, <2>1, <2>2, <2>3, <2>4, <2>5, <2>6 DEF ReservationInv
<1>17. CASE ExpireUnknown
  <2>1. TimeInv'
    BY <1>0, <1>17 DEF ReservationInv, TypeOK, localVars, attemptVars,
       ExpireUnknown, TimeInv
  <2>2. OwnerInv'
    BY <1>17 DEF ReservationInv, localVars, attemptVars, ExpireUnknown,
       OwnerInv
  <2>3. ReservationSurvives'
    BY <1>17 DEF ReservationInv, localVars, attemptVars, ExpireUnknown,
       ReservationSurvives, Holders
  <2>4. BuysInv'
    BY <1>0, <1>17 DEF ReservationInv, TypeOK, localVars, attemptVars,
       ExpireUnknown, BuysInv, Ambiguous, TimeInv, OwnerInv, OrderStages,
       SymbolStages
  <2>5. OneBuyPerCandle'
    BY <1>17 DEF ReservationInv, localVars, attemptVars, ExpireUnknown,
       OneBuyPerCandle, Ambiguous
  <2>6. UnackedInv'
    BY <1>17 DEF ReservationInv, TypeOK, localVars, attemptVars, ExpireUnknown,
       UnackedInv
  <2> QED
    BY <1>T, <1>W, <2>1, <2>2, <2>3, <2>4, <2>5, <2>6 DEF ReservationInv
<1>18. ASSUME NEW k \in Candles, ExpireOrderClaim(k) PROVE ReservationInv'
  <2>1. TimeInv'
    BY <1>0, <1>18 DEF ReservationInv, TypeOK, localVars, attemptVars,
       ExpireOrderClaim, TimeInv
  <2>2. OwnerInv'
    BY <1>18 DEF ReservationInv, localVars, attemptVars, ExpireOrderClaim,
       OwnerInv
  <2>3. ReservationSurvives'
    BY <1>18 DEF ReservationInv, localVars, attemptVars, ExpireOrderClaim,
       ReservationSurvives, Holders
  <2>4. BuysInv'
    BY <1>0, <1>18 DEF ReservationInv, TypeOK, localVars, attemptVars,
       ExpireOrderClaim, BuysInv, Ambiguous, TimeInv, OwnerInv, OrderStages,
       SymbolStages
  <2>5. OneBuyPerCandle'
    BY <1>18 DEF ReservationInv, localVars, attemptVars, ExpireOrderClaim,
       OneBuyPerCandle, Ambiguous
  <2>6. UnackedInv'
    BY <1>18 DEF ReservationInv, localVars, attemptVars, ExpireOrderClaim,
       UnackedInv
  <2> QED
    BY <1>T, <1>W, <2>1, <2>2, <2>3, <2>4, <2>5, <2>6 DEF ReservationInv
<1>19. ASSUME NEW i \in Instances, Crash(i) PROVE ReservationInv'
  <2>1. TimeInv'
    <3>1. /\ now' = now /\ epoch' = epoch
          /\ buys' \in {buys, [buys EXCEPT ![now] = @ + 1]}
          /\ unacked' \in {unacked, unacked \union {now}}
      BY <1>19 DEF Crash
    <3> QED
      BY <1>0, <3>1 DEF ReservationInv, TypeOK, TimeInv
  <2>2. OwnerInv'
    BY <1>19 DEF ReservationInv, TypeOK, redisVars, Crash, OrderStages,
       SymbolStages, OwnerInv
  <2>3. ReservationSurvives'
    BY <1>19 DEF ReservationInv, redisVars, Crash, ReservationSurvives, Holders
  <2>4. BuysInv'
    BY <1>0, <1>19 DEF ReservationInv, TypeOK, redisVars, Crash, BuysInv,
       Ambiguous, TimeInv, OwnerInv, OrderStages, SymbolStages
  <2>5. OneBuyPerCandle'
    BY <1>19 DEF ReservationInv, TypeOK, redisVars, Crash, OneBuyPerCandle,
       Ambiguous, OrderStages
  <2>6. UnackedInv'
    BY <1>19 DEF ReservationInv, redisVars, Crash, UnackedInv,
       ReservationSurvives, Holders
  <2> QED
    BY <1>T, <1>W, <2>1, <2>2, <2>3, <2>4, <2>5, <2>6 DEF ReservationInv
<1>20. ASSUME NEW a \in Attempts, ClaimFails(a) PROVE ReservationInv'
  <2>0. /\ stage[a] = "claiming" /\ stage' = [stage EXCEPT ![a] = "done"]
        /\ orderClaim' \in {orderClaim, [orderClaim EXCEPT ![epoch[a]] = a]}
        /\ orderClaim' # orderClaim => orderClaim[epoch[a]] = None
        /\ stranded' = stranded \union {a}
        /\ UNCHANGED <<now, symbolClaim, unknown, epoch, buys, bought, unacked,
                       abandoned, unsaved>>
    BY <1>20 DEF ClaimFails, Goto
  <2>a. /\ a \notin bought \union stranded /\ epoch[a] \in Candles
        /\ bought \union stranded \subseteq Attempts
        /\ \A k \in Candles : orderClaim'[k] # orderClaim[k] =>
             k = epoch[a] /\ orderClaim[k] = None /\ orderClaim'[k] = a
    BY <1>0, <2>0 DEF ReservationInv, TypeOK, OwnerInv
  <2>1. TimeInv'
    BY <2>0 DEF ReservationInv, TimeInv
  <2>2. OwnerInv'
    BY <1>0, <2>0, <2>a DEF ReservationInv, TypeOK, OwnerInv, OrderStages,
       SymbolStages
  <2>3. ReservationSurvives'
    BY <1>0, <2>0, <2>a DEF ReservationInv, TypeOK, ReservationSurvives,
       Holders
  <2>4. BuysInv'
    BY <2>0 DEF ReservationInv, BuysInv, Ambiguous
  <2>5. OneBuyPerCandle'
    BY <2>0 DEF ReservationInv, OneBuyPerCandle, Ambiguous
  <2>6. UnackedInv'
    BY <1>0, <2>0, <2>a DEF ReservationInv, TypeOK, UnackedInv
  <2> QED
    BY <1>T, <1>W, <2>1, <2>2, <2>3, <2>4, <2>5, <2>6 DEF ReservationInv
<1>21. ASSUME NEW a \in Attempts, SymbolFails(a) PROVE ReservationInv'
  <2>0. /\ stage[a] \in {"claimingSymbol", "stealing"}
        /\ stage' = [stage EXCEPT ![a] = "undoing"]
        /\ symbolClaim' \in {symbolClaim, a}
        /\ UNCHANGED <<now, orderClaim, unknown, epoch, historyVars>>
    BY <1>21 DEF SymbolFails, Goto
  <2>1. TimeInv'
    BY <2>0 DEF ReservationInv, TimeInv
  <2>2. OwnerInv'
    BY <1>0, <2>0 DEF ReservationInv, TypeOK, OwnerInv, OrderStages,
       SymbolStages
  <2>3. ReservationSurvives'
    BY <1>0, <2>0 DEF ReservationInv, TypeOK, ReservationSurvives, Holders
  <2>4. BuysInv'
    BY <2>0 DEF ReservationInv, BuysInv, Ambiguous
  <2>5. OneBuyPerCandle'
    BY <2>0 DEF ReservationInv, OneBuyPerCandle, Ambiguous
  <2>6. UnackedInv'
    BY <1>0, <2>0 DEF ReservationInv, TypeOK, UnackedInv
  <2> QED
    BY <1>T, <1>W, <2>1, <2>2, <2>3, <2>4, <2>5, <2>6 DEF ReservationInv
<1>22. ASSUME NEW a \in Attempts, QuarantineFails(a) PROVE ReservationInv'
  <2>0. /\ stage[a] = "quarantining" /\ stage' = [stage EXCEPT ![a] = "releasing"]
        /\ \/ unknown' = now /\ unsaved' = unsaved
           \/ unsaved' = unsaved \union {a} /\ unknown' = unknown
        /\ UNCHANGED <<now, orderClaim, symbolClaim, epoch, buys, bought, unacked,
                       abandoned, stranded>>
    BY <1>22 DEF QuarantineFails, Goto
  <2>1. TimeInv'
    BY <2>0 DEF ReservationInv, TimeInv
  <2>2. OwnerInv'
    BY <1>0, <2>0 DEF ReservationInv, TypeOK, OwnerInv, OrderStages,
       SymbolStages
  <2>3. ReservationSurvives'
    BY <1>0, <2>0 DEF ReservationInv, TypeOK, ReservationSurvives, Holders
  <2>4. BuysInv'
    BY <2>0 DEF ReservationInv, BuysInv, Ambiguous
  <2>5. OneBuyPerCandle'
    BY <2>0 DEF ReservationInv, OneBuyPerCandle, Ambiguous
  <2>6. UnackedInv'
    BY <1>0, <2>0 DEF ReservationInv, TypeOK, UnackedInv
  <2> QED
    BY <1>T, <1>W, <2>1, <2>2, <2>3, <2>4, <2>5, <2>6 DEF ReservationInv
<1>23. ASSUME NEW a \in Attempts, ReleaseFails(a) PROVE ReservationInv'
  <2>0. /\ stage[a] \in {"undoing", "releasing", "undoingSymbol", "releasingSymbol"}
        /\ orderClaim' \in {orderClaim, WithoutOrderKey(a)}
        /\ orderClaim' # orderClaim => stage[a] \in {"undoing", "releasing"}
        /\ symbolClaim' \in {symbolClaim, WithoutSymbolKey(a)}
        /\ \/ /\ stage' = [stage EXCEPT ![a] = "releasing"]
              /\ stranded' = stranded
           \/ /\ stage' = [stage EXCEPT ![a] = "done"]
              /\ stranded' = stranded \union {a}
        /\ UNCHANGED <<now, unknown, epoch, buys, bought, unacked, abandoned, unsaved>>
    BY <1>23 DEF ReleaseFails, Goto
  <2>a. /\ a \notin bought \union stranded /\ bought \union stranded \subseteq Attempts
        /\ \A k \in Candles : orderClaim'[k] # orderClaim[k] =>
             orderClaim[k] = a /\ orderClaim'[k] = None
        /\ symbolClaim' # symbolClaim => symbolClaim' = None
    BY <1>0, <2>0 DEF ReservationInv, TypeOK, OwnerInv, WithoutOrderKey,
       WithoutSymbolKey
  <2>1. TimeInv'
    BY <2>0 DEF ReservationInv, TimeInv
  <2>2. OwnerInv'
    <3>1. /\ \A b \in Attempts \ {a} : stage'[b] = stage[b]
          /\ \/ stage'[a] = "releasing" /\ stranded' = stranded
             \/ stage'[a] = "done" /\ stranded' = stranded \union {a}
      BY <1>0, <2>0 DEF TypeOK
    <3>2. \A b \in (bought \union stranded)' : stage'[b] = "done"
      BY <2>0, <2>a, <3>1 DEF ReservationInv, OwnerInv
    <3>3. \A b \in Attempts, k \in Candles : orderClaim'[k] = b => orderClaim[k] = b
      BY <2>a, AttemptsAssumption
    <3>4. \A b \in Attempts : symbolClaim' = b => symbolClaim = b
      BY <2>a, AttemptsAssumption
    <3>5. ASSUME NEW b \in Attempts, NEW k \in Candles, orderClaim'[k] = b
          PROVE epoch'[b] = k
                /\ (b \in (bought \union stranded)' \/ stage'[b] \in OrderStages)
      <4>1. epoch[b] = k /\ (b \in bought \union stranded \/ stage[b] \in OrderStages)
        BY <3>3, <3>5 DEF ReservationInv, OwnerInv
      <4> QED
        BY <2>0, <3>1, <4>1 DEF OrderStages
    <3>6. ASSUME NEW b \in Attempts, symbolClaim' = b
          PROVE b \in (bought \union stranded)' \/ stage'[b] \in SymbolStages
      <4>1. b \in bought \union stranded \/ stage[b] \in SymbolStages
        BY <3>4, <3>6 DEF ReservationInv, OwnerInv
      <4> QED
        BY <2>0, <3>1, <4>1 DEF SymbolStages
    <3> QED
      BY <3>2, <3>5, <3>6 DEF OwnerInv
  <2>3. ReservationSurvives'
    BY <1>0, <2>0, <2>a DEF ReservationInv, TypeOK, ReservationSurvives,
       Holders
  <2>4. BuysInv'
    BY <2>0 DEF ReservationInv, BuysInv, Ambiguous
  <2>5. OneBuyPerCandle'
    BY <2>0 DEF ReservationInv, OneBuyPerCandle, Ambiguous
  <2>6. UnackedInv'
    BY <1>0, <2>0, <2>a DEF ReservationInv, TypeOK, UnackedInv
  <2> QED
    BY <1>T, <1>W, <2>1, <2>2, <2>3, <2>4, <2>5, <2>6 DEF ReservationInv
<1>24. CASE UNCHANGED vars
  <2>1. TimeInv'
    BY <1>0, <1>24 DEF ReservationInv, TypeOK, redisVars, localVars,
       attemptVars, vars, TimeInv
  <2>2. OwnerInv'
    BY <1>24 DEF ReservationInv, redisVars, localVars, attemptVars, vars,
       OwnerInv
  <2>3. ReservationSurvives'
    BY <1>24 DEF ReservationInv, redisVars, localVars, attemptVars, vars,
       ReservationSurvives, Holders
  <2>4. BuysInv'
    BY <1>0, <1>24 DEF ReservationInv, TypeOK, redisVars, localVars,
       attemptVars, vars, BuysInv, Ambiguous, TimeInv, OwnerInv, OrderStages,
       SymbolStages
  <2>5. OneBuyPerCandle'
    BY <1>24 DEF ReservationInv, redisVars, localVars, attemptVars, vars,
       OneBuyPerCandle, Ambiguous
  <2>6. UnackedInv'
    BY <1>24 DEF ReservationInv, redisVars, localVars, attemptVars, vars,
       UnackedInv
  <2> QED
    BY <1>T, <1>W, <2>1, <2>2, <2>3, <2>4, <2>5, <2>6 DEF ReservationInv
<1> QED
  BY <1>1, <1>2, <1>3, <1>4, <1>5, <1>6, <1>7, <1>8, <1>9, <1>10, <1>11, <1>12,
     <1>13, <1>14, <1>15, <1>16, <1>17, <1>18, <1>19, <1>20, <1>21, <1>22, <1>23,
     <1>24 DEF Next

-----------------------------------------------------------------------------
\* The initial state satisfies the invariant.
LEMMA ReservationInitInv == Init => ReservationInv
<1> SUFFICES ASSUME Init PROVE ReservationInv
  OBVIOUS
<1> USE AttemptsAssumption, CandlesAssumption DEF Init, Candles
<1>1. TypeOK
  BY DEF TypeOK, Stages
<1>2. TimeInv
  BY DEF TimeInv
<1>3. OwnerInv /\ ReservationSurvives
  BY DEF OwnerInv, ReservationSurvives, Holders
<1>4. BuysInv /\ OneBuyPerCandle /\ UnackedInv
  BY DEF BuysInv, OneBuyPerCandle, UnackedInv
<1>5. WarnedInv
  BY DEF WarnedInv
<1> QED
  BY <1>1, <1>2, <1>3, <1>4, <1>5 DEF ReservationInv

\* The invariant holds in every state the engines and Redis can reach.
THEOREM ReservationInvariance == Spec => []ReservationInv
BY ReservationInitInv, ReservationStep, PTL DEF Spec

\* Every variable keeps its type, whatever the bounds.
THEOREM ReservationTypeCorrect == Spec => []TypeOK
<1>1. ReservationInv => TypeOK
  BY DEF ReservationInv
<1> QED
  BY <1>1, ReservationInvariance, PTL

\* No other attempt, expiry or crash takes a candle's reservation from the
\* attempt that holds it (release_unbought_order_claim deletes by token).
THEOREM ReservationSurvivesAlways == Spec => []ReservationSurvives
<1>1. ReservationInv => ReservationSurvives
  BY DEF ReservationInv
<1> QED
  BY <1>1, ReservationInvariance, PTL

\* Any number of engines, attempts and crashes buys at most one contract per
\* candle, those with a buy of unknown outcome excepted
\* (execute_cluster_orders).
THEOREM OneBuyPerCandleAlways == Spec => []OneBuyPerCandle
<1>1. ReservationInv => OneBuyPerCandle
  BY DEF ReservationInv
<1> QED
  BY <1>1, ReservationInvariance, PTL

\* An attempt that ended without a purchase blocks neither its candle nor its
\* symbol (the finally clause of execute_cluster_orders).
THEOREM NothingLeftReservedAlways == Spec => []NothingLeftReserved
<1>1. ReservationInv => NothingLeftReserved
  BY DEF ReservationInv, OwnerInv, NothingLeftReserved, OrderStages, SymbolStages
<1> QED
  BY <1>1, ReservationInvariance, PTL

\* A lost acknowledgement keeps new attempts out until its candle ends, also
\* when the engine crashes before the quarantine; where Redis did not take it,
\* it keeps out those of the engine that lost it, until that engine restarts
\* (quarantine_unknown_purchase).
THEOREM LostAckIsGuardedAlways == Spec => []LostAckIsGuarded
<1>1. ReservationInv => LostAckIsGuarded
  <2> SUFFICES ASSUME ReservationInv, now \in unacked, NEW i \in Instances
               PROVE \/ Guarded \/ localUnknown[i] = now
                     \/ \E a \in unsaved :
                          epoch[a] = now /\ (InstanceOf[a] # i \/ a \in forgotten)
    BY DEF LostAckIsGuarded
  <2>1. /\ now \in 1 .. MaxCandle /\ MaxCandle \in Nat
        /\ localUnknown[i] \in 0 .. MaxCandle /\ unsaved \subseteq Attempts
    BY CandlesAssumption DEF ReservationInv, TypeOK, Candles
  <2>2. CASE unknown = now
    BY <2>1, <2>2 DEF Guarded
  <2>3. CASE \E a \in Attempts : orderClaim[now] = a
    BY <2>3, AttemptsAssumption DEF Guarded
  <2>4. CASE \E a \in unsaved : epoch[a] = now
    <3> PICK a \in unsaved : epoch[a] = now
      BY <2>4
    <3>1. CASE InstanceOf[a] # i \/ a \in forgotten
      BY <3>1
    <3>2. CASE InstanceOf[a] = i /\ a \notin forgotten
      <4>1. now <= localUnknown[i] /\ localUnknown[i] <= now
        BY <2>1, <3>2 DEF ReservationInv, WarnedInv
      <4> QED
        BY <2>1, <4>1
    <3> QED
      BY <3>1, <3>2
  <2> QED
    BY <2>2, <2>3, <2>4 DEF ReservationInv, UnackedInv
<1> QED
  BY <1>1, ReservationInvariance, PTL

-----------------------------------------------------------------------------
(* RecoveryClaim *)

\* Who asks Redis, or erases, holds the engine's lock.
LocksHeld ==
  \A o \in Orders :
    \/ orderStep[o] \in {"setting", "answering", "erasing"}
    \/ contractStep[o] = "erasing"
    => claimLock[Engine(o)] = o

\* An order has no contract before it bought one, and its claim is the
\* contract's only after the bind.
StepsAgree ==
  \A o \in Orders :
    /\ orderStep[o] \in {"new", "locking", "setting", "answering", "buying"}
         => contractStep[o] = "none" /\ ~bound[o]
    /\ orderStep[o] \in {"binding", "erasing"} => ~bound[o]
    /\ contractStep[o] = "erasing" => bound[o]
    /\ ~bound[o] => localLeft[o] <= Hold

\* While an order asks, its engine has no claim.
AskersFindNone ==
  \A o, p \in Orders :
    /\ orderStep[o] \in {"setting", "answering"} /\ Engine(o) = Engine(p)
    => localLeft[p] = 0

OneClaimPerEngine ==
  \A o, p \in Orders :
    localLeft[o] > 0 /\ localLeft[p] > 0 /\ Engine(o) = Engine(p) => o = p

\* The key in Redis is that of a claim for as long as it was set to last.
KeyIsHeld ==
  /\ redisKey # NoOrder <=> keyLeft > 0
  /\ \A o \in Orders :
       (localLeft[o] > 0 \/ orderStep[o] = "answering") /\ sinceSet[o] < Hold
       => redisKey = o /\ keyLeft + sinceSet[o] = Hold

\* A claim that is released is gone, and so is one that the bind did not find.
ReleasedIsGone ==
  \A o \in Orders :
    /\ orderStep[o] = "erasing" \/ contractStep[o] = "erasing" => localLeft[o] = 0
    /\ /\ contractStep[o] # "none" /\ ~bound[o]
       /\ orderStep[o] \in {"releasing", "erasing", "done"}
       => localLeft[o] = 0

ClaimInv ==
  /\ ClaimTypeOK /\ LocksHeld /\ StepsAgree /\ AskersFindNone
  /\ OneClaimPerEngine /\ KeyIsHeld /\ ReleasedIsGone /\ SettledReleases

LEMMA EnginesOfOrders ==
  ASSUME NEW o \in Orders
  PROVE  Engine(o) \in Engines /\ o # NoOrder
BY OrdersAssumption, NoOrderAssumption DEF Engine

LEMMA ClaimInitInv == ClaimInit => ClaimInv
<1> SUFFICES ASSUME ClaimInit PROVE ClaimInv
  OBVIOUS
<1> USE HoldAssumption, EnginesOfOrders DEF ClaimInit
<1>1. ClaimTypeOK
  BY DEF ClaimTypeOK
<1>2. LocksHeld /\ StepsAgree /\ AskersFindNone
  BY DEF LocksHeld, StepsAgree, AskersFindNone
<1>3. OneClaimPerEngine /\ KeyIsHeld /\ ReleasedIsGone /\ SettledReleases
  BY DEF OneClaimPerEngine, KeyIsHeld, ReleasedIsGone, SettledReleases
<1> QED BY <1>1, <1>2, <1>3 DEF ClaimInv

(***************************************************************************)
(* Types                                                                   *)
(***************************************************************************)

LEMMA ClaimTypeStep ==
  ASSUME ClaimInv, [ClaimNext]_claimVars
  PROVE  ClaimTypeOK'
<1> USE HoldAssumption, EnginesOfOrders
    DEF ClaimInv, ClaimTypeOK, orderVars, localVarsOfClaim, keyVars, OrderTo,
        HoldLock, FreeLock
<1>1. ASSUME NEW o \in Orders, WantShare(o) \/ WantNoShare(o) \/ AskShare(o)
      PROVE  ClaimTypeOK'
  BY <1>1 DEF WantShare, WantNoShare, AskShare
<1>2. ASSUME NEW o \in Orders,
             RefusedLocally(o) \/ SetKey(o) \/ NoShare(o) \/ TakeShare(o)
      PROVE  ClaimTypeOK'
  BY <1>2 DEF RefusedLocally, SetKey, NoShare, TakeShare
<1>3. ASSUME NEW o \in Orders,
             BuyContract(o) \/ BuyNothing(o) \/ BuyUnknown(o) \/ SettleContract(o)
      PROVE  ClaimTypeOK'
  BY <1>3 DEF BuyContract, BuyNothing, BuyUnknown, SettleContract
<1>4. ASSUME NEW o \in Orders, Bind(o) PROVE ClaimTypeOK'
  <2>1. localLeft[o] <= Hold
    BY <1>4 DEF Bind, StepsAgree
  <2>2. localLeft' \in [Orders -> 0 .. 2 * Hold] /\ bound' \in [Orders -> BOOLEAN]
    <3>1. CASE localLeft[o] > 0
      <4>1. localLeft[o] + Hold \in 0 .. 2 * Hold
        BY <2>1
      <4>2. /\ localLeft' = [localLeft EXCEPT ![o] = localLeft[o] + Hold]
            /\ bound' = [bound EXCEPT ![o] = TRUE]
        BY <3>1, <1>4 DEF Bind
      <4> QED BY <4>1, <4>2
    <3>2. CASE ~(localLeft[o] > 0)
      BY <3>2, <1>4 DEF Bind
    <3> QED BY <3>1, <3>2
  <2> QED BY <2>2, <1>4 DEF Bind
<1>5. ASSUME NEW o \in Orders, ReleaseOrder(o) PROVE ClaimTypeOK'
  BY <1>5 DEF ReleaseOrder
<1>6. ASSUME NEW o \in Orders, ReleaseContract(o) PROVE ClaimTypeOK'
  BY <1>6 DEF ReleaseContract
<1>7. ASSUME NEW o \in Orders, EndRelease(o) PROVE ClaimTypeOK'
  BY <1>7 DEF EndRelease, EraseKey
<1>8. ASSUME NEW e \in Engines, RestartEngine(e) PROVE ClaimTypeOK'
  BY <1>8 DEF RestartEngine
<1>9. CASE Tick
  BY <1>9 DEF Tick
<1>10. CASE UNCHANGED claimVars
  BY <1>10 DEF claimVars
<1> QED BY <1>1, <1>2, <1>3, <1>4, <1>5, <1>6, <1>7, <1>8, <1>9, <1>10
        DEF ClaimNext, ClaimStep

(***************************************************************************)
(* Locks                                                                   *)
(***************************************************************************)

LEMMA LocksStep ==
  ASSUME ClaimInv, [ClaimNext]_claimVars
  PROVE  LocksHeld'
<1> USE EnginesOfOrders
    DEF ClaimInv, ClaimTypeOK, LocksHeld, orderVars, localVarsOfClaim, keyVars,
        OrderTo, HoldLock, FreeLock
<1>1. ASSUME NEW o \in Orders, WantShare(o) \/ WantNoShare(o) \/ AskShare(o)
      PROVE  LocksHeld'
  BY <1>1 DEF WantShare, WantNoShare, AskShare
<1>2. ASSUME NEW o \in Orders,
             RefusedLocally(o) \/ SetKey(o)
      PROVE  LocksHeld'
  BY <1>2 DEF RefusedLocally, SetKey
<1>21. ASSUME NEW o \in Orders, NoShare(o) \/ TakeShare(o)
      PROVE  LocksHeld'
  BY <1>21 DEF NoShare, TakeShare, StepsAgree
<1>3. ASSUME NEW o \in Orders,
             BuyContract(o) \/ BuyNothing(o) \/ BuyUnknown(o) \/ SettleContract(o)
      PROVE  LocksHeld'
  BY <1>3 DEF BuyContract, BuyNothing, BuyUnknown, SettleContract
<1>4. ASSUME NEW o \in Orders, Bind(o) PROVE LocksHeld'
  BY <1>4 DEF Bind
<1>5. ASSUME NEW o \in Orders, ReleaseOrder(o) PROVE LocksHeld'
  BY <1>5 DEF ReleaseOrder
<1>6. ASSUME NEW o \in Orders, ReleaseContract(o) PROVE LocksHeld'
  BY <1>6 DEF ReleaseContract
<1>7. ASSUME NEW o \in Orders, EndRelease(o) PROVE LocksHeld'
  BY <1>7 DEF EndRelease, EraseKey, StepsAgree
<1>8. ASSUME NEW e \in Engines, RestartEngine(e) PROVE LocksHeld'
  BY <1>8 DEF RestartEngine
<1>9. CASE Tick
  BY <1>9 DEF Tick
<1>10. CASE UNCHANGED claimVars
  BY <1>10 DEF claimVars
<1> QED BY <1>1, <1>2, <1>21, <1>3, <1>4, <1>5, <1>6, <1>7, <1>8, <1>9, <1>10
        DEF ClaimNext, ClaimStep

\* An order and its contract go on in order.
LEMMA StepsAgreeStep ==
  ASSUME ClaimInv, [ClaimNext]_claimVars
  PROVE  StepsAgree'
<1> USE EnginesOfOrders
    DEF ClaimInv, ClaimTypeOK, StepsAgree, orderVars, localVarsOfClaim, keyVars,
        OrderTo
<1>1. ASSUME NEW o \in Orders, WantShare(o) \/ WantNoShare(o) \/ RefusedLocally(o)
      PROVE  StepsAgree'
  BY <1>1 DEF WantShare, WantNoShare, RefusedLocally
<1>2. ASSUME NEW o \in Orders, AskShare(o) PROVE StepsAgree'
  BY <1>2 DEF AskShare
<1>3. ASSUME NEW o \in Orders, SetKey(o) PROVE StepsAgree'
  BY <1>3 DEF SetKey
<1>4. ASSUME NEW o \in Orders, NoShare(o) PROVE StepsAgree'
  BY <1>4 DEF NoShare
<1>5. ASSUME NEW o \in Orders, TakeShare(o) PROVE StepsAgree'
  BY <1>5, HoldAssumption DEF TakeShare
<1>6. ASSUME NEW o \in Orders,
             BuyContract(o) \/ BuyNothing(o) \/ BuyUnknown(o) \/ SettleContract(o)
      PROVE  StepsAgree'
  BY <1>6 DEF BuyContract, BuyNothing, BuyUnknown, SettleContract
<1>7. ASSUME NEW o \in Orders, Bind(o) PROVE StepsAgree'
  BY <1>7, HoldAssumption DEF Bind
<1>8. ASSUME NEW o \in Orders, ReleaseOrder(o) PROVE StepsAgree'
  BY <1>8, HoldAssumption DEF ReleaseOrder
<1>9. ASSUME NEW o \in Orders, ReleaseContract(o) PROVE StepsAgree'
  BY <1>9 DEF ReleaseContract
<1>10. ASSUME NEW o \in Orders, EndRelease(o) PROVE StepsAgree'
  BY <1>10 DEF EndRelease, EraseKey
<1>11. ASSUME NEW e \in Engines, RestartEngine(e) PROVE StepsAgree'
  BY <1>11, HoldAssumption DEF RestartEngine
<1>12. CASE Tick
  BY <1>12, HoldAssumption DEF Tick
<1>13. CASE UNCHANGED claimVars
  BY <1>13 DEF claimVars
<1> QED BY <1>1, <1>2, <1>3, <1>4, <1>5, <1>6, <1>7, <1>8, <1>9, <1>10, <1>11,
           <1>12, <1>13
        DEF ClaimNext, ClaimStep

\* The lock keeps every other order from claiming while one asks.
LEMMA AskersStep ==
  ASSUME ClaimInv, [ClaimNext]_claimVars
  PROVE  AskersFindNone'
<1> USE EnginesOfOrders
    DEF ClaimInv, ClaimTypeOK, AskersFindNone, orderVars, localVarsOfClaim, keyVars,
        OrderTo
<1>1. ASSUME NEW o \in Orders, WantShare(o) \/ WantNoShare(o) \/ RefusedLocally(o)
      PROVE  AskersFindNone'
  BY <1>1 DEF WantShare, WantNoShare, RefusedLocally
<1>2. ASSUME NEW o \in Orders, AskShare(o) PROVE AskersFindNone'
  BY <1>2 DEF AskShare, HoldLock, Claims
<1>3. ASSUME NEW o \in Orders, SetKey(o) PROVE AskersFindNone'
  BY <1>3 DEF SetKey
<1>4. ASSUME NEW o \in Orders, NoShare(o) PROVE AskersFindNone'
  BY <1>4 DEF NoShare
<1>5. ASSUME NEW o \in Orders, TakeShare(o) PROVE AskersFindNone'
  BY <1>5, HoldAssumption DEF TakeShare, LocksHeld
<1>6. ASSUME NEW o \in Orders,
             BuyContract(o) \/ BuyNothing(o) \/ BuyUnknown(o) \/ SettleContract(o)
      PROVE  AskersFindNone'
  BY <1>6 DEF BuyContract, BuyNothing, BuyUnknown, SettleContract
<1>7. ASSUME NEW o \in Orders, Bind(o) PROVE AskersFindNone'
  BY <1>7, HoldAssumption DEF Bind
<1>8. ASSUME NEW o \in Orders, ReleaseOrder(o) PROVE AskersFindNone'
  BY <1>8 DEF ReleaseOrder
<1>9. ASSUME NEW o \in Orders, ReleaseContract(o) PROVE AskersFindNone'
  BY <1>9 DEF ReleaseContract
<1>10. ASSUME NEW o \in Orders, EndRelease(o) PROVE AskersFindNone'
  BY <1>10 DEF EndRelease, EraseKey
<1>11. ASSUME NEW e \in Engines, RestartEngine(e) PROVE AskersFindNone'
  BY <1>11 DEF RestartEngine
<1>12. CASE Tick
  BY <1>12, HoldAssumption DEF Tick
<1>13. CASE UNCHANGED claimVars
  BY <1>13 DEF claimVars
<1> QED BY <1>1, <1>2, <1>3, <1>4, <1>5, <1>6, <1>7, <1>8, <1>9, <1>10, <1>11,
           <1>12, <1>13
        DEF ClaimNext, ClaimStep

\* A claim is made only where there was none.
LEMMA OneClaimStep ==
  ASSUME ClaimInv, [ClaimNext]_claimVars
  PROVE  OneClaimPerEngine'
<1> USE EnginesOfOrders
    DEF ClaimInv, ClaimTypeOK, OneClaimPerEngine, orderVars, localVarsOfClaim, keyVars,
        OrderTo
<1>1. ASSUME NEW o \in Orders, WantShare(o) \/ WantNoShare(o) \/ RefusedLocally(o)
      PROVE  OneClaimPerEngine'
  BY <1>1 DEF WantShare, WantNoShare, RefusedLocally
<1>2. ASSUME NEW o \in Orders, AskShare(o) PROVE OneClaimPerEngine'
  BY <1>2 DEF AskShare
<1>3. ASSUME NEW o \in Orders, SetKey(o) PROVE OneClaimPerEngine'
  BY <1>3 DEF SetKey
<1>4. ASSUME NEW o \in Orders, NoShare(o) PROVE OneClaimPerEngine'
  BY <1>4 DEF NoShare
<1>5. ASSUME NEW o \in Orders, TakeShare(o) PROVE OneClaimPerEngine'
  BY <1>5, HoldAssumption DEF TakeShare, AskersFindNone
<1>6. ASSUME NEW o \in Orders,
             BuyContract(o) \/ BuyNothing(o) \/ BuyUnknown(o) \/ SettleContract(o)
      PROVE  OneClaimPerEngine'
  BY <1>6 DEF BuyContract, BuyNothing, BuyUnknown, SettleContract
<1>7. ASSUME NEW o \in Orders, Bind(o) PROVE OneClaimPerEngine'
  BY <1>7, HoldAssumption DEF Bind
<1>8. ASSUME NEW o \in Orders, ReleaseOrder(o) PROVE OneClaimPerEngine'
  BY <1>8 DEF ReleaseOrder
<1>9. ASSUME NEW o \in Orders, ReleaseContract(o) PROVE OneClaimPerEngine'
  BY <1>9 DEF ReleaseContract
<1>10. ASSUME NEW o \in Orders, EndRelease(o) PROVE OneClaimPerEngine'
  BY <1>10 DEF EndRelease, EraseKey
<1>11. ASSUME NEW e \in Engines, RestartEngine(e) PROVE OneClaimPerEngine'
  BY <1>11 DEF RestartEngine
<1>12. CASE Tick
  BY <1>12, HoldAssumption DEF Tick
<1>13. CASE UNCHANGED claimVars
  BY <1>13 DEF claimVars
<1> QED BY <1>1, <1>2, <1>3, <1>4, <1>5, <1>6, <1>7, <1>8, <1>9, <1>10, <1>11,
           <1>12, <1>13
        DEF ClaimNext, ClaimStep

\* Nobody sets a key that is there or erases another's.
LEMMA KeyStep ==
  ASSUME ClaimInv, [ClaimNext]_claimVars
  PROVE  KeyIsHeld'
<1> USE EnginesOfOrders
    DEF ClaimInv, ClaimTypeOK, KeyIsHeld, orderVars, localVarsOfClaim, keyVars,
        OrderTo
<1>1. ASSUME NEW o \in Orders, WantShare(o) \/ WantNoShare(o) \/ RefusedLocally(o)
      PROVE  KeyIsHeld'
  BY <1>1 DEF WantShare, WantNoShare, RefusedLocally
<1>2. ASSUME NEW o \in Orders, AskShare(o) PROVE KeyIsHeld'
  BY <1>2 DEF AskShare
<1>3. ASSUME NEW o \in Orders, SetKey(o) PROVE KeyIsHeld'
  BY <1>3, HoldAssumption DEF SetKey
<1>4. ASSUME NEW o \in Orders, NoShare(o) PROVE KeyIsHeld'
  BY <1>4 DEF NoShare
<1>5. ASSUME NEW o \in Orders, TakeShare(o) PROVE KeyIsHeld'
  BY <1>5, HoldAssumption DEF TakeShare
<1>6. ASSUME NEW o \in Orders,
             BuyContract(o) \/ BuyNothing(o) \/ BuyUnknown(o) \/ SettleContract(o)
      PROVE  KeyIsHeld'
  BY <1>6 DEF BuyContract, BuyNothing, BuyUnknown, SettleContract
<1>7. ASSUME NEW o \in Orders, Bind(o) PROVE KeyIsHeld'
  BY <1>7, HoldAssumption DEF Bind
<1>8. ASSUME NEW o \in Orders, ReleaseOrder(o) PROVE KeyIsHeld'
  BY <1>8 DEF ReleaseOrder
<1>9. ASSUME NEW o \in Orders, ReleaseContract(o) PROVE KeyIsHeld'
  BY <1>9 DEF ReleaseContract
<1>10. ASSUME NEW o \in Orders, EndRelease(o) PROVE KeyIsHeld'
  BY <1>10 DEF EndRelease, EraseKey, ReleasedIsGone, StepsAgree
<1>11. ASSUME NEW e \in Engines, RestartEngine(e) PROVE KeyIsHeld'
  BY <1>11 DEF RestartEngine
<1>12. CASE Tick
  BY <1>12, HoldAssumption DEF Tick
<1>13. CASE UNCHANGED claimVars
  BY <1>13 DEF claimVars
<1> QED BY <1>1, <1>2, <1>3, <1>4, <1>5, <1>6, <1>7, <1>8, <1>9, <1>10, <1>11,
           <1>12, <1>13
        DEF ClaimNext, ClaimStep

\* A released claim is not made again.
LEMMA ReleasedStep ==
  ASSUME ClaimInv, [ClaimNext]_claimVars
  PROVE  ReleasedIsGone'
<1> USE EnginesOfOrders
    DEF ClaimInv, ClaimTypeOK, ReleasedIsGone, orderVars, localVarsOfClaim, keyVars,
        OrderTo
<1>1. ASSUME NEW o \in Orders, WantShare(o) \/ WantNoShare(o) \/ RefusedLocally(o)
      PROVE  ReleasedIsGone'
  BY <1>1 DEF WantShare, WantNoShare, RefusedLocally
<1>2. ASSUME NEW o \in Orders, AskShare(o) PROVE ReleasedIsGone'
  BY <1>2 DEF AskShare
<1>3. ASSUME NEW o \in Orders, SetKey(o) PROVE ReleasedIsGone'
  BY <1>3 DEF SetKey
<1>4. ASSUME NEW o \in Orders, NoShare(o) PROVE ReleasedIsGone'
  BY <1>4 DEF NoShare
<1>5. ASSUME NEW o \in Orders, TakeShare(o) PROVE ReleasedIsGone'
  BY <1>5, HoldAssumption DEF TakeShare, StepsAgree
<1>6. ASSUME NEW o \in Orders,
             BuyContract(o) \/ BuyNothing(o) \/ BuyUnknown(o) \/ SettleContract(o)
      PROVE  ReleasedIsGone'
  BY <1>6 DEF BuyContract, BuyNothing, BuyUnknown, SettleContract, StepsAgree
<1>7. ASSUME NEW o \in Orders, Bind(o) PROVE ReleasedIsGone'
  BY <1>7, HoldAssumption DEF Bind, StepsAgree
<1>8. ASSUME NEW o \in Orders, ReleaseOrder(o) PROVE ReleasedIsGone'
  BY <1>8 DEF ReleaseOrder, StepsAgree
<1>9. ASSUME NEW o \in Orders, ReleaseContract(o) PROVE ReleasedIsGone'
  BY <1>9 DEF ReleaseContract, StepsAgree
<1>10. ASSUME NEW o \in Orders, EndRelease(o) PROVE ReleasedIsGone'
  BY <1>10 DEF EndRelease, EraseKey, StepsAgree
<1>11. ASSUME NEW e \in Engines, RestartEngine(e) PROVE ReleasedIsGone'
  BY <1>11 DEF RestartEngine, StepsAgree
<1>12. CASE Tick
  BY <1>12, HoldAssumption DEF Tick
<1>13. CASE UNCHANGED claimVars
  BY <1>13 DEF claimVars
<1> QED BY <1>1, <1>2, <1>3, <1>4, <1>5, <1>6, <1>7, <1>8, <1>9, <1>10, <1>11,
           <1>12, <1>13
        DEF ClaimNext, ClaimStep

\* The settlement finds the claim under the contract's id, or there is none.
LEMMA SettledStep ==
  ASSUME ClaimInv, [ClaimNext]_claimVars
  PROVE  SettledReleases'
<1> USE EnginesOfOrders
    DEF ClaimInv, ClaimTypeOK, SettledReleases, orderVars, localVarsOfClaim, keyVars,
        OrderTo
<1>1. ASSUME NEW o \in Orders, WantShare(o) \/ WantNoShare(o) \/ RefusedLocally(o)
      PROVE  SettledReleases'
  BY <1>1 DEF WantShare, WantNoShare, RefusedLocally
<1>2. ASSUME NEW o \in Orders, AskShare(o) PROVE SettledReleases'
  BY <1>2 DEF AskShare
<1>3. ASSUME NEW o \in Orders, SetKey(o) PROVE SettledReleases'
  BY <1>3 DEF SetKey
<1>4. ASSUME NEW o \in Orders, NoShare(o) PROVE SettledReleases'
  BY <1>4 DEF NoShare
<1>5. ASSUME NEW o \in Orders, TakeShare(o) PROVE SettledReleases'
  BY <1>5, HoldAssumption DEF TakeShare, StepsAgree
<1>6. ASSUME NEW o \in Orders,
             BuyContract(o) \/ BuyNothing(o) \/ BuyUnknown(o) \/ SettleContract(o)
      PROVE  SettledReleases'
  BY <1>6 DEF BuyContract, BuyNothing, BuyUnknown, SettleContract
<1>7. ASSUME NEW o \in Orders, Bind(o) PROVE SettledReleases'
  BY <1>7, HoldAssumption DEF Bind
<1>8. ASSUME NEW o \in Orders, ReleaseOrder(o) PROVE SettledReleases'
  BY <1>8 DEF ReleaseOrder, StepsAgree, ReleasedIsGone
<1>9. ASSUME NEW o \in Orders, ReleaseContract(o) PROVE SettledReleases'
  BY <1>9 DEF ReleaseContract, StepsAgree, ReleasedIsGone
<1>10. ASSUME NEW o \in Orders, EndRelease(o) PROVE SettledReleases'
  BY <1>10 DEF EndRelease, EraseKey, ReleasedIsGone
<1>11. ASSUME NEW e \in Engines, RestartEngine(e) PROVE SettledReleases'
  BY <1>11 DEF RestartEngine
<1>12. CASE Tick
  BY <1>12, HoldAssumption DEF Tick
<1>13. CASE UNCHANGED claimVars
  BY <1>13 DEF claimVars
<1> QED BY <1>1, <1>2, <1>3, <1>4, <1>5, <1>6, <1>7, <1>8, <1>9, <1>10, <1>11,
           <1>12, <1>13
        DEF ClaimNext, ClaimStep

(***************************************************************************)
(* Theorems                                                                *)
(***************************************************************************)

LEMMA ClaimInvariance == ClaimSpec => []ClaimInv
<1>1. ClaimInv /\ [ClaimNext]_claimVars => ClaimInv'
  <2> SUFFICES ASSUME ClaimInv, [ClaimNext]_claimVars PROVE ClaimInv'
    OBVIOUS
  <2>1. ClaimTypeOK' /\ LocksHeld' /\ StepsAgree' /\ AskersFindNone'
    BY ClaimTypeStep, LocksStep, StepsAgreeStep, AskersStep
  <2>2. OneClaimPerEngine' /\ KeyIsHeld' /\ ReleasedIsGone' /\ SettledReleases'
    BY OneClaimStep, KeyStep, ReleasedStep, SettledStep
  <2> QED BY <2>1, <2>2 DEF ClaimInv
<1> QED BY <1>1, ClaimInitInv, PTL DEF ClaimSpec

\* Type correctness of the claims, of the engines' lock and of the key in Redis
\* (pullback_recovery_claim.py).
THEOREM ClaimTypeCorrect == ClaimSpec => []ClaimTypeOK
<1>1. ClaimInv => ClaimTypeOK
  BY DEF ClaimInv
<1> QED BY <1>1, ClaimInvariance, PTL

\* For any engines, orders and durations, two claims stand for the loss at once
\* only in two engines, and only when the key of one expired in Redis.
THEOREM ShareExclusive == ClaimSpec => []ShareIsExclusive
<1>1. ClaimInv => ShareIsExclusive
  <2> SUFFICES ASSUME ClaimInv, NEW o \in Orders, NEW p \in Orders, o # p,
                      localLeft[o] > 0, localLeft[p] > 0
               PROVE  /\ Engine(o) # Engine(p)
                      /\ sinceSet[o] = Hold \/ sinceSet[p] = Hold
    BY DEF ShareIsExclusive
  <2>1. Engine(o) # Engine(p)
    BY DEF ClaimInv, OneClaimPerEngine
  <2>2. sinceSet[o] < Hold => redisKey = o
    BY DEF ClaimInv, KeyIsHeld
  <2>3. sinceSet[p] < Hold => redisKey = p
    BY DEF ClaimInv, KeyIsHeld
  <2> QED BY <2>1, <2>2, <2>3, HoldAssumption DEF ClaimInv, ClaimTypeOK
<1> QED BY <1>1, ClaimInvariance, PTL

\* A contract that settled after its bind leaves no claim behind, whatever
\* expires, fails or restarts.
THEOREM SettledAlwaysReleases == ClaimSpec => []SettledReleases
<1>1. ClaimInv => SettledReleases
  BY DEF ClaimInv
<1> QED BY <1>1, ClaimInvariance, PTL

\* The key of a claim leaves Redis by its owner's release or its expiry only,
\* for any number of engines that release at the same time.
THEOREM ReleaseKeepsOthersAlways == ClaimSpec => ReleaseKeepsOthers
<1> DEFINE Kept == redisKey' # redisKey /\ redisKey # NoOrder =>
                     \/ keyLeft = 1 /\ Tick
                     \/ orderStep[redisKey] = "erasing"
                     \/ contractStep[redisKey] = "erasing"
<1>1. ClaimInv /\ [ClaimNext]_claimVars => Kept
  <2> SUFFICES ASSUME ClaimInv, [ClaimNext]_claimVars,
                      redisKey' # redisKey, redisKey # NoOrder
               PROVE  \/ keyLeft = 1 /\ Tick
                      \/ orderStep[redisKey] = "erasing"
                      \/ contractStep[redisKey] = "erasing"
    OBVIOUS
  <2>1. CASE Tick
    <3>1. keyLeft = 1
      BY <2>1 DEF Tick, ClaimInv, ClaimTypeOK, KeyIsHeld
    <3> QED BY <2>1, <3>1
  <2>2. ASSUME NEW o \in Orders, EndRelease(o)
        PROVE  orderStep[redisKey] = "erasing" \/ contractStep[redisKey] = "erasing"
    BY <2>2 DEF EndRelease, EraseKey
  <2>3. ASSUME NEW o \in Orders, ClaimStep(o), ~EndRelease(o) PROVE FALSE
    BY <2>3 DEF ClaimStep, WantShare, WantNoShare, AskShare, RefusedLocally, SetKey,
                NoShare, TakeShare, BuyContract, BuyNothing, BuyUnknown, Bind,
                ReleaseOrder, SettleContract, ReleaseContract, keyVars
  <2>4. ASSUME NEW e \in Engines, RestartEngine(e) PROVE FALSE
    BY <2>4 DEF RestartEngine, keyVars
  <2>5. CASE UNCHANGED claimVars
    BY <2>5 DEF claimVars, keyVars
  <2> QED BY <2>1, <2>2, <2>3, <2>4, <2>5 DEF ClaimNext
<1>2. ClaimInv /\ [ClaimNext]_claimVars => [Kept]_claimVars
  BY <1>1
<1> QED BY <1>2, ClaimInvariance, PTL DEF ClaimSpec, ReleaseKeepsOthers
=============================================================================
