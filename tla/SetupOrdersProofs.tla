------------------------- MODULE SetupOrdersProofs --------------------------
(***************************************************************************)
(* Proofs about SetupOrders for any symbols, candles and candidates.  What *)
(* is bought is what was published because a verdict never changes before  *)
(* its candle is followed by another, and neither a reading nor an order   *)
(* is of a candle that has yet to close.  A loss is answered once because  *)
(* whatever turned an order disarmed its symbol, and nothing is armed      *)
(* while a cycle has orders.                                               *)
(***************************************************************************)
EXTENDS SetupOrders, FiniteSetTheorems, SequenceTheorems, TLAPS

\* A cycle runs only with nothing open, and has an order where it uses one.
StagesAgree ==
  /\ cycle.at # "idle" => contract = NoContract
  /\ cycle.at = "idle" => cycle = NoCycle
  /\ cycle.at \in {"asked", "buying", "sending"} => cycle.orders # <<>>
  /\ cycle.at = "asked" => \A i \in DOMAIN cycle.orders : cycle.orders[i].kind = "mandatory"

\* What was read on the candle closed last is what stands there.
ReadingStands ==
  /\ cycle.epoch <= Closed
  /\ cycle.epoch = Closed =>
       \A s \in Symbols : cycle.signals[s] \in Sides => cycle.signals[s] = rows[s]

\* So is what an order was made of.
Stands(o) ==
  /\ o.epoch <= Closed
  /\ o.kind = "setup" => o.signal \in Sides
  /\ o.kind = "setup" /\ o.epoch = Closed => o.signal = rows[o.symbol]

\* An order that was turned answers a loss, and nothing else will.
Answers(o) == o.turned => o.symbol \in lossSince \ armed

OrdersStand ==
  \A i \in DOMAIN cycle.orders : Stands(cycle.orders[i]) /\ Answers(cycle.orders[i])

OneOrderPerSymbol ==
  \A i, j \in DOMAIN cycle.orders :
    cycle.orders[i].symbol = cycle.orders[j].symbol => i = j

ArmedByLoss == armed \subseteq lossSince

BoughtStands == \A p \in purchases : Stands(p.order)

SetupInv ==
  /\ SetupTypeOK /\ StagesAgree /\ ReadingStands /\ OrdersStand /\ OneOrderPerSymbol
  /\ ArmedByLoss /\ BoughtStands /\ BoughtAsPublished /\ OneReversalPerLoss

-----------------------------------------------------------------------------
(* Orders in sequence *)

\* A set is put into a sequence without repetition.
LEMMA SeqOfSet ==
  ASSUME NEW T, IsFiniteSet(T)
  PROVE  /\ SetToSeq(T) \in [1 .. Cardinality(T) -> T]
         /\ SetToSeq(T) \in Seq(T)
         /\ IsInjective(SetToSeq(T))
<1>1. Cardinality(T) \in Nat /\ ExistsBijection(1 .. Cardinality(T), T)
  BY FS_CardinalityType
<1>2. \E f \in [1 .. Cardinality(T) -> T] : IsInjective(f)
  BY <1>1 DEF ExistsBijection, Bijection, Injection
<1>3. SetToSeq(T) \in [1 .. Cardinality(T) -> T] /\ IsInjective(SetToSeq(T))
  BY <1>2 DEF SetToSeq
<1> QED BY <1>1, <1>3, SeqDef

\* So is any part of a finite set.
LEMMA PermutationOfPart ==
  ASSUME NEW T, IsFiniteSet(T), NEW q \in SetToAllKPermutations(T)
  PROVE  q \in Seq(T) /\ IsInjective(q)
<1>1. PICK S \in SUBSET T : q \in SetToSeqs(S)
  BY DEF SetToAllKPermutations
<1>2. Cardinality(S) \in Nat
  BY FS_Subset, FS_CardinalityType
<1>3. q \in [1 .. Cardinality(S) -> S] /\ IsInjective(q)
  BY <1>1 DEF SetToSeqs, IsInjective
<1>4. q \in Seq(S)
  BY <1>2, <1>3, SeqDef
<1> QED BY <1>3, <1>4, SeqMonotonic

LEMMA SequenceIsFinite ==
  ASSUME NEW S, NEW q \in Seq(S)
  PROVE  IsFiniteSet(ToSet(q)) /\ ToSet(q) \subseteq S
<1>1. Len(q) \in Nat /\ q \in [1 .. Len(q) -> S] /\ DOMAIN q = 1 .. Len(q)
  BY LenProperties
<1>2. q \in Surjection(1 .. Len(q), ToSet(q))
  BY <1>1 DEF Surjection, ToSet
<1>3. IsFiniteSet(1 .. Len(q))
  BY <1>1, FS_Interval
<1>4. IsFiniteSet(ToSet(q))
  BY <1>2, <1>3, FS_Surjection
<1> QED BY <1>1, <1>4 DEF ToSet

\* Orders taken from those the cycle has, each once.
Drawn(new) ==
  /\ new \in Seq(Candidates) /\ IsInjective(new)
  /\ \A i \in DOMAIN new : \E j \in DOMAIN cycle.orders : new[i] = cycle.orders[j]

\* What holds of the cycle's orders holds of those drawn from them.
LEMMA DrawnStand ==
  ASSUME OrdersStand, OneOrderPerSymbol, NEW new, Drawn(new)
  PROVE  /\ \A i \in DOMAIN new : Stands(new[i]) /\ Answers(new[i])
         /\ \A i, j \in DOMAIN new : new[i].symbol = new[j].symbol => i = j
<1>1. \A i \in DOMAIN new : Stands(new[i]) /\ Answers(new[i])
  BY DEF OrdersStand, Drawn
<1>2. ASSUME NEW i \in DOMAIN new, NEW j \in DOMAIN new, new[i].symbol = new[j].symbol
      PROVE  i = j
  <2>1. PICK k \in DOMAIN cycle.orders : new[i] = cycle.orders[k]
    BY DEF Drawn
  <2>2. PICK l \in DOMAIN cycle.orders : new[j] = cycle.orders[l]
    BY DEF Drawn
  <2>3. k = l
    BY <1>2, <2>1, <2>2 DEF OneOrderPerSymbol
  <2> QED BY <2>1, <2>2, <2>3 DEF Drawn, IsInjective
<1> QED BY <1>1, <1>2

LEMMA NoCycleHas ==
  /\ NoCycle \in Cycles /\ NoCycle.at = "idle" /\ NoCycle.epoch = 0
  /\ NoCycle.orders = <<>> /\ DOMAIN NoCycle.orders = {} /\ NoCycle.signals = NoVerdicts
  /\ <<>> \in Seq(Candidates)
<1>1. <<>> \in Seq(Candidates) /\ NoVerdicts \in [Symbols -> Sides \cup {"none"}]
  BY DEF NoVerdicts
<1>2. NoCycle.orders = <<>> /\ DOMAIN NoCycle.orders = {}
  BY DEF NoCycle
<1> QED BY <1>1, <1>2, SetupAssumption DEF NoCycle, Cycles, CycleStages

\* Skipping an order leaves the others, or no cycle.
LEMMA SkippedLeaves ==
  ASSUME SetupTypeOK, OneOrderPerSymbol, cycle.orders # <<>>
  PROVE  /\ Skipped \in Cycles
         /\ \/ Skipped = NoCycle
            \/ /\ Skipped.at = "buying" /\ Skipped.orders # <<>> /\ Drawn(Skipped.orders)
               /\ Skipped.epoch = cycle.epoch /\ Skipped.signals = cycle.signals
               /\ \A i \in DOMAIN Skipped.orders :
                    i + 1 \in DOMAIN cycle.orders /\ Skipped.orders[i] = cycle.orders[i + 1]
<1> DEFINE q == cycle.orders
<1>1. q \in Seq(Candidates) /\ cycle \in Cycles
  BY DEF SetupTypeOK, Cycles
<1>2. CASE Len(q) = 1
  BY <1>2, NoCycleHas DEF Skipped
<1>3. CASE Len(q) # 1
  <2>1. Len(q) \in Nat \ {0, 1} /\ DOMAIN q = 1 .. Len(q)
    BY <1>1, <1>3, EmptySeq, LenProperties
  <2>2. /\ Tail(q) \in Seq(Candidates) /\ Len(Tail(q)) = Len(q) - 1
        /\ \A i \in 1 .. Len(Tail(q)) : Tail(q)[i] = q[i + 1]
    BY <1>1, HeadTailProperties
  <2>3. DOMAIN Tail(q) = 1 .. Len(q) - 1 /\ Tail(q) # <<>>
    <3>1. DOMAIN Tail(q) = 1 .. Len(Tail(q))
      BY <2>2, LenProperties
    <3>2. Len(Tail(q)) # Len(<<>>)
      BY <2>1, <2>2, EmptySeq
    <3> QED BY <3>1, <3>2, <2>2
  <2>4. \A i \in DOMAIN Tail(q) : i + 1 \in DOMAIN q /\ Tail(q)[i] = q[i + 1]
    BY <2>1, <2>2, <2>3
  <2>5. IsInjective(Tail(q))
    BY <2>1, <2>3, <2>4 DEF IsInjective, OneOrderPerSymbol
  <2>6. Skipped = [cycle EXCEPT !.at = "buying", !.orders = Tail(q)]
    BY <1>3 DEF Skipped
  <2>7. /\ Skipped.at = "buying" /\ Skipped.orders = Tail(q) /\ Skipped \in Cycles
        /\ Skipped.epoch = cycle.epoch /\ Skipped.signals = cycle.signals
    BY <1>1, <2>2, <2>6 DEF Cycles, CycleStages
  <2> QED BY <2>2, <2>3, <2>4, <2>5, <2>7 DEF Drawn
<1> QED BY <1>2, <1>3

-----------------------------------------------------------------------------
(* The steps *)

\* The orders made of a selection: one of each symbol, at its verdict.
OrdersOf(current, turned) == {SetupOrder(s, s \in turned) : s \in current}

LEMMA SelectedOrders ==
  ASSUME SetupTypeOK, NEW current \in SUBSET Symbols, NEW turned \in SUBSET Symbols,
         \A s \in current : cycle.signals[s] \in Sides
  PROVE  /\ IsFiniteSet(OrdersOf(current, turned))
         /\ OrdersOf(current, turned) \subseteq Candidates
         /\ \A o \in OrdersOf(current, turned) :
              /\ o.symbol \in current /\ o.signal = cycle.signals[o.symbol]
              /\ o.epoch = cycle.epoch /\ o.kind = "setup"
              /\ o.turned => o.symbol \in turned
         /\ \A o, p \in OrdersOf(current, turned) : o.symbol = p.symbol => o = p
<1> DEFINE T == OrdersOf(current, turned)
           f == [s \in current |-> SetupOrder(s, s \in turned)]
<1> USE DEF OrdersOf
<1>1. IsFiniteSet(T)
  <2>1. IsFiniteSet(current)
    BY SetupAssumption, FS_Subset
  <2>2. f \in Surjection(current, T)
    BY DEF Surjection
  <2> QED BY <2>1, <2>2, FS_Surjection
<1>2. \A s \in current : SetupOrder(s, s \in turned) \in Candidates
  <2> TAKE s \in current
  <2>1. (s \in turned) \in BOOLEAN
    OBVIOUS
  <2>2. cycle.epoch \in 0 .. LastCandle
    BY DEF SetupTypeOK, Cycles
  <2> QED BY <2>1, <2>2 DEF SetupOrder, Candidates
<1>3. \A s \in current :
        LET o == SetupOrder(s, s \in turned)
        IN /\ o.symbol = s /\ o.signal = cycle.signals[s] /\ o.epoch = cycle.epoch
           /\ o.kind = "setup" /\ (o.turned => s \in turned)
  BY DEF SetupOrder
<1>4. ASSUME NEW o \in T
      PROVE  /\ o.symbol \in current /\ o \in Candidates
             /\ o = SetupOrder(o.symbol, o.symbol \in turned)
  <2>1. PICK s \in current : o = SetupOrder(s, s \in turned)
    OBVIOUS
  <2>2. o.symbol = s
    BY <1>3, <2>1
  <2> QED BY <1>2, <2>1, <2>2
<1>5. \A o, p \in T : o.symbol = p.symbol => o = p
  BY <1>4
<1>6. \A o \in T : /\ o.symbol \in current /\ o.signal = cycle.signals[o.symbol]
                   /\ o.epoch = cycle.epoch /\ o.kind = "setup"
                   /\ o.turned => o.symbol \in turned
  BY <1>3, <1>4
<1> QED BY <1>1, <1>4, <1>5, <1>6

LEMMA SetupInitInv == SetupInit => SetupInv
<1> SUFFICES ASSUME SetupInit PROVE SetupInv
  OBVIOUS
<1> USE SetupAssumption, NoCycleHas DEF SetupInit
<1>1. SetupTypeOK
  BY DEF SetupTypeOK, NoVerdicts
<1>2. ReadingStands
  BY DEF ReadingStands, Closed, NoVerdicts, Sides
<1> QED BY <1>1, <1>2
        DEF SetupInv, StagesAgree, OrdersStand, OneOrderPerSymbol, ArmedByLoss, BoughtStands,
            BoughtAsPublished, OneReversalPerLoss

\* A step of the cycle, which may disarm symbols.
LEMMA CycleStep ==
  ASSUME SetupInv, cycle' \in Cycles, StagesAgree', ReadingStands', OrdersStand',
         OneOrderPerSymbol', armed' \subseteq armed,
         UNCHANGED <<clock, indicatorVars, contract, cooldown, streak, purchases, lossSince>>
  PROVE  SetupInv'
<1> USE DEF SetupInv, indicatorVars
<1>1. SetupTypeOK'
  BY DEF SetupTypeOK
<1>2. ArmedByLoss' /\ BoughtStands' /\ BoughtAsPublished' /\ OneReversalPerLoss'
  BY DEF ArmedByLoss, BoughtStands, Stands, Closed, BoughtAsPublished, OneReversalPerLoss
<1> QED BY <1>1, <1>2

\* One that only draws from the orders it has.
LEMMA CycleOnly ==
  ASSUME SetupInv, cycle' \in Cycles, StagesAgree', ReadingStands', Drawn(cycle'.orders),
         UNCHANGED <<clock, indicatorVars, contract, lossVars, purchases, lossSince>>
  PROVE  SetupInv'
<1>1. OrdersStand' /\ OneOrderPerSymbol'
  BY DrawnStand
  DEF SetupInv, indicatorVars, lossVars, OrdersStand, OneOrderPerSymbol, Stands, Answers, Closed
<1>2. UNCHANGED <<cooldown, streak>> /\ armed' = armed
  BY DEF lossVars
<1> QED BY <1>1, <1>2, CycleStep

LEMMA DrawnBasics ==
  ASSUME SetupInv
  PROVE  /\ Drawn(<<>>) /\ Drawn(cycle.orders)
         /\ Closed \in 0 .. LastCandle /\ clock.candle \in 1 .. LastCandle
         /\ cycle \in Cycles /\ cycle.orders \in Seq(Candidates)
<1> USE SetupAssumption, NoCycleHas DEF SetupInv, SetupTypeOK, Cycles
<1>1. Drawn(<<>>)
  BY DEF Drawn, IsInjective
<1>2. Drawn(cycle.orders)
  BY DEF Drawn, IsInjective, OneOrderPerSymbol
<1>3. Closed \in 0 .. LastCandle /\ clock.candle \in 1 .. LastCandle
  BY DEF Closed
<1> QED BY <1>1, <1>2, <1>3

LEMMA StartReadingKeeps ==
  ASSUME SetupInv, StartReading, contract = NoContract,
         UNCHANGED <<clock, indicatorVars, contract, lossVars, purchases, lossSince>>
  PROVE  SetupInv'
<1> USE NoCycleHas, DrawnBasics DEF StartReading
<1>1. /\ cycle' \in Cycles /\ cycle'.at = "reading" /\ cycle'.epoch = Closed
      /\ cycle'.signals = NoVerdicts /\ cycle'.orders = <<>>
  BY DEF Cycles, CycleStages
<1>2. StagesAgree'
  BY <1>1 DEF StagesAgree
<1>3. ReadingStands'
  BY <1>1 DEF ReadingStands, NoVerdicts, Sides, Closed
<1> QED BY <1>1, <1>2, <1>3, CycleOnly

\* Whatever ends the cycle.
LEMMA EndOfCycleKeeps ==
  ASSUME SetupInv, cycle' = NoCycle,
         UNCHANGED <<clock, indicatorVars, contract, lossVars, purchases, lossSince>>
  PROVE  SetupInv'
<1>1. StagesAgree' /\ ReadingStands'
  BY NoCycleHas, DrawnBasics DEF StagesAgree, ReadingStands, NoVerdicts, Sides, Closed
<1> QED BY <1>1, NoCycleHas, DrawnBasics, CycleOnly

LEMMA ReadVerdictsKeeps ==
  ASSUME SetupInv, ReadVerdicts
  PROVE  SetupInv'
<1> USE DrawnBasics DEF ReadVerdicts
<1>1. PICK read \in RowsOf(cycle.epoch) \cup {NoVerdicts} :
        cycle' = [cycle EXCEPT
          !.at = "read", !.awaits = read[Promoted] = "none",
          !.signals = [s \in Symbols |-> IF read[s] \in Sides THEN read[s] ELSE "none"]]
  OBVIOUS
<1>2. (read[Promoted] = "none") \in BOOLEAN
  OBVIOUS
<1>3. /\ cycle' \in Cycles /\ cycle'.at = "read" /\ cycle'.epoch = cycle.epoch
      /\ cycle'.orders = cycle.orders
      /\ cycle'.signals = [s \in Symbols |-> IF read[s] \in Sides THEN read[s] ELSE "none"]
  BY <1>1, <1>2 DEF Cycles, CycleStages
<1>4. StagesAgree'
  BY <1>3 DEF SetupInv, StagesAgree
<1>5. ReadingStands'
  <2>1. ASSUME cycle.epoch = Closed, NEW s \in Symbols, cycle'.signals[s] \in Sides
        PROVE  cycle'.signals[s] = rows[s]
    <3>1. read[s] \in Sides /\ cycle'.signals[s] = read[s]
      BY <1>3, <2>1 DEF Sides
    <3>2. read # NoVerdicts
      BY <3>1 DEF NoVerdicts, Sides
    <3>3. read = rows
      BY <2>1, <3>2 DEF RowsOf
    <3> QED BY <3>1, <3>3
  <2> QED BY <1>3, <2>1 DEF ReadingStands, SetupInv, indicatorVars, Closed
<1> QED BY <1>3, <1>4, <1>5, CycleOnly

LEMMA RankKeeps ==
  ASSUME SetupInv, Rank
  PROVE  SetupInv'
<1> USE DrawnBasics DEF Rank
<1>1. PICK ranked \in SetToAllKPermutations(ToSet(cycle.orders)) :
        cycle' = [cycle EXCEPT
          !.at = IF ranked = <<>> THEN "mandatory" ELSE "buying", !.orders = ranked]
  OBVIOUS
<1>2. IsFiniteSet(ToSet(cycle.orders)) /\ ToSet(cycle.orders) \subseteq Candidates
  BY SequenceIsFinite
<1>3. ranked \in Seq(ToSet(cycle.orders)) /\ IsInjective(ranked)
  BY <1>2, PermutationOfPart
<1>4. ranked \in Seq(Candidates)
  BY <1>2, <1>3, SeqMonotonic
<1>5. Drawn(ranked)
  <2>1. \A i \in DOMAIN ranked : ranked[i] \in ToSet(cycle.orders)
    BY <1>3, LenProperties
  <2> QED BY <1>3, <1>4, <2>1 DEF Drawn, ToSet
<1>6. /\ cycle' \in Cycles /\ cycle'.orders = ranked /\ cycle'.epoch = cycle.epoch
      /\ cycle'.signals = cycle.signals
      /\ cycle'.at = IF ranked = <<>> THEN "mandatory" ELSE "buying"
  <2> DEFINE at == IF ranked = <<>> THEN "mandatory" ELSE "buying"
  <2>1. at \in CycleStages
    BY DEF CycleStages
  <2>2. cycle' = [cycle EXCEPT !.at = at, !.orders = ranked]
    BY <1>1
  <2> HIDE DEF at
  <2>3. /\ cycle' \in Cycles /\ cycle'.orders = ranked /\ cycle'.epoch = cycle.epoch
        /\ cycle'.signals = cycle.signals /\ cycle'.at = at
    BY <1>4, <2>1, <2>2 DEF Cycles
  <2> QED BY <2>3 DEF at
<1>7. StagesAgree' /\ ReadingStands'
  BY <1>6 DEF SetupInv, StagesAgree, ReadingStands, Closed, indicatorVars
<1> QED BY <1>5, <1>6, <1>7, CycleOnly

LEMMA SelectKeeps ==
  ASSUME SetupInv, Select
  PROVE  SetupInv'
<1> USE DrawnBasics, NoCycleHas
<1>1. PICK admitted \in SUBSET Symbols :
        LET chosen == {s \in admitted : /\ cycle.signals[s] \in Sides /\ s # contract.symbol
                                        /\ s \in armed \/ ~Resting(s)}
            current == IF Current(cycle.epoch) THEN chosen ELSE {}
        IN \E flipped \in SUBSET chosen :
             /\ armed' = armed \ flipped
             /\ cycle' = [NoCycle EXCEPT
                  !.at = IF current = {} THEN "mandatory" ELSE "quoting",
                  !.orders = SetToSeq({SetupOrder(s, s \in flipped \cap armed) : s \in current})]
  BY DEF Select
<1> DEFINE chosen == {s \in admitted : /\ cycle.signals[s] \in Sides /\ s # contract.symbol
                                       /\ s \in armed \/ ~Resting(s)}
           current == IF Current(cycle.epoch) THEN chosen ELSE {}
<1>2. PICK flipped \in SUBSET chosen :
             /\ armed' = armed \ flipped
             /\ cycle' = [NoCycle EXCEPT
                  !.at = IF current = {} THEN "mandatory" ELSE "quoting",
                  !.orders = SetToSeq({SetupOrder(s, s \in flipped \cap armed) : s \in current})]
  BY <1>1
<1> DEFINE turned == flipped \cap armed
           T == OrdersOf(current, turned)
           at == IF current = {} THEN "mandatory" ELSE "quoting"
           q == SetToSeq(T)
<1>3. /\ current \in SUBSET Symbols /\ turned \in SUBSET Symbols
      /\ \A s \in current : cycle.signals[s] \in Sides
  BY DEF SetupInv, SetupTypeOK
<1>4. at \in {"mandatory", "quoting"}
  OBVIOUS
<1>5. cycle' = [NoCycle EXCEPT !.at = at, !.orders = q] /\ armed' = armed \ flipped
  BY <1>2 DEF OrdersOf
<1>6. turned \subseteq armed /\ turned \cap (armed \ flipped) = {}
  OBVIOUS
<1> HIDE DEF current, turned, at
<1>7. /\ IsFiniteSet(T) /\ T \subseteq Candidates
      /\ \A o \in T : /\ o.symbol \in current /\ o.signal = cycle.signals[o.symbol]
                      /\ o.epoch = cycle.epoch /\ o.kind = "setup"
                      /\ o.turned => o.symbol \in turned
      /\ \A o, p \in T : o.symbol = p.symbol => o = p
  BY <1>3, SelectedOrders DEF SetupInv
<1> HIDE DEF T
<1>8. q \in Seq(T) /\ IsInjective(q) /\ q \in Seq(Candidates)
  BY <1>7, SeqOfSet, SeqMonotonic
<1>9. \A i \in DOMAIN q : q[i] \in T
  BY <1>8, LenProperties
<1> HIDE DEF q
<1>10. /\ cycle' \in Cycles /\ cycle'.orders = q /\ cycle'.epoch = 0
       /\ cycle'.signals = NoVerdicts /\ cycle'.at \in {"mandatory", "quoting"}
  BY <1>4, <1>5, <1>8 DEF Cycles, CycleStages
<1>11. StagesAgree'
  BY <1>10 DEF SetupInv, StagesAgree, Select
<1>12. ReadingStands'
  BY <1>10 DEF ReadingStands, NoVerdicts, Sides, Closed, Select
<1>13. OrdersStand'
  <2>1. ASSUME NEW o \in T PROVE Stands(o)' /\ Answers(o)'
    <3>1. o.symbol \in Symbols
      BY <1>3, <1>7
    <3>2. Stands(o)
      BY <1>3, <1>7, <3>1 DEF Stands, SetupInv, ReadingStands
    <3>3. o.turned => o.symbol \in lossSince \ armed'
      BY <1>5, <1>6, <1>7 DEF SetupInv, ArmedByLoss
    <3> QED BY <3>2, <3>3 DEF Stands, Answers, Closed, Select, indicatorVars
  <2> QED BY <1>9, <1>10, <2>1 DEF OrdersStand
<1>14. OneOrderPerSymbol'
  BY <1>7, <1>8, <1>9, <1>10 DEF OneOrderPerSymbol, IsInjective
<1> QED BY <1>5, <1>10, <1>11, <1>12, <1>13, <1>14, CycleStep DEF Select

LEMMA AskMandatoryKeeps ==
  ASSUME SetupInv, NEW s \in Symbols, AskMandatory(s)
  PROVE  SetupInv'
<1> USE DrawnBasics
<1>1. PICK flipped \in SUBSET {s} :
       /\ armed' = armed \ flipped
       /\ cycle' = [cycle EXCEPT !.at = "asked", !.tried = @ \cup {s},
                                 !.orders = <<MandatoryOrder(s, s \in flipped \cap armed)>>]
  BY DEF AskMandatory
<1>2. PICK o : o = MandatoryOrder(s, s \in flipped \cap armed)
  OBVIOUS
<1>3. /\ o \in Candidates /\ o.symbol = s /\ o.kind = "mandatory" /\ o.epoch = 0
      /\ o.turned => s \in flipped \cap armed
  <2>1. (s \in flipped \cap armed) \in BOOLEAN
    OBVIOUS
  <2>2. o \in Candidates
    BY <1>2, <2>1, SetupAssumption DEF MandatoryOrder, Candidates
  <2> QED BY <1>2, <2>2 DEF MandatoryOrder
<1>4. cycle' = [cycle EXCEPT !.at = "asked", !.tried = cycle.tried \cup {s}, !.orders = <<o>>]
  BY <1>1, <1>2
<1>5. <<o>> \in Seq(Candidates) /\ DOMAIN <<o>> = {1} /\ <<o>>[1] = o /\ <<o>> # <<>>
  BY <1>3
<1>6. /\ cycle' \in Cycles /\ cycle'.orders = <<o>> /\ cycle'.epoch = cycle.epoch
      /\ cycle'.signals = cycle.signals /\ cycle'.at = "asked"
  BY <1>4, <1>5 DEF Cycles, CycleStages
<1>7. StagesAgree'
  BY <1>3, <1>5, <1>6 DEF SetupInv, StagesAgree, AskMandatory
<1>8. ReadingStands'
  BY <1>6 DEF SetupInv, ReadingStands, Closed, AskMandatory, indicatorVars
<1>9. OrdersStand' /\ OneOrderPerSymbol'
  <2>1. Stands(o)' /\ Answers(o)'
    BY <1>1, <1>3 DEF SetupInv, Stands, Answers, Closed, AskMandatory, indicatorVars, ArmedByLoss
  <2> QED BY <1>5, <1>6, <2>1 DEF OrdersStand, OneOrderPerSymbol
<1> QED BY <1>1, <1>6, <1>7, <1>8, <1>9, CycleStep DEF AskMandatory

LEMMA MandatoryQuotedKeeps ==
  ASSUME SetupInv, MandatoryQuoted
  PROVE  SetupInv'
<1> USE DrawnBasics, NoCycleHas
<1>1. ASSUME cycle' = [NoCycle EXCEPT
        !.at = "buying", !.orders = <<[cycle.orders[1] EXCEPT !.epoch = Closed]>>]
      PROVE SetupInv'
  <2>0. PICK o : o = [cycle.orders[1] EXCEPT !.epoch = Closed]
    OBVIOUS
  <2>1. cycle.orders # <<>> /\ 1 \in DOMAIN cycle.orders /\ cycle.orders[1] \in Candidates
    BY EmptySeq, LenProperties DEF SetupInv, StagesAgree, MandatoryQuoted
  <2>2. /\ o \in Candidates /\ o.symbol = cycle.orders[1].symbol /\ o.epoch = Closed
        /\ o.turned = cycle.orders[1].turned /\ o.kind = "mandatory"
    BY <2>0, <2>1 DEF Candidates, SetupInv, StagesAgree, MandatoryQuoted
  <2>3. cycle' = [NoCycle EXCEPT !.at = "buying", !.orders = <<o>>]
    BY <1>1, <2>0
  <2>4. <<o>> \in Seq(Candidates) /\ DOMAIN <<o>> = {1} /\ <<o>>[1] = o /\ <<o>> # <<>>
    BY <2>2
  <2>5. /\ cycle' \in Cycles /\ cycle'.orders = <<o>> /\ cycle'.epoch = 0
        /\ cycle'.signals = NoVerdicts /\ cycle'.at = "buying"
    BY <2>3, <2>4 DEF Cycles, CycleStages
  <2>6. StagesAgree'
    BY <2>4, <2>5 DEF SetupInv, StagesAgree, MandatoryQuoted
  <2>7. ReadingStands'
    BY <2>5 DEF ReadingStands, NoVerdicts, Sides, Closed, MandatoryQuoted
  <2>8. OrdersStand' /\ OneOrderPerSymbol'
    <3>1. Stands(o)' /\ Answers(o)'
      BY <2>1, <2>2
      DEF SetupInv, OrdersStand, Stands, Answers, Closed, MandatoryQuoted, indicatorVars, lossVars
    <3> QED BY <2>4, <2>5, <3>1 DEF OrdersStand, OneOrderPerSymbol
  <2> QED BY <2>5, <2>6, <2>7, <2>8, CycleStep DEF MandatoryQuoted, lossVars
<1>2. ASSUME cycle' = [cycle EXCEPT !.at = "mandatory", !.orders = <<>>]
      PROVE  SetupInv'
  <2>1. /\ cycle' \in Cycles /\ cycle'.orders = <<>> /\ cycle'.epoch = cycle.epoch
        /\ cycle'.signals = cycle.signals /\ cycle'.at = "mandatory"
    BY <1>2 DEF Cycles, CycleStages
  <2>2. StagesAgree' /\ ReadingStands'
    BY <2>1 DEF SetupInv, StagesAgree, ReadingStands, Closed, MandatoryQuoted, indicatorVars
  <2> QED BY <2>1, <2>2, CycleOnly DEF MandatoryQuoted
<1> QED BY <1>1, <1>2, EndOfCycleKeeps DEF MandatoryQuoted

LEMMA SkippedKeeps ==
  ASSUME SetupInv, cycle.at \in {"buying", "sending"}, cycle' = Skipped,
         UNCHANGED <<clock, indicatorVars, contract, lossVars, purchases, lossSince>>
  PROVE  SetupInv'
<1>1. /\ Skipped \in Cycles
      /\ \/ Skipped = NoCycle
         \/ /\ Skipped.at = "buying" /\ Skipped.orders # <<>> /\ Drawn(Skipped.orders)
            /\ Skipped.epoch = cycle.epoch /\ Skipped.signals = cycle.signals
  BY SkippedLeaves DEF SetupInv, StagesAgree
<1>2. CASE Skipped = NoCycle
  BY <1>2, EndOfCycleKeeps
<1>3. CASE Skipped # NoCycle
  <2>1. StagesAgree' /\ ReadingStands'
    BY <1>1, <1>3 DEF SetupInv, StagesAgree, ReadingStands, Closed, indicatorVars
  <2> QED BY <1>1, <1>3, <2>1, CycleOnly
<1> QED BY <1>2, <1>3

LEMMA TakeOrderKeeps ==
  ASSUME SetupInv, TakeOrder
  PROVE  SetupInv'
<1>1. ASSUME cycle' = [cycle EXCEPT !.at = "sending"] PROVE SetupInv'
  <2>1. /\ cycle' \in Cycles /\ cycle'.at = "sending" /\ cycle'.orders = cycle.orders
        /\ cycle'.epoch = cycle.epoch /\ cycle'.signals = cycle.signals
    BY <1>1, DrawnBasics DEF Cycles, CycleStages
  <2>2. StagesAgree' /\ ReadingStands'
    BY <2>1 DEF SetupInv, StagesAgree, ReadingStands, Closed, indicatorVars, TakeOrder
  <2> QED BY <2>1, <2>2, DrawnBasics, CycleOnly DEF TakeOrder
<1> QED BY <1>1, SkippedKeeps DEF TakeOrder

\* What is sold is the first order, a current one, and the loss that turned
\* it was owed.
LEMMA SoldIs ==
  ASSUME SetupInv, Sold(cycle.orders[1])
  PROVE  LET o == cycle.orders[1]
         IN /\ 1 \in DOMAIN cycle.orders /\ o \in Candidates /\ Stands(o) /\ Answers(o)
            /\ o.epoch = Closed
            /\ purchases' \subseteq [order : Candidates, owed : BOOLEAN]
            /\ \A p \in purchases' : p.order = o /\ (o.turned => p.owed)
            /\ lossSince' = IF o.turned THEN lossSince \ {o.symbol} ELSE lossSince
            /\ cycle.at = "sending"
<1> USE DrawnBasics DEF Sold
<1>1. 1 \in DOMAIN cycle.orders /\ cycle.orders[1] \in Candidates
  BY EmptySeq, LenProperties DEF SetupInv, StagesAgree
<1>2. Stands(cycle.orders[1]) /\ Answers(cycle.orders[1])
  BY <1>1 DEF SetupInv, OrdersStand
<1>3. PICK o, owed : /\ o = cycle.orders[1] /\ owed = (o.symbol \in lossSince)
                     /\ purchases' = {[order |-> o, owed |-> owed]}
  OBVIOUS
<1>4. purchases' \subseteq [order : Candidates, owed : BOOLEAN]
  <2>1. owed \in BOOLEAN
    BY <1>3
  <2> QED BY <1>1, <1>3, <2>1
<1>5. \A p \in purchases' :
        p.order = cycle.orders[1] /\ (cycle.orders[1].turned => p.owed)
  <2>1. o.turned => owed
    BY <1>2, <1>3 DEF Answers
  <2>2. \A p \in purchases' : p.order = o /\ p.owed = owed
    BY <1>3
  <2> QED BY <1>3, <2>1, <2>2, Zenon
<1> QED BY <1>1, <1>2, <1>4, <1>5 DEF Buyable

LEMMA SaleStands ==
  ASSUME SetupInv, Sold(cycle.orders[1]), UNCHANGED <<clock, indicatorVars, lossVars>>
  PROVE  /\ ArmedByLoss' /\ BoughtStands' /\ BoughtAsPublished' /\ OneReversalPerLoss'
         /\ lossSince' \subseteq Symbols
<1> USE SoldIs DEF indicatorVars, lossVars
<1>1. ArmedByLoss' /\ lossSince' \subseteq Symbols
  BY DEF ArmedByLoss, Answers, SetupInv, SetupTypeOK
<1>2. BoughtStands' /\ BoughtAsPublished' /\ OneReversalPerLoss'
  BY DEF BoughtStands, BoughtAsPublished, OneReversalPerLoss, Stands, Closed
<1> QED BY <1>1, <1>2

LEMMA BuyKeeps ==
  ASSUME SetupInv, Buy(cycle.orders[1])
  PROVE  SetupInv'
<1> USE NoCycleHas, DrawnBasics DEF Buy
<1>1. /\ ArmedByLoss' /\ BoughtStands' /\ BoughtAsPublished' /\ OneReversalPerLoss'
      /\ lossSince' \subseteq Symbols
  BY SaleStands
<1>2. contract' \in [symbol : Symbols, candle : 1 .. LastCandle]
  BY SoldIs DEF Candidates
<1>3. SetupTypeOK'
  BY <1>1, <1>2, SoldIs DEF SetupInv, SetupTypeOK, indicatorVars, lossVars
<1>4. StagesAgree' /\ OrdersStand' /\ OneOrderPerSymbol'
  BY DEF StagesAgree, OrdersStand, OneOrderPerSymbol
<1>5. ReadingStands'
  BY DEF ReadingStands, NoVerdicts, Sides, Closed
<1> QED BY <1>1, <1>3, <1>4, <1>5 DEF SetupInv

LEMMA BuyUnheardKeeps ==
  ASSUME SetupInv, BuyUnheard(cycle.orders[1])
  PROVE  SetupInv'
<1> USE NoCycleHas, DrawnBasics DEF BuyUnheard
<1>1. /\ ArmedByLoss' /\ BoughtStands' /\ BoughtAsPublished' /\ OneReversalPerLoss'
      /\ lossSince' \subseteq Symbols
  BY SaleStands
<1>2. /\ Skipped \in Cycles
      /\ \/ Skipped = NoCycle
         \/ /\ Skipped.at = "buying" /\ Skipped.orders # <<>> /\ Drawn(Skipped.orders)
            /\ Skipped.epoch = cycle.epoch /\ Skipped.signals = cycle.signals
            /\ \A i \in DOMAIN Skipped.orders :
                 i + 1 \in DOMAIN cycle.orders /\ Skipped.orders[i] = cycle.orders[i + 1]
  BY SkippedLeaves, SoldIs DEF SetupInv, StagesAgree
<1>3. SetupTypeOK'
  BY <1>1, <1>2, SoldIs DEF SetupInv, SetupTypeOK, indicatorVars, lossVars
<1>4. CASE Skipped = NoCycle
  <2>1. StagesAgree' /\ OrdersStand' /\ OneOrderPerSymbol'
    BY <1>4 DEF StagesAgree, OrdersStand, OneOrderPerSymbol
  <2>2. ReadingStands'
    BY <1>4 DEF ReadingStands, NoVerdicts, Sides, Closed
  <2> QED BY <1>1, <1>3, <2>1, <2>2 DEF SetupInv
<1>5. CASE Skipped # NoCycle
  <2>1. StagesAgree' /\ ReadingStands'
    <3>1. contract' = NoContract
      BY SoldIs DEF SetupInv, StagesAgree
    <3> QED BY <1>2, <1>5, <3>1 DEF SetupInv, StagesAgree, ReadingStands, Closed, indicatorVars
  <2>2. /\ \A i \in DOMAIN cycle'.orders : Stands(cycle'.orders[i]) /\ Answers(cycle'.orders[i])
        /\ OneOrderPerSymbol'
    BY <1>2, <1>5, DrawnStand DEF SetupInv, OneOrderPerSymbol
  <2>3. \A i \in DOMAIN cycle'.orders : cycle'.orders[i].symbol # cycle.orders[1].symbol
    <3> TAKE i \in DOMAIN cycle'.orders
    <3>1. i + 1 \in DOMAIN cycle.orders /\ cycle'.orders[i] = cycle.orders[i + 1]
      BY <1>2, <1>5
    <3>2. i \in Nat \ {0}
      <4>1. Skipped.orders \in Seq(Candidates)
        BY <1>2, <1>5 DEF Drawn
      <4>2. DOMAIN Skipped.orders = 1 .. Len(Skipped.orders) /\ Len(Skipped.orders) \in Nat
        BY <4>1, LenProperties
      <4> QED BY <4>2
    <3> QED BY <3>1, <3>2, SoldIs DEF SetupInv, OneOrderPerSymbol
  <2>4. OrdersStand'
    BY <2>2, <2>3, SoldIs DEF OrdersStand, Stands, Answers, Closed, indicatorVars, lossVars
  <2> QED BY <1>1, <1>3, <2>1, <2>2, <2>4 DEF SetupInv
<1> QED BY <1>4, <1>5

LEMMA ContractSettlesKeeps ==
  ASSUME SetupInv, NEW won \in BOOLEAN, ContractSettles(won)
  PROVE  SetupInv'
<1> DEFINE s == contract.symbol
<1> USE NoCycleHas, DrawnBasics DEF ContractSettles
<1>1. s \in Symbols /\ cycle = NoCycle
  BY DEF SetupInv, SetupTypeOK, StagesAgree
<1>2. /\ armed' \subseteq Symbols /\ streak' \subseteq Symbols /\ lossSince' \subseteq Symbols
      /\ cooldown' \in [Symbols -> Nat]
  <2>1. clock.candle + 1 \in Nat /\ clock.candle + 0 \in Nat
    BY SetupAssumption
  <2>2. CASE won
    BY <1>1, <2>2 DEF SetupInv, SetupTypeOK, ArmedAfter
  <2>3. CASE ~won
    BY <1>1, <2>1, <2>3 DEF SetupInv, SetupTypeOK, ArmedAfter
  <2> QED BY <2>2, <2>3
<1>3. SetupTypeOK'
  BY <1>2 DEF SetupInv, SetupTypeOK, indicatorVars
<1>4. StagesAgree' /\ OrdersStand' /\ OneOrderPerSymbol' /\ ReadingStands'
  BY <1>1 DEF SetupInv, StagesAgree, OrdersStand, OneOrderPerSymbol, ReadingStands, Closed,
              indicatorVars
<1>5. ArmedByLoss'
  BY DEF SetupInv, ArmedByLoss, ArmedAfter
<1>6. BoughtStands' /\ BoughtAsPublished' /\ OneReversalPerLoss'
  BY DEF SetupInv, BoughtStands, BoughtAsPublished, OneReversalPerLoss, Stands, Closed,
         indicatorVars
<1> QED BY <1>3, <1>4, <1>5, <1>6 DEF SetupInv

LEMMA TimePassesKeeps ==
  ASSUME SetupInv, TimePasses
  PROVE  SetupInv'
<1> USE DEF TimePasses, SetupInv, indicatorVars, lossVars
<1>1. clock' \in [candle : 1 .. LastCandle, part : {"start", "open", "shut", "last"}]
      /\ clock'.candle = clock.candle
  BY DEF SetupTypeOK, NextPart
<1>2. SetupTypeOK'
  BY <1>1 DEF SetupTypeOK
<1> QED BY <1>1, <1>2
        DEF StagesAgree, ReadingStands, OrdersStand, OneOrderPerSymbol, ArmedByLoss,
            BoughtStands, Stands, Answers, Closed, BoughtAsPublished, OneReversalPerLoss

\* What was read or bought is now of an older candle.
LEMMA CandleClosesKeeps ==
  ASSUME SetupInv, CandleCloses
  PROVE  SetupInv'
<1> USE DrawnBasics, SetupAssumption DEF CandleCloses, SetupInv, lossVars
<1>1. /\ clock' \in [candle : 1 .. LastCandle, part : {"start", "open", "shut", "last"}]
      /\ clock'.candle = clock.candle + 1 /\ Closed' = Closed + 1
  BY DEF Closed
<1>2. rows' \in [Symbols -> Verdicts \cup {"none"}]
  BY DEF NoVerdicts
<1>3. SetupTypeOK'
  BY <1>1, <1>2 DEF SetupTypeOK
<1>4. ReadingStands'
  BY <1>1 DEF ReadingStands, SetupTypeOK, Cycles
<1>5. OrdersStand'
  <2>1. ASSUME NEW i \in DOMAIN cycle.orders
        PROVE  Stands(cycle.orders[i])' /\ Answers(cycle.orders[i])'
    <3>1. Stands(cycle.orders[i]) /\ Answers(cycle.orders[i]) /\ cycle.orders[i] \in Candidates
      BY LenProperties DEF OrdersStand
    <3>2. cycle.orders[i].epoch \in 0 .. LastCandle
      BY <3>1 DEF Candidates
    <3> QED BY <1>1, <3>1, <3>2 DEF Stands, Answers
  <2> QED BY <2>1 DEF OrdersStand
<1> QED BY <1>1, <1>3, <1>4, <1>5
        DEF StagesAgree, OneOrderPerSymbol, ArmedByLoss, BoughtStands, BoughtAsPublished,
            OneReversalPerLoss

\* A verdict that was stored stays.
LEMMA ObserveKeeps ==
  ASSUME SetupInv, NEW s \in Symbols, Observe(s)
  PROVE  SetupInv'
<1> USE DEF Observe, SetupInv, lossVars
<1>1. rows' \in [Symbols -> Verdicts \cup {"none"}]
  BY DEF SetupTypeOK, RowStored
<1>2. ASSUME NEW r \in Symbols, rows[r] \in Sides PROVE rows'[r] = rows[r]
  BY <1>2 DEF SetupTypeOK, RowStored, Sides
<1>3. SetupTypeOK'
  BY <1>1 DEF SetupTypeOK
<1>4. ReadingStands'
  <2>1. ASSUME NEW r \in Symbols, cycle.epoch = Closed, cycle.signals[r] \in Sides
        PROVE  cycle.signals[r] = rows'[r]
    BY <1>2, <2>1 DEF ReadingStands
  <2> QED BY <2>1 DEF ReadingStands, Closed
<1>5. ASSUME NEW o \in Candidates, Stands(o) PROVE Stands(o)'
  <2>1. o.symbol \in Symbols
    BY DEF Candidates
  <2> QED BY <1>2, <1>5, <2>1 DEF Stands, Closed
<1>6. OrdersStand'
  <2>1. \A i \in DOMAIN cycle.orders : cycle.orders[i] \in Candidates
    BY DrawnBasics, LenProperties
  <2> QED BY <1>5, <2>1 DEF OrdersStand, Answers
<1>7. BoughtStands' /\ BoughtAsPublished'
  <2>1. \A p \in purchases : p.order \in Candidates
    BY DEF SetupTypeOK
  <2>2. \A p \in purchases : Stands(p.order)'
    BY <1>5, <2>1 DEF BoughtStands
  <2>3. BoughtStands'
    BY <2>2 DEF BoughtStands
  <2> QED BY <2>2, <2>3 DEF BoughtAsPublished, Stands, Closed
<1> QED BY <1>3, <1>4, <1>6, <1>7
        DEF StagesAgree, OneOrderPerSymbol, ArmedByLoss, OneReversalPerLoss

LEMMA SetupStep ==
  ASSUME SetupInv, [SetupNext]_setupVars
  PROVE  SetupInv'
<1>1. CASE TimePasses
  BY <1>1, TimePassesKeeps
<1>2. CASE CandleCloses
  BY <1>2, CandleClosesKeeps
<1>3. ASSUME NEW s \in Symbols, Observe(s) PROVE SetupInv'
  BY <1>3, ObserveKeeps
<1>4. CASE RestartIndicator
  BY <1>4
  DEF RestartIndicator, SetupInv, SetupTypeOK, StagesAgree, ReadingStands, OrdersStand,
      OneOrderPerSymbol, ArmedByLoss, BoughtStands, Stands, Answers, Closed, BoughtAsPublished,
      OneReversalPerLoss, lossVars
<1>5. CASE StartCycle
  BY <1>5, StartReadingKeeps DEF StartCycle
<1>6. CASE ReadVerdicts
  BY <1>6, ReadVerdictsKeeps
<1>7. CASE ReadAgain
  BY <1>7, StartReadingKeeps DEF ReadAgain, SetupInv, StagesAgree
<1>8. CASE Select
  BY <1>8, SelectKeeps
<1>9. CASE Rank
  BY <1>9, RankKeeps
<1>10. ASSUME NEW s \in Symbols, AskMandatory(s) PROVE SetupInv'
  BY <1>10, AskMandatoryKeeps
<1>11. CASE TooPoor
  BY <1>11, EndOfCycleKeeps DEF TooPoor
<1>12. CASE MandatoryQuoted
  BY <1>12, MandatoryQuotedKeeps
<1>13. CASE TakeOrder
  BY <1>13, TakeOrderKeeps
<1>14. CASE Refused
  BY <1>14, SkippedKeeps DEF Refused
<1>15. CASE Buy(cycle.orders[1])
  BY <1>15, BuyKeeps
<1>16. CASE BuyUnheard(cycle.orders[1])
  BY <1>16, BuyUnheardKeeps
<1>17. ASSUME NEW won \in BOOLEAN, ContractSettles(won) PROVE SetupInv'
  BY <1>17, ContractSettlesKeeps
<1>18. CASE UNCHANGED setupVars
  BY <1>18
  DEF setupVars, SetupInv, SetupTypeOK, StagesAgree, ReadingStands, OrdersStand,
      OneOrderPerSymbol, ArmedByLoss, BoughtStands, Stands, Answers, Closed, BoughtAsPublished,
      OneReversalPerLoss
<1> QED BY <1>1, <1>2, <1>3, <1>4, <1>5, <1>6, <1>7, <1>8, <1>9, <1>10, <1>11, <1>12, <1>13,
           <1>14, <1>15, <1>16, <1>17, <1>18
        DEF SetupNext

-----------------------------------------------------------------------------
LEMMA SetupInvariance == SetupSpec => []SetupInv
<1>1. SetupInv /\ [SetupNext]_setupVars => SetupInv'
  BY SetupStep
<1> QED BY SetupInitInv, <1>1, PTL DEF SetupSpec

\* Whatever the symbols, the candles and the number of candidates, every
\* variable of the way from a verdict to a purchase keeps its type.
THEOREM SetupTypeCorrect == SetupSpec => []SetupTypeOK
<1>1. SetupInv => SetupTypeOK
  BY DEF SetupInv
<1> QED BY SetupInvariance, <1>1, PTL

\* A setup is bought only in the minute after its candle, on the verdict that
\* stands in the database, for any symbols and candles (save_setup,
\* refresh_indicator_consensus, require_current_signal_candle).
THEOREM AlwaysBoughtAsPublished == SetupSpec => []BoughtAsPublished
<1>1. SetupInv => BoughtAsPublished
  BY DEF SetupInv
<1> QED BY SetupInvariance, <1>1, PTL

\* A purchase turned against its signal answers a loss that no other purchase
\* answered, for any symbols, candidates and lost answers
\* (resolve_telemetry_side, handle_settlement_loss_quarantine).
THEOREM OneReversalPerLossAlways == SetupSpec => []OneReversalPerLoss
<1>1. SetupInv => OneReversalPerLoss
  BY DEF SetupInv
<1> QED BY SetupInvariance, <1>1, PTL
=============================================================================
