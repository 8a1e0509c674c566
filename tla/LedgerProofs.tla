---------------------------- MODULE LedgerProofs ----------------------------
(***************************************************************************)
(* Proofs about what a session owes (RiskLedger) and about its copies in   *)
(* memory and in Redis (SessionLedger), for any contracts, outages, stakes *)
(* and rates.  A result survives a restore because every ledger that is    *)
(* being written, is stored or was loaded has it, or its loss is noted.    *)
(***************************************************************************)
EXTENDS SessionLedger, RiskLedger, TLAPS

-----------------------------------------------------------------------------
(* SessionLedger *)

\* The ledger l has the result of c.
Has(l, c) == c \in l.profit /\ c \in l.pending /\ c \in l.linear

Writing(w) ==
  \/ w = "settler" /\ settler = "writing"
  \/ w = "main" /\ main = "writing"

\* Whoever books or saves has the state lock, and what is booked next was not.
WritersLock ==
  /\ settler \in {"booked", "writing"} => stateLock = "settler"
  /\ main = "writing" => stateLock = "main"
  /\ settler = "started" => hand \in due \ booked

\* Every copy has the results that no restore endangered.
CopiesHave ==
  \A c \in booked \ exposed :
    /\ \A w \in Writers : Writing(w) => Has(captured[w], c)
    /\ c \in saved => Has(stored, c)
    /\ Restoring => c \in saved
    /\ main = "reading" => Has(loaded, c)

\* No copy has a result that was not booked.
OnlyBooked ==
  /\ ledger.profit \intersect Live \subseteq booked
  /\ stored.profit \intersect Live \subseteq booked
  /\ loaded.profit \intersect Live \subseteq booked
  /\ \A w \in Writers : captured[w].profit \intersect Live \subseteq booked
  /\ saved \intersect Live \subseteq booked

\* Without a torn restore every copy takes account of the same results.
CopiesAgree ==
  ~torn =>
    /\ stored = Even(stored.profit)
    /\ \A w \in Writers : Writing(w) => captured[w] = Even(captured[w].profit)
    /\ Restoring => loaded = stored

\* Between the two steps of such a restore the ledger is the stored one.
RestoredAgrees == ~torn /\ main = "resuming" => ledger.profit = stored.profit

\* A result that is not booked is in the balance once at most, and noted.
NotCountedYet ==
  \A c \in Live \ booked :
    credit[c] = 0 \/ (credit[c] = 1 /\ c \in early)

LedgerInv ==
  /\ LedgerTypeOK /\ WritersLock /\ CopiesHave /\ CopiesAgree /\ NotCountedYet
  /\ OnlyBooked /\ RestoredAgrees /\ ResultsSurvive /\ LedgerAgrees /\ BalanceCountsOnce

LEMMA LedgerParts ==
  /\ \A l \in Ledgers : /\ l.profit \in SUBSET Results /\ l.pending \in SUBSET Results
                        /\ l.linear \in SUBSET Results
  /\ \A a, b, d \in SUBSET Results :
       [profit |-> a, pending |-> b, linear |-> d] \in Ledgers
  /\ \A a \in SUBSET Results : Even(a) \in Ledgers
BY DEF Ledgers, Even

LEMMA LedgerInitInv == LedgerInit => LedgerInv
<1> SUFFICES ASSUME LedgerInit PROVE LedgerInv
  OBVIOUS
<1> USE DEF LedgerInit
<1>0. Even({}) \in Ledgers /\ Even(Past) \in Ledgers
  BY PastAssumption, LedgerParts
<1>1. LedgerTypeOK
  <2>1. online \in BOOLEAN /\ keyed \in BOOLEAN /\ torn \in BOOLEAN
    BY Zenon
  <2> QED BY <1>0, <2>1 DEF LedgerTypeOK, Writers, Live
<1>2. WritersLock /\ NotCountedYet /\ BalanceCountsOnce /\ ResultsSurvive /\ CopiesHave
  BY DEF WritersLock, NotCountedYet, BalanceCountsOnce, ResultsSurvive, CopiesHave, Live
<1>3. CopiesAgree /\ LedgerAgrees
  BY DEF CopiesAgree, LedgerAgrees, Even, Writing, Restoring
<1>4. OnlyBooked /\ RestoredAgrees
  BY DEF OnlyBooked, RestoredAgrees, Even, Live
<1> QED BY <1>1, <1>2, <1>3, <1>4 DEF LedgerInv

\* Types.
LEMMA LedgerTypeStep ==
  ASSUME LedgerInv, [LedgerNext]_ledgerVars
  PROVE  LedgerTypeOK'
<1> USE LedgerParts, PastAssumption
    DEF LedgerInv, LedgerTypeOK, WritersLock, LedgerTypeOK, memoryVars, storeVars, taskVars,
        witnessVars, Live, Writers, Writing, Restoring, Has
<1>1. ASSUME NEW c \in Live, SettleAtBroker(c) PROVE LedgerTypeOK'
  BY <1>1 DEF SettleAtBroker
<1>2. ASSUME NEW c \in Live, Start(c) PROVE LedgerTypeOK'
  BY <1>2 DEF Start, FetchBalance
<1>3. ASSUME NEW w \in Writers, Write(w) PROVE LedgerTypeOK'
  BY <1>3 DEF Write, Bundle, EndWriting
<1>4. ASSUME NEW w \in Writers, WriteFails(w) PROVE LedgerTypeOK'
  BY <1>4 DEF WriteFails, EndWriting
<1>5. CASE Book
  BY <1>5 DEF Book, NotCountedYet
<1>6. CASE Capture
  BY <1>6 DEF Capture
<1>7. CASE CaptureInLoop
  BY <1>7 DEF CaptureInLoop
<1>8. CASE LoseConnection
  <2>1. online' \in BOOLEAN /\ keyed' \in BOOLEAN /\ torn' \in BOOLEAN
    BY <1>8, Zenon DEF LoseConnection
  <2> QED BY <1>8, <2>1 DEF LoseConnection
<1>9. CASE LoadSnapshot
  BY <1>9 DEF LoadSnapshot
<1>10. CASE ApplySnapshot
  BY <1>10 DEF ApplySnapshot
<1>11. CASE ApplyCounter
  BY <1>11 DEF ApplyCounter
<1>12. CASE RestoreFails
  BY <1>12 DEF RestoreFails
<1>13. CASE Connect
  BY <1>13 DEF Connect, FetchBalance
<1>14. CASE UNCHANGED ledgerVars
  BY <1>14 DEF ledgerVars
<1> QED BY <1>1, <1>2, <1>3, <1>4, <1>5, <1>6, <1>7, <1>8, <1>9, <1>10,
           <1>11, <1>12, <1>13, <1>14
        DEF LedgerNext

\* The lock is handed over only when it is free.
LEMMA WritersStep ==
  ASSUME LedgerInv, [LedgerNext]_ledgerVars
  PROVE  WritersLock'
<1> USE LedgerParts, PastAssumption
    DEF LedgerInv, LedgerTypeOK, WritersLock, WritersLock, memoryVars, storeVars, taskVars,
        witnessVars, Live, Writers, Writing, Restoring, Has
<1>1. ASSUME NEW c \in Live, SettleAtBroker(c) PROVE WritersLock'
  BY <1>1 DEF SettleAtBroker
<1>2. ASSUME NEW c \in Live, Start(c) PROVE WritersLock'
  BY <1>2 DEF Start, FetchBalance
<1>3. ASSUME NEW w \in Writers, Write(w) PROVE WritersLock'
  BY <1>3 DEF Write, Bundle, EndWriting
<1>4. ASSUME NEW w \in Writers, WriteFails(w) PROVE WritersLock'
  BY <1>4 DEF WriteFails, EndWriting
<1>5. CASE Book
  BY <1>5 DEF Book
<1>6. CASE Capture
  BY <1>6 DEF Capture
<1>7. CASE CaptureInLoop
  BY <1>7 DEF CaptureInLoop
<1>8. CASE LoseConnection
  BY <1>8 DEF LoseConnection
<1>9. CASE LoadSnapshot
  BY <1>9 DEF LoadSnapshot
<1>10. CASE ApplySnapshot
  BY <1>10 DEF ApplySnapshot
<1>11. CASE ApplyCounter
  BY <1>11 DEF ApplyCounter
<1>12. CASE RestoreFails
  BY <1>12 DEF RestoreFails
<1>13. CASE Connect
  BY <1>13 DEF Connect, FetchBalance
<1>14. CASE UNCHANGED ledgerVars
  BY <1>14 DEF ledgerVars
<1> QED BY <1>1, <1>2, <1>3, <1>4, <1>5, <1>6, <1>7, <1>8, <1>9, <1>10,
           <1>11, <1>12, <1>13, <1>14
        DEF LedgerNext

\* A copy is made of a copy that has every result.
LEMMA CopiesHaveStep ==
  ASSUME LedgerInv, [LedgerNext]_ledgerVars
  PROVE  CopiesHave'
<1> USE LedgerParts, PastAssumption
    DEF LedgerInv, LedgerTypeOK, WritersLock, CopiesHave, memoryVars, storeVars, taskVars,
        witnessVars, Live, Writers, Writing, Restoring, Has
<1>1. ASSUME NEW c \in Live, SettleAtBroker(c) PROVE CopiesHave'
  BY <1>1 DEF SettleAtBroker
<1>2. ASSUME NEW c \in Live, Start(c) PROVE CopiesHave'
  BY <1>2 DEF Start, FetchBalance
<1>3. ASSUME NEW w \in Writers, Write(w) PROVE CopiesHave'
  <2>1. /\ Writing(w) /\ \A v \in Writers : ~Writing(v)'
        /\ main' \in {main, "idle"}
    <3>1. CASE w = "settler"
      <4>1. /\ settler = "writing" /\ settler' = "idle" /\ main' = main
            /\ stateLock = "settler"
        BY <3>1, <1>3 DEF Write, EndWriting
      <4> QED BY <3>1, <4>1
    <3>2. CASE w = "main"
      <4>1. /\ main = "writing" /\ main' = "idle" /\ settler' = settler
            /\ stateLock = "main"
        BY <3>2, <1>3 DEF Write, EndWriting
      <4> QED BY <3>2, <4>1
    <3> QED BY <3>1, <3>2
  <2>2. /\ stored' = captured[w] /\ saved' = saved \union captured[w].profit
        /\ UNCHANGED <<booked, ledger, exposed, loaded, captured>>
        /\ torn' = (torn \/ Restoring)
    BY <1>3 DEF Write, Bundle
  <2> QED BY <2>1, <2>2
<1>4. ASSUME NEW w \in Writers, WriteFails(w) PROVE CopiesHave'
  BY <1>4 DEF WriteFails, EndWriting
<1>5. CASE Book
  <2>1. /\ booked' = booked \union {hand} /\ hand \in Live \ booked
        /\ \A v \in Writers : ~Writing(v)'
        /\ UNCHANGED <<main, stored, saved, loaded>>
    BY <1>5 DEF Book
  <2>2. hand \notin saved
    BY <2>1 DEF OnlyBooked
  <2>3. exposed \subseteq exposed' /\ (Restoring => hand \in exposed')
    BY <1>5 DEF Book
  <2> QED BY <2>1, <2>2, <2>3
<1>6. CASE Capture
  BY <1>6 DEF Capture, ResultsSurvive
<1>7. CASE CaptureInLoop
  BY <1>7 DEF CaptureInLoop, ResultsSurvive
<1>8. CASE LoseConnection
  BY <1>8 DEF LoseConnection
<1>9. CASE LoadSnapshot
  BY <1>9 DEF LoadSnapshot
<1>10. CASE ApplySnapshot
  BY <1>10 DEF ApplySnapshot
<1>11. CASE ApplyCounter
  BY <1>11 DEF ApplyCounter
<1>12. CASE RestoreFails
  BY <1>12 DEF RestoreFails
<1>13. CASE Connect
  BY <1>13 DEF Connect, FetchBalance
<1>14. CASE UNCHANGED ledgerVars
  BY <1>14 DEF ledgerVars
<1> QED BY <1>1, <1>2, <1>3, <1>4, <1>5, <1>6, <1>7, <1>8, <1>9, <1>10,
           <1>11, <1>12, <1>13, <1>14
        DEF LedgerNext

\* The restored ledger has every result.
LEMMA SurviveStep ==
  ASSUME LedgerInv, [LedgerNext]_ledgerVars
  PROVE  ResultsSurvive'
<1> USE LedgerParts, PastAssumption
    DEF LedgerInv, LedgerTypeOK, WritersLock, ResultsSurvive, memoryVars, storeVars, taskVars,
        witnessVars, Live, Writers, Writing, Restoring, Has
<1>1. ASSUME NEW c \in Live, SettleAtBroker(c) PROVE ResultsSurvive'
  BY <1>1 DEF SettleAtBroker
<1>2. ASSUME NEW c \in Live, Start(c) PROVE ResultsSurvive'
  BY <1>2 DEF Start, FetchBalance
<1>3. ASSUME NEW w \in Writers, Write(w) PROVE ResultsSurvive'
  BY <1>3 DEF Write, Bundle, EndWriting
<1>4. ASSUME NEW w \in Writers, WriteFails(w) PROVE ResultsSurvive'
  BY <1>4 DEF WriteFails, EndWriting
<1>5. CASE Book
  BY <1>5 DEF Book
<1>6. CASE Capture
  BY <1>6 DEF Capture
<1>7. CASE CaptureInLoop
  BY <1>7 DEF CaptureInLoop
<1>8. CASE LoseConnection
  BY <1>8 DEF LoseConnection
<1>9. CASE LoadSnapshot
  BY <1>9 DEF LoadSnapshot
<1>10. CASE ApplySnapshot
  BY <1>10 DEF ApplySnapshot, CopiesHave
<1>11. CASE ApplyCounter
  BY <1>11 DEF ApplyCounter, CopiesHave
<1>12. CASE RestoreFails
  BY <1>12 DEF RestoreFails
<1>13. CASE Connect
  BY <1>13 DEF Connect, FetchBalance
<1>14. CASE UNCHANGED ledgerVars
  BY <1>14 DEF ledgerVars
<1> QED BY <1>1, <1>2, <1>3, <1>4, <1>5, <1>6, <1>7, <1>8, <1>9, <1>10,
           <1>11, <1>12, <1>13, <1>14
        DEF LedgerNext

\* A copy is made of a copy that agrees.
LEMMA CopiesAgreeStep ==
  ASSUME LedgerInv, [LedgerNext]_ledgerVars
  PROVE  CopiesAgree'
<1> USE LedgerParts, PastAssumption
    DEF LedgerInv, LedgerTypeOK, WritersLock, CopiesAgree, memoryVars, storeVars, taskVars,
        witnessVars, Live, Writers, Writing, Restoring, Has
<1>1. ASSUME NEW c \in Live, SettleAtBroker(c) PROVE CopiesAgree'
  BY <1>1 DEF SettleAtBroker
<1>2. ASSUME NEW c \in Live, Start(c) PROVE CopiesAgree'
  BY <1>2 DEF Start, FetchBalance
<1>3. ASSUME NEW w \in Writers, Write(w) PROVE CopiesAgree'
  <2>1. /\ Writing(w) /\ \A v \in Writers : ~Writing(v)'
        /\ main' \in {main, "idle"}
    <3>1. CASE w = "settler"
      <4>1. /\ settler = "writing" /\ settler' = "idle" /\ main' = main
            /\ stateLock = "settler"
        BY <3>1, <1>3 DEF Write, EndWriting
      <4> QED BY <3>1, <4>1
    <3>2. CASE w = "main"
      <4>1. /\ main = "writing" /\ main' = "idle" /\ settler' = settler
            /\ stateLock = "main"
        BY <3>2, <1>3 DEF Write, EndWriting
      <4> QED BY <3>2, <4>1
    <3> QED BY <3>1, <3>2
  <2>2. /\ stored' = captured[w] /\ saved' = saved \union captured[w].profit
        /\ UNCHANGED <<booked, ledger, exposed, loaded, captured>>
        /\ torn' = (torn \/ Restoring)
    BY <1>3 DEF Write, Bundle
  <2>3. ASSUME ~torn' PROVE ~torn /\ ~Restoring /\ ~Restoring'
    BY <2>1, <2>2, <2>3
  <2> QED BY <2>1, <2>2, <2>3
<1>4. ASSUME NEW w \in Writers, WriteFails(w) PROVE CopiesAgree'
  BY <1>4 DEF WriteFails, EndWriting
<1>5. CASE Book
  BY <1>5 DEF Book
<1>6. CASE Capture
  BY <1>6 DEF Capture, LedgerAgrees
<1>7. CASE CaptureInLoop
  BY <1>7 DEF CaptureInLoop, LedgerAgrees
<1>8. CASE LoseConnection
  BY <1>8 DEF LoseConnection
<1>9. CASE LoadSnapshot
  BY <1>9 DEF LoadSnapshot
<1>10. CASE ApplySnapshot
  BY <1>10 DEF ApplySnapshot
<1>11. CASE ApplyCounter
  BY <1>11 DEF ApplyCounter
<1>12. CASE RestoreFails
  BY <1>12 DEF RestoreFails
<1>13. CASE Connect
  BY <1>13 DEF Connect, FetchBalance
<1>14. CASE UNCHANGED ledgerVars
  BY <1>14 DEF ledgerVars
<1> QED BY <1>1, <1>2, <1>3, <1>4, <1>5, <1>6, <1>7, <1>8, <1>9, <1>10,
           <1>11, <1>12, <1>13, <1>14
        DEF LedgerNext

\* Booking adds the result everywhere, and a restore reads one copy.
LEMMA AgreesStep ==
  ASSUME LedgerInv, [LedgerNext]_ledgerVars
  PROVE  LedgerAgrees'
<1> USE LedgerParts, PastAssumption
    DEF LedgerInv, LedgerTypeOK, WritersLock, LedgerAgrees, memoryVars, storeVars, taskVars,
        witnessVars, Live, Writers, Writing, Restoring, Has, Even
<1>1. ASSUME NEW c \in Live, SettleAtBroker(c) PROVE LedgerAgrees'
  BY <1>1 DEF SettleAtBroker
<1>2. ASSUME NEW c \in Live, Start(c) PROVE LedgerAgrees'
  BY <1>2 DEF Start, FetchBalance
<1>3. ASSUME NEW w \in Writers, Write(w) PROVE LedgerAgrees'
  BY <1>3 DEF Write, Bundle, EndWriting
<1>4. ASSUME NEW w \in Writers, WriteFails(w) PROVE LedgerAgrees'
  BY <1>4 DEF WriteFails, EndWriting
<1>5. CASE Book
  <2> SUFFICES ASSUME ~torn' PROVE ledger' = Even(ledger'.profit)
    OBVIOUS
  <2>1. ~torn
    BY <1>5 DEF Book
  <2>2. ledger.pending = ledger.profit /\ ledger.linear = ledger.profit
    BY <2>1
  <2> QED BY <1>5, <2>2 DEF Book
<1>6. CASE Capture
  BY <1>6 DEF Capture
<1>7. CASE CaptureInLoop
  BY <1>7 DEF CaptureInLoop
<1>8. CASE LoseConnection
  BY <1>8 DEF LoseConnection
<1>9. CASE LoadSnapshot
  BY <1>9 DEF LoadSnapshot
<1>10. CASE ApplySnapshot
  BY <1>10 DEF ApplySnapshot, CopiesAgree
<1>11. CASE ApplyCounter
  <2> SUFFICES ASSUME ~torn' PROVE ledger' = Even(ledger'.profit)
    OBVIOUS
  <2>1. ~torn /\ main = "resuming"
    BY <1>11 DEF ApplyCounter
  <2>2. ledger.pending = ledger.profit /\ ledger.linear = ledger.profit
    BY <2>1
  <2>3. stored.linear = ledger.profit
    BY <2>1, <2>2 DEF RestoredAgrees, CopiesAgree
  <2> QED BY <1>11, <2>2, <2>3 DEF ApplyCounter
<1>12. CASE RestoreFails
  BY <1>12 DEF RestoreFails
<1>13. CASE Connect
  BY <1>13 DEF Connect, FetchBalance
<1>14. CASE UNCHANGED ledgerVars
  BY <1>14 DEF ledgerVars
<1> QED BY <1>1, <1>2, <1>3, <1>4, <1>5, <1>6, <1>7, <1>8, <1>9, <1>10,
           <1>11, <1>12, <1>13, <1>14
        DEF LedgerNext

\* A fetched balance notes what it counts too early.
LEMMA NotCountedStep ==
  ASSUME LedgerInv, [LedgerNext]_ledgerVars
  PROVE  NotCountedYet'
<1> USE LedgerParts, PastAssumption
    DEF LedgerInv, LedgerTypeOK, WritersLock, NotCountedYet, memoryVars, storeVars, taskVars,
        witnessVars, Live, Writers, Writing, Restoring, Has
<1>1. ASSUME NEW c \in Live, SettleAtBroker(c) PROVE NotCountedYet'
  BY <1>1 DEF SettleAtBroker
<1>2. ASSUME NEW c \in Live, Start(c) PROVE NotCountedYet'
  BY <1>2 DEF Start, FetchBalance
<1>3. ASSUME NEW w \in Writers, Write(w) PROVE NotCountedYet'
  BY <1>3 DEF Write, Bundle, EndWriting
<1>4. ASSUME NEW w \in Writers, WriteFails(w) PROVE NotCountedYet'
  BY <1>4 DEF WriteFails, EndWriting
<1>5. CASE Book
  BY <1>5 DEF Book
<1>6. CASE Capture
  BY <1>6 DEF Capture
<1>7. CASE CaptureInLoop
  BY <1>7 DEF CaptureInLoop
<1>8. CASE LoseConnection
  BY <1>8 DEF LoseConnection
<1>9. CASE LoadSnapshot
  BY <1>9 DEF LoadSnapshot
<1>10. CASE ApplySnapshot
  BY <1>10 DEF ApplySnapshot
<1>11. CASE ApplyCounter
  BY <1>11 DEF ApplyCounter
<1>12. CASE RestoreFails
  BY <1>12 DEF RestoreFails
<1>13. CASE Connect
  BY <1>13 DEF Connect, FetchBalance
<1>14. CASE UNCHANGED ledgerVars
  BY <1>14 DEF ledgerVars
<1> QED BY <1>1, <1>2, <1>3, <1>4, <1>5, <1>6, <1>7, <1>8, <1>9, <1>10,
           <1>11, <1>12, <1>13, <1>14
        DEF LedgerNext

\* Booking adds what was not counted.
LEMMA CountsOnceStep ==
  ASSUME LedgerInv, [LedgerNext]_ledgerVars
  PROVE  BalanceCountsOnce'
<1> USE LedgerParts, PastAssumption
    DEF LedgerInv, LedgerTypeOK, WritersLock, BalanceCountsOnce, memoryVars, storeVars, taskVars,
        witnessVars, Live, Writers, Writing, Restoring, Has
<1>1. ASSUME NEW c \in Live, SettleAtBroker(c) PROVE BalanceCountsOnce'
  BY <1>1 DEF SettleAtBroker
<1>2. ASSUME NEW c \in Live, Start(c) PROVE BalanceCountsOnce'
  BY <1>2 DEF Start, FetchBalance
<1>3. ASSUME NEW w \in Writers, Write(w) PROVE BalanceCountsOnce'
  BY <1>3 DEF Write, Bundle, EndWriting
<1>4. ASSUME NEW w \in Writers, WriteFails(w) PROVE BalanceCountsOnce'
  BY <1>4 DEF WriteFails, EndWriting
<1>5. CASE Book
  BY <1>5 DEF Book, NotCountedYet
<1>6. CASE Capture
  BY <1>6 DEF Capture
<1>7. CASE CaptureInLoop
  BY <1>7 DEF CaptureInLoop
<1>8. CASE LoseConnection
  BY <1>8 DEF LoseConnection
<1>9. CASE LoadSnapshot
  BY <1>9 DEF LoadSnapshot
<1>10. CASE ApplySnapshot
  BY <1>10 DEF ApplySnapshot
<1>11. CASE ApplyCounter
  BY <1>11 DEF ApplyCounter
<1>12. CASE RestoreFails
  BY <1>12 DEF RestoreFails
<1>13. CASE Connect
  BY <1>13 DEF Connect, FetchBalance
<1>14. CASE UNCHANGED ledgerVars
  BY <1>14 DEF ledgerVars
<1> QED BY <1>1, <1>2, <1>3, <1>4, <1>5, <1>6, <1>7, <1>8, <1>9, <1>10,
           <1>11, <1>12, <1>13, <1>14
        DEF LedgerNext

\* A copy is made of a copy.
LEMMA OnlyBookedStep ==
  ASSUME LedgerInv, [LedgerNext]_ledgerVars
  PROVE  OnlyBooked'
<1> USE LedgerParts, PastAssumption
    DEF LedgerInv, LedgerTypeOK, WritersLock, OnlyBooked, memoryVars, storeVars, taskVars,
        witnessVars, Live, Writers, Writing, Restoring, Has
<1>1. ASSUME NEW c \in Live, SettleAtBroker(c) PROVE OnlyBooked'
  BY <1>1 DEF SettleAtBroker
<1>2. ASSUME NEW c \in Live, Start(c) PROVE OnlyBooked'
  BY <1>2 DEF Start, FetchBalance
<1>3. ASSUME NEW w \in Writers, Write(w) PROVE OnlyBooked'
  BY <1>3 DEF Write, Bundle, EndWriting
<1>4. ASSUME NEW w \in Writers, WriteFails(w) PROVE OnlyBooked'
  BY <1>4 DEF WriteFails, EndWriting
<1>5. CASE Book
  BY <1>5 DEF Book
<1>6. CASE Capture
  BY <1>6 DEF Capture
<1>7. CASE CaptureInLoop
  BY <1>7 DEF CaptureInLoop
<1>8. CASE LoseConnection
  BY <1>8 DEF LoseConnection
<1>9. CASE LoadSnapshot
  BY <1>9 DEF LoadSnapshot
<1>10. CASE ApplySnapshot
  BY <1>10 DEF ApplySnapshot
<1>11. CASE ApplyCounter
  BY <1>11 DEF ApplyCounter
<1>12. CASE RestoreFails
  BY <1>12 DEF RestoreFails
<1>13. CASE Connect
  BY <1>13 DEF Connect, FetchBalance
<1>14. CASE UNCHANGED ledgerVars
  BY <1>14 DEF ledgerVars
<1> QED BY <1>1, <1>2, <1>3, <1>4, <1>5, <1>6, <1>7, <1>8, <1>9, <1>10,
           <1>11, <1>12, <1>13, <1>14
        DEF LedgerNext

\* Nothing is booked or saved in such a restore.
LEMMA RestoredStep ==
  ASSUME LedgerInv, [LedgerNext]_ledgerVars
  PROVE  RestoredAgrees'
<1> USE LedgerParts, PastAssumption
    DEF LedgerInv, LedgerTypeOK, WritersLock, RestoredAgrees, memoryVars, storeVars, taskVars,
        witnessVars, Live, Writers, Writing, Restoring, Has
<1>1. ASSUME NEW c \in Live, SettleAtBroker(c) PROVE RestoredAgrees'
  BY <1>1 DEF SettleAtBroker
<1>2. ASSUME NEW c \in Live, Start(c) PROVE RestoredAgrees'
  BY <1>2 DEF Start, FetchBalance
<1>3. ASSUME NEW w \in Writers, Write(w) PROVE RestoredAgrees'
  BY <1>3 DEF Write, Bundle, EndWriting
<1>4. ASSUME NEW w \in Writers, WriteFails(w) PROVE RestoredAgrees'
  BY <1>4 DEF WriteFails, EndWriting
<1>5. CASE Book
  BY <1>5 DEF Book
<1>6. CASE Capture
  BY <1>6 DEF Capture
<1>7. CASE CaptureInLoop
  BY <1>7 DEF CaptureInLoop
<1>8. CASE LoseConnection
  BY <1>8 DEF LoseConnection
<1>9. CASE LoadSnapshot
  BY <1>9 DEF LoadSnapshot
<1>10. CASE ApplySnapshot
  BY <1>10 DEF ApplySnapshot, CopiesAgree
<1>11. CASE ApplyCounter
  BY <1>11 DEF ApplyCounter
<1>12. CASE RestoreFails
  BY <1>12 DEF RestoreFails
<1>13. CASE Connect
  BY <1>13 DEF Connect, FetchBalance
<1>14. CASE UNCHANGED ledgerVars
  BY <1>14 DEF ledgerVars
<1> QED BY <1>1, <1>2, <1>3, <1>4, <1>5, <1>6, <1>7, <1>8, <1>9, <1>10,
           <1>11, <1>12, <1>13, <1>14
        DEF LedgerNext

-----------------------------------------------------------------------------
(* RiskLedger *)

\* An open result was asked for at least what it was bought for, at a rate.
StakesAgree ==
  /\ \A c \in Contracts : asked[c] >= paid[c]
  /\ \A c \in known \ settled : quoted[c] \in Rates

RiskInv == RiskTypeOK /\ StakesAgree /\ LossesAreCarried

LEMMA CeilDivType ==
  ASSUME NEW a \in Nat, NEW b \in Nat \ {0}
  PROVE  CeilDiv(a, b) \in Nat /\ (a > 0 => CeilDiv(a, b) > 0)
<1> DEFINE n == a + b - 1
           q == n \div b
<1>1. n \in Nat /\ q \in Int
  OBVIOUS
<1>2. b * q <= n /\ n < b * q + b
  BY <1>1
<1>3. q >= 0
  <2>1. q <= -1 => b * q + b <= 0
    BY <1>1
  <2> QED BY <1>1, <1>2, <2>1
<1>4. a > 0 => q > 0
  <2>1. q = 0 => n < b
    BY <1>2
  <2> QED BY <1>1, <1>3, <2>1
<1> QED BY <1>1, <1>3, <1>4 DEF CeilDiv

LEMMA ProductType ==
  ASSUME NEW a \in Nat \ {0}, NEW b \in Nat \ {0}
  PROVE  a * b \in Nat \ {0}
OBVIOUS

\* What is asked for is a sum of money.
LEMMA StakeType ==
  ASSUME RiskTypeOK, NEW loss \in Nat, NEW rate \in Rates
  PROVE  Stake(loss, rate) \in Int
<1> USE RatesAssumption DEF RiskTypeOK
<1>1. Available \in Int /\ Cap \in Int /\ Base \in Int /\ Target \in Int
  <2>1. Available \in Int
    BY DEF Available
  <2>2. bank * TargetRate \in Int
    OBVIOUS
  <2> QED BY <2>1, <2>2 DEF Cap, Base, Target
<1>2. rate \in Nat \ {0}
  OBVIOUS
<1>3. Steps(loss, rate) \in Nat \ {0}
  <2>1. CASE Cap > 0 /\ loss > Cap * rate
    <3>1. Cap * rate \in Nat \ {0}
      BY <1>1, <1>2, <2>1, ProductType
    <3>2. loss > 0
      BY <2>1, <3>1
    <3>3. CeilDiv(loss, Cap * rate) \in Nat \ {0}
      BY <3>1, <3>2, CeilDivType
    <3> QED BY <2>1, <3>3 DEF Steps
  <2>2. CASE ~(Cap > 0 /\ loss > Cap * rate)
    BY <2>2 DEF Steps
  <2> QED BY <2>1, <2>2
<1>4. Needed(loss, rate) \in Nat
  <2>1. CASE loss > 0
    <3>1. Steps(loss, rate) * rate \in Nat \ {0}
      BY <1>2, <1>3, ProductType
    <3> QED BY <2>1, <3>1, CeilDivType DEF Needed
  <2>2. CASE ~(loss > 0) /\ 100 * Target > profit
    <3>1. 100 * Target - profit \in Nat
      BY <1>1, <2>2
    <3> QED BY <1>2, <2>2, <3>1, CeilDivType DEF Needed
  <2>3. CASE ~(loss > 0) /\ ~(100 * Target > profit)
    BY <2>3 DEF Needed
  <2> QED BY <2>1, <2>2, <2>3
<1>5. WantedStake(loss, rate) \in Int
  BY <1>1, <1>4 DEF WantedStake, Max2
<1> QED BY <1>1, <1>5 DEF Stake, Min2

\* What a win may bring is not negative.
LEMMA ProfitsType ==
  ASSUME RiskInv, NEW c \in known \ settled, NEW gain \in Profits(c)
  PROVE  gain \in Nat
<1> USE RatesAssumption DEF RiskInv, RiskTypeOK, StakesAgree
<1>1. quoted[c] \in Nat /\ quoted[c] >= 2 /\ paid[c] \in Nat
  OBVIOUS
<1>2. (quoted[c] - 2) * paid[c] \in Nat /\ quoted[c] * paid[c] \in Nat
  BY <1>1
<1>3. CeilDiv((quoted[c] - 2) * paid[c], 100) \in Nat
  BY <1>2, CeilDivType
<1>4. (quoted[c] * paid[c]) \div 100 \in Nat
  BY <1>2
<1> QED BY <1>3, <1>4 DEF Profits

LEMMA RiskInitInv == RiskInit => RiskInv
<1> SUFFICES ASSUME RiskInit PROVE RiskInv
  OBVIOUS
<1>1. RiskTypeOK
  BY RatesAssumption DEF RiskInit, RiskTypeOK
<1>2. StakesAgree /\ LossesAreCarried
  BY DEF RiskInit, StakesAgree, LossesAreCarried
<1> QED BY <1>1, <1>2 DEF RiskInv

LEMMA OrderKeeps ==
  ASSUME RiskInv, NEW c \in Contracts, NEW rate \in Rates, NEW less \in Downgrades,
         Order(c, rate, less)
  PROVE  RiskInv'
<1> USE RatesAssumption DEF RiskInv, RiskTypeOK
<1>1. PICK loss \in Recoverable :
        /\ placed < MaxOrders /\ Stake(loss, rate) > less
        /\ placed' = placed + 1
        /\ active' = active \union {c} /\ known' = known \union {c}
        /\ asked' = [asked EXCEPT ![c] = Stake(loss, rate)]
        /\ paid' = [paid EXCEPT ![c] = Stake(loss, rate) - less]
        /\ quoted' = [quoted EXCEPT ![c] = rate]
        /\ strikes' \in {strikes, strikes \union {c}}
        /\ UNCHANGED <<bank, profit, pending, linear, counted, net, expected, settled,
                       forgiven, sessions>>
  BY DEF Order
<1>2. loss \in Nat
  BY DEF Recoverable
<1>3. Stake(loss, rate) \in Nat /\ Stake(loss, rate) - less \in Nat
  BY <1>1, <1>2, StakeType
<1>4. RiskTypeOK'
  BY <1>1, <1>3
<1>5. StakesAgree' /\ LossesAreCarried'
  BY <1>1, <1>3 DEF StakesAgree, LossesAreCarried
<1> QED BY <1>4, <1>5

\* The result of a contract that leaves the losses at loss.
LEMMA RegisterKeeps ==
  ASSUME RiskInv, NEW c \in Contracts, NEW amount \in Int, NEW loss \in Nat,
         Register(c, amount, loss)
  PROVE  /\ {bank', profit', net'} \subseteq Int
         /\ {pending', linear', sessions'} \subseteq Nat
         /\ placed' \in 0 .. MaxOrders /\ expected' \in 0 .. MaxOrders
         /\ active' \subseteq known' /\ known' \subseteq Contracts
         /\ asked' \in [Contracts -> Nat] /\ paid' \in [Contracts -> Nat]
         /\ quoted' \in [Contracts -> Rates \union {0}]
         /\ counted' \subseteq Contracts /\ settled' \subseteq Contracts
         /\ strikes' \subseteq Contracts
         /\ StakesAgree'
         /\ profit' = profit + amount /\ pending' \in {0, loss}
<1> USE RatesAssumption DEF RiskInv, RiskTypeOK
<1>1. /\ settled' = settled \union {c} /\ profit' = profit + amount /\ strikes' = {}
      /\ asked' = [asked EXCEPT ![c] = 0] /\ paid' = [paid EXCEPT ![c] = 0]
      /\ quoted' = [quoted EXCEPT ![c] = 0]
      /\ UNCHANGED <<bank, placed, sessions>>
      /\ EndCluster(loss, net + amount) \/ GoOn(c, loss, net + amount)
  BY DEF Register
<1>2. LinearAfter(loss, net + amount) \in Nat
  BY DEF LinearAfter, Retract, Max2
<1>3. /\ linear' \in Nat /\ pending' \in {0, loss} /\ net' \in Int
      /\ expected' \in 0 .. MaxOrders /\ counted' \subseteq Contracts
      /\ known' \subseteq known /\ active' \subseteq known'
  <2>1. CASE EndCluster(loss, net + amount)
    BY <1>2, <2>1 DEF EndCluster
  <2>2. CASE GoOn(c, loss, net + amount)
    BY <2>2 DEF GoOn
  <2> QED BY <1>1, <2>1, <2>2
<1>4. StakesAgree'
  BY <1>1, <1>3 DEF StakesAgree
<1> QED BY <1>1, <1>3, <1>4

LEMMA LoseKeeps ==
  ASSUME RiskInv, NEW c \in Contracts, Lose(c)
  PROVE  RiskInv'
<1> USE DEF RiskInv, RiskTypeOK
<1>1. /\ asked[c] \in Nat /\ paid[c] \in Nat /\ asked[c] >= paid[c]
      /\ PendingAfterLoss(c) = pending + 100 * asked[c]
  BY DEF StakesAgree, PendingAfterLoss, AddLoss
<1>2. -100 * paid[c] \in Int /\ PendingAfterLoss(c) \in Nat
  BY <1>1
<1>3. /\ Register(c, -100 * paid[c], PendingAfterLoss(c))
      /\ forgiven' = forgiven + PendingAfterLoss(c) - pending'
  BY DEF Lose
<1>4. /\ profit' = profit + (-100 * paid[c]) /\ pending' \in {0, PendingAfterLoss(c)}
  BY <1>2, <1>3, RegisterKeeps
<1>5. forgiven' \in Nat /\ LossesAreCarried'
  BY <1>1, <1>2, <1>3, <1>4 DEF LossesAreCarried
<1>6. RiskTypeOK' /\ StakesAgree'
  BY <1>2, <1>3, <1>5, RegisterKeeps
<1> QED BY <1>5, <1>6

LEMMA WinKeeps ==
  ASSUME RiskInv, NEW c \in Contracts, NEW gain \in Profits(c), Win(c, gain)
  PROVE  RiskInv'
<1> USE DEF RiskInv, RiskTypeOK
<1>1. PICK loss \in Adjusted(PendingAfterWin(c, gain), Residual(c, gain)) :
        /\ Register(c, gain, loss)
        /\ forgiven' = forgiven + Max2(0, PendingAfterWin(c, gain) - loss)
                                + (loss - pending')
  BY DEF Win
<1>2. gain \in Nat
  BY <1>1, ProfitsType DEF Register
<1>3. asked[c] \in Nat /\ paid[c] \in Nat /\ asked[c] >= paid[c]
  BY DEF StakesAgree
<1>4. /\ PendingAfterWin(c, gain) \in Nat
      /\ PendingAfterWin(c, gain) + gain >= pending
  BY <1>2, <1>3 DEF PendingAfterWin, Max2
<1>5. Residual(c, gain) \in Int
  <2>1. PayoutEstimate * paid[c] \in Int
    BY <1>3, RatesAssumption
  <2> QED BY <1>2, <2>1 DEF Residual
<1>6. loss \in Nat
  BY <1>4, <1>5 DEF Adjusted, Max2
<1>7. profit' = profit + gain /\ pending' \in {0, loss}
  BY <1>1, <1>2, <1>6, RegisterKeeps
<1>8. forgiven' \in Nat /\ LossesAreCarried'
  BY <1>1, <1>2, <1>4, <1>6, <1>7 DEF LossesAreCarried, Max2
<1>9. RiskTypeOK' /\ StakesAgree'
  BY <1>1, <1>2, <1>6, <1>8, RegisterKeeps
<1> QED BY <1>8, <1>9

LEMMA RiskStep ==
  ASSUME RiskInv, [RiskNext]_riskVars
  PROVE  RiskInv'
<1> USE RatesAssumption DEF RiskInv, RiskTypeOK
<1>1. ASSUME NEW c \in Contracts, NEW rate \in Rates, NEW less \in Downgrades,
             Order(c, rate, less)
      PROVE  RiskInv'
  BY <1>1, OrderKeeps
<1>2. ASSUME NEW c \in Contracts, Lose(c) PROVE RiskInv'
  BY <1>2, LoseKeeps
<1>3. ASSUME NEW c \in Contracts, NEW gain \in Profits(c), Win(c, gain) PROVE RiskInv'
  BY <1>3, WinKeeps
<1>4. CASE BeginCluster
  <2>1. RiskTypeOK'
    BY <1>4 DEF BeginCluster, stakeVars
  <2>2. StakesAgree' /\ LossesAreCarried'
    BY <1>4 DEF BeginCluster, stakeVars, StakesAgree, LossesAreCarried
  <2> QED BY <2>1, <2>2
<1>5. CASE NewSession
  <2>1. Available \in Int
    BY DEF Available
  <2>2. RiskTypeOK'
    BY <1>5, <2>1 DEF NewSession
  <2>3. StakesAgree' /\ LossesAreCarried'
    BY <1>5 DEF NewSession, StakesAgree, LossesAreCarried
  <2> QED BY <2>2, <2>3
<1>6. CASE UNCHANGED riskVars
  BY <1>6 DEF riskVars, stakeVars, StakesAgree, LossesAreCarried
<1> QED BY <1>1, <1>2, <1>3, <1>4, <1>5, <1>6 DEF RiskNext

-----------------------------------------------------------------------------
(* RiskLedger: what a strike brings *)

\* An order sized to meet the target wins at least what is missing, at the
\* rate it was sized with.
StrikesAreSized ==
  \A c \in strikes : /\ quoted[c] \in Rates /\ paid[c] > 0
                     /\ paid[c] * quoted[c] >= 100 * Target - profit

LEMMA TargetType == ASSUME RiskTypeOK PROVE Target \in Int
<1> USE RatesAssumption DEF RiskTypeOK
<1>1. bank * TargetRate \in Int
  OBVIOUS
<1> QED BY <1>1 DEF Target

LEMMA CeilDivCovers ==
  ASSUME NEW a \in Nat, NEW b \in Nat \ {0}
  PROVE  CeilDiv(a, b) * b >= a
<1> DEFINE n == a + b - 1
           q == n \div b
<1>1. n \in Nat /\ q \in Int
  OBVIOUS
<1>2. n < b * q + b
  BY <1>1
<1>3. b * q = q * b
  BY <1>1
<1> QED BY <1>1, <1>2, <1>3 DEF CeilDiv

\* The target is twenty cents or more, whatever the session starts with.
LEMMA TargetOfTrading ==
  ASSUME RiskTypeOK, SmallTarget >= 20, SmallAccount * TargetRate >= 20000
  PROVE  Target \in Nat /\ Target >= 20
<1> USE RatesAssumption DEF RiskTypeOK
<1>1. CASE bank < SmallAccount
  BY <1>1 DEF Target
<1>2. CASE ~(bank < SmallAccount)
  <2>1. bank \in Nat /\ bank >= SmallAccount
    BY <1>2
  <2>2. bank * TargetRate \in Nat /\ bank * TargetRate >= SmallAccount * TargetRate
    BY <2>1
  <2>3. SmallAccount * TargetRate \in Nat
    OBVIOUS
  <2>4. bank * TargetRate >= 20000
    BY <2>2, <2>3
  <2> QED BY <1>2, <2>2, <2>4 DEF Target
<1> QED BY <1>1, <1>2

\* What a strike brings leaves at most two points of its stake missing, or less
\* than a cent.
LEMMA StrikeBringsEnough ==
  ASSUME RiskInv, StrikesAreSized, NEW c \in strikes, NEW gain \in Profits(c), gain \in Nat
  PROVE  100 * Target - (profit + gain) <= Max2(2 * paid[c], 99)
<1> USE RatesAssumption DEF RiskInv, RiskTypeOK
<1> DEFINE q == quoted[c]
           stake == paid[c]
           behind == 100 * Target - profit
<1>1. /\ q \in Nat /\ q >= 2 /\ stake \in Nat /\ behind \in Int
      /\ stake * q >= behind
  BY TargetType DEF StrikesAreSized
<1>2. CASE gain = 100 * CeilDiv((q - 2) * stake, 100)
  <2>1. (q - 2) * stake \in Nat
    BY <1>1
  <2>2. CeilDiv((q - 2) * stake, 100) * 100 >= (q - 2) * stake
    BY <2>1, CeilDivCovers
  <2>3. CeilDiv((q - 2) * stake, 100) \in Nat
    BY <2>1, CeilDivType
  <2>4. gain >= (q - 2) * stake
    BY <1>2, <2>2, <2>3
  <2>5. (q - 2) * stake = stake * q - 2 * stake
    BY <1>1
  <2>6. stake * q \in Int
    BY <1>1
  <2>7. behind - gain <= 2 * stake
    BY <1>1, <2>1, <2>4, <2>5, <2>6
  <2> QED BY <1>1, <2>7, TargetType DEF Max2
<1>3. CASE gain = 100 * ((q * stake) \div 100)
  <2>1. q * stake \in Nat /\ q * stake = stake * q
    BY <1>1
  <2>2. gain >= q * stake - 99
    BY <1>3, <2>1
  <2>3. behind - gain <= 99
    BY <1>1, <2>1, <2>2
  <2> QED BY <1>1, <2>3, TargetType DEF Max2
<1> QED BY <1>2, <1>3 DEF Profits

\* A strike is sized for all that is missing.
LEMMA StrikeIsSized ==
  ASSUME RiskInv, NEW rate \in Rates, WantedStake(0, rate) <= Cap
  PROVE  Stake(0, rate) * rate >= 100 * Target - profit
<1> USE RatesAssumption DEF RiskInv, RiskTypeOK
<1> DEFINE behind == 100 * Target - profit
<1>1. Stake(0, rate) \in Int /\ rate \in Nat \ {0}
  BY StakeType
<1>2. Target \in Int /\ Available \in Int /\ Cap \in Int /\ Base \in Int
  <2>1. Target \in Int /\ Available \in Int
    BY TargetType DEF Available
  <2> QED BY <2>1 DEF Cap, Base
<1>3. Needed(0, rate) \in Nat /\ Needed(0, rate) * rate >= behind
  <2>1. CASE 100 * Target > profit
    <3>1. behind \in Nat
      BY <1>2, <2>1
    <3>2. Needed(0, rate) = CeilDiv(behind, rate)
      BY <2>1 DEF Needed
    <3> QED BY <1>1, <3>1, <3>2, CeilDivCovers, CeilDivType
  <2>2. CASE ~(100 * Target > profit)
    BY <1>1, <1>2, <2>2 DEF Needed
  <2> QED BY <2>1, <2>2
<1>4. Stake(0, rate) >= Needed(0, rate)
  BY <1>2, <1>3 DEF Stake, WantedStake, Min2, Max2
<1>5. Stake(0, rate) * rate >= Needed(0, rate) * rate
  BY <1>1, <1>3, <1>4
<1> QED BY <1>1, <1>2, <1>3, <1>5

LEMMA StrikesInit == RiskInit => StrikesAreSized
BY DEF RiskInit, StrikesAreSized

LEMMA StrikesStep ==
  ASSUME RiskInv, StrikesAreSized, [RiskNext]_riskVars
  PROVE  StrikesAreSized'
<1> USE RatesAssumption DEF RiskInv, RiskTypeOK
<1>1. ASSUME NEW c \in Contracts, NEW rate \in Rates, NEW less \in Downgrades,
             Order(c, rate, less)
      PROVE  StrikesAreSized'
  <2>1. /\ UNCHANGED <<bank, profit>> /\ Target' = Target /\ c \notin strikes
    BY <1>1 DEF Order, Target, StrikesAreSized
  <2>3. ASSUME NEW d \in strikes
        PROVE  /\ quoted'[d] \in Rates /\ paid'[d] > 0
               /\ paid'[d] * quoted'[d] >= 100 * Target' - profit'
    <3>1. d # c /\ paid'[d] = paid[d] /\ quoted'[d] = quoted[d]
      <4>1. \E stake : paid' = [paid EXCEPT ![c] = stake]
        BY <1>1 DEF Order
      <4>2. quoted' = [quoted EXCEPT ![c] = rate] /\ d \in Contracts
        BY <1>1 DEF Order
      <4> QED BY <2>1, <4>1, <4>2
    <3> QED BY <2>1, <3>1 DEF StrikesAreSized
  <2>4. ASSUME c \in strikes'
        PROVE  /\ quoted'[c] \in Rates /\ paid'[c] > 0
               /\ paid'[c] * quoted'[c] >= 100 * Target' - profit'
    <3>1. PICK loss \in Recoverable :
            /\ Stake(loss, rate) > less
            /\ paid' = [paid EXCEPT ![c] = Stake(loss, rate) - less]
            /\ quoted' = [quoted EXCEPT ![c] = rate]
            /\ strikes' = IF pending = 0 /\ less = 0 /\ WantedStake(loss, rate) <= Cap
                          THEN strikes \union {c} ELSE strikes
      BY <1>1 DEF Order
    <3>2. pending = 0 /\ less = 0 /\ WantedStake(loss, rate) <= Cap
      BY <2>1, <2>4, <3>1
    <3>3. loss = 0
      BY <3>2 DEF Recoverable
    <3>4. Stake(0, rate) \in Int
      BY StakeType
    <3>5. quoted'[c] = rate /\ paid'[c] = Stake(0, rate)
      BY <3>1, <3>2, <3>3, <3>4
    <3>6. Stake(0, rate) * rate >= 100 * Target - profit
      BY <3>2, <3>3, StrikeIsSized
    <3> QED BY <2>1, <3>1, <3>2, <3>3, <3>5, <3>6
  <2>5. strikes' \subseteq strikes \union {c}
    BY <1>1 DEF Order
  <2> QED BY <2>1, <2>3, <2>4, <2>5 DEF StrikesAreSized
<1>2. ASSUME NEW c \in Contracts, NEW amount \in Int, NEW loss, Register(c, amount, loss)
      PROVE  StrikesAreSized'
  <2>1. c \in known /\ strikes' = {} /\ bank' = bank
    BY <1>2 DEF Register
  <2> QED BY <2>1 DEF StrikesAreSized
<1>3. ASSUME NEW c \in Contracts, Lose(c) PROVE StrikesAreSized'
  <2>1. -100 * paid[c] \in Int
    OBVIOUS
  <2> QED BY <1>2, <1>3, <2>1 DEF Lose
<1>4. ASSUME NEW c \in Contracts, NEW gain \in Profits(c), Win(c, gain) PROVE StrikesAreSized'
  <2>1. gain \in Int
    BY <1>4, ProfitsType DEF Win, Register
  <2> QED BY <1>2, <1>4, <2>1 DEF Win
<1>5. CASE BeginCluster
  BY <1>5 DEF BeginCluster, stakeVars, StrikesAreSized, Target
<1>6. CASE NewSession
  BY <1>6 DEF NewSession, StrikesAreSized
<1>7. CASE UNCHANGED riskVars
  BY <1>7 DEF riskVars, stakeVars, StrikesAreSized, Target
<1> QED BY <1>1, <1>3, <1>4, <1>5, <1>6, <1>7 DEF RiskNext

\* The win of a strike leaves what the property says.
LEMMA StrikeReaches ==
  ASSUME SmallTarget >= 20, SmallAccount * TargetRate >= 20000, RiskInv,
         StrikesAreSized, [RiskNext]_riskVars,
         NEW c \in strikes, c \in settled' \ settled, profit' > profit
  PROVE  /\ 100 * Target - profit' <= Max2(2 * paid[c], 99)
         /\ 2 * paid[c] <= 5 * Target => TargetReached(profit')
<1> USE RatesAssumption DEF RiskInv, RiskTypeOK
<1>1. Target \in Nat /\ Target >= 20
  BY TargetOfTrading
<1>2. ASSUME NEW d \in Contracts, Lose(d) PROVE FALSE
  BY <1>2 DEF Lose, Register
<1>3. ASSUME NEW d \in Contracts, NEW gain \in Profits(d), Win(d, gain)
      PROVE  100 * Target - profit' <= Max2(2 * paid[c], 99)
  <2>1. d = c /\ profit' = profit + gain /\ gain \in Nat
    BY <1>3, ProfitsType DEF Win, Register
  <2> QED BY <1>3, <2>1, StrikeBringsEnough
<1>4. CASE \/ \E d \in Contracts, rate \in Rates, less \in Downgrades : Order(d, rate, less)
           \/ BeginCluster \/ NewSession \/ UNCHANGED riskVars
  BY <1>4 DEF Order, BeginCluster, NewSession, riskVars
<1>5. 100 * Target - profit' <= Max2(2 * paid[c], 99)
  BY <1>2, <1>3, <1>4 DEF RiskNext
<1>6. profit' \in Int
  BY RiskStep
<1>7. 2 * paid[c] <= 5 * Target => TargetReached(profit')
  BY <1>1, <1>5, <1>6 DEF Max2, TargetReached
<1> QED BY <1>5, <1>7

-----------------------------------------------------------------------------
(* Theorems *)

LEMMA LedgerInvariance == LedgerSpec => []LedgerInv
<1>1. LedgerInv /\ [LedgerNext]_ledgerVars => LedgerInv'
  <2> SUFFICES ASSUME LedgerInv, [LedgerNext]_ledgerVars PROVE LedgerInv'
    OBVIOUS
  <2>1. LedgerTypeOK' /\ WritersLock' /\ CopiesHave' /\ CopiesAgree' /\ NotCountedYet'
    BY LedgerTypeStep, WritersStep, CopiesHaveStep, CopiesAgreeStep, NotCountedStep
  <2>2. /\ OnlyBooked' /\ RestoredAgrees' /\ ResultsSurvive' /\ LedgerAgrees'
        /\ BalanceCountsOnce'
    BY OnlyBookedStep, RestoredStep, SurviveStep, AgreesStep, CountsOnceStep
  <2> QED BY <2>1, <2>2 DEF LedgerInv
<1> QED BY <1>1, LedgerInitInv, PTL DEF LedgerSpec

LEMMA RiskInvariance == RiskSpec => []RiskInv
<1>1. RiskInv /\ [RiskNext]_riskVars => RiskInv'
  BY RiskStep
<1> QED BY <1>1, RiskInitInv, PTL DEF RiskSpec

\* Type correctness of the ledger's copies, the state lock and the two tasks
\* (persist_full_state_unlocked, restore_orchestrator_state).
THEOREM LedgerTypeCorrect == LedgerSpec => []LedgerTypeOK
<1>1. LedgerInv => LedgerTypeOK
  BY DEF LedgerInv
<1> QED BY <1>1, LedgerInvariance, PTL

\* A booked result that was saved before every restore stays in the ledger, for
\* any number of contracts and outages.
THEOREM ResultsAlwaysSurvive == LedgerSpec => []ResultsSurvive
<1>1. LedgerInv => ResultsSurvive
  BY DEF LedgerInv
<1> QED BY <1>1, LedgerInvariance, PTL

\* Profit, losses and counter take account of the same results as long as no
\* booking or save falls into a restore.
THEOREM LedgerAlwaysAgrees == LedgerSpec => []LedgerAgrees
<1>1. LedgerInv => LedgerAgrees
  BY DEF LedgerInv
<1> QED BY <1>1, LedgerInvariance, PTL

\* The balance counts a booked result once, unless a fetch was ahead of it.
THEOREM BalanceAlwaysCountsOnce == LedgerSpec => []BalanceCountsOnce
<1>1. LedgerInv => BalanceCountsOnce
  BY DEF LedgerInv
<1> QED BY <1>1, LedgerInvariance, PTL

\* Type correctness of what a session owes: stakes and losses are never
\* negative, whatever the rates, downgrades and order of results.
THEOREM RiskTypeCorrect == RiskSpec => []RiskTypeOK
<1>1. RiskInv => RiskTypeOK
  BY DEF RiskInv
<1> QED BY <1>1, RiskInvariance, PTL

\* For any bank, target, rates, downgrades and orders of results the session is
\* never behind by more than it still recovers or has written off.
THEOREM LossesAlwaysCarried == RiskSpec => []LossesAreCarried
<1>1. RiskInv => LossesAreCarried
  BY DEF RiskInv
<1> QED BY <1>1, RiskInvariance, PTL

\* With a fixed target, and a least target by the daily rate, of twenty cents
\* or more, an order sized to reach the target in one strike leaves no more
\* than two points of its stake missing when it wins, and a session that did
\* not stake above two and a half targets counts as won, at whatever quotes,
\* stakes, balances and losses written off (pullback_stake,
\* is_stop_win_reached).
THEOREM StrikesMeetTheTarget ==
  ASSUME SmallTarget >= 20, SmallAccount * TargetRate >= 20000
  PROVE  RiskSpec => StrikeMeetsTarget
<1>1. StrikesAreSized /\ RiskInv /\ [RiskNext]_riskVars => StrikesAreSized'
  BY StrikesStep
<1>2. RiskSpec => []StrikesAreSized
  BY <1>1, StrikesInit, RiskInvariance, PTL DEF RiskSpec
<1>3. RiskInv /\ StrikesAreSized /\ [RiskNext]_riskVars
      => [\A c \in strikes : c \in settled' \ settled /\ profit' > profit =>
            /\ 100 * Target - profit' <= Max2(2 * paid[c], 99)
            /\ 2 * paid[c] <= 5 * Target => TargetReached(profit')]_riskVars
  BY StrikeReaches
<1> QED BY <1>2, <1>3, RiskInvariance, PTL DEF RiskSpec, StrikeMeetsTarget
=============================================================================
