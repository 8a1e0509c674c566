------------------------ MODULE PilotEvidenceProofs -------------------------
(***************************************************************************)
(* Proofs about PilotEvidence for any size of the sample, number of        *)
(* purchases, limit of a batch and number of faults.  An accepted row is   *)
(* followed from the queue to the table; a broker's result reaches the     *)
(* table after every row of the earlier contracts, because a contract      *)
(* settles when its own purchase is written and the queue keeps its order  *)
(* up to the one flush that overtakes the worker.  So whoever ranks before *)
(* a contract that the verdict counts is counted too.                      *)
(***************************************************************************)
EXTENDS PilotEvidence, FiniteSetTheorems, SequenceTheorems, TLAPS

PurchaseRow(c)    == Row(c, "purchase", "none", "pending")
AttributionRow(c) == Row(c, "attribution", "none", "pending")

WriterStands ==
  /\ ~writer.works => writer.batch = <<>>
  /\ stopping.stage \in {"rest", "writing rest", "closed"} => ~writer.works
  /\ stopping.stage \in {"writing rest", "closed"} => queued = <<>>
  /\ stopping.stage \notin {"writing", "writing rest"} => stopping.batch = <<>>

\* One contract at a time: all but the last have settled and are attributed.
OneAtATime ==
  /\ unattributed \subseteq {purchased}
  /\ \A c \in Purchases : c < purchased => outcome[c] # "open"
  /\ \A c \in Purchases : c > purchased => outcome[c] = "open"
  /\ \A c \in Purchases : report[c] # "none" => outcome[c] # "open"

\* No row of a contract is forgotten: it was accepted, or is known as missing.
RowsAreRecorded ==
  \A c \in Purchases :
    /\ c <= purchased => PurchaseRow(c) \in accepted \cup missing
    /\ c <= purchased /\ c \notin unattributed => AttributionRow(c) \in accepted \cup missing
    /\ report[c] = "broker" => Row(c, "settlement", outcome[c], "broker") \in accepted \cup missing

\* What names the broker as its source is what the broker said.
BrokerIsQuoted ==
  /\ \A row \in InMemory :
       row.source = "broker" => report[row.contract] = "broker" /\ row.profit = outcome[row.contract]
  /\ \A c \in Purchases :
       executions[c].source = "broker" => report[c] = "broker" /\ executions[c].profit = outcome[c]

\* A contract settles after the row of its purchase left the memory.
PurchaseWritten ==
  \A c \in Purchases : outcome[c] # "open" => PurchaseRow(c) \notin InMemory

\* An attribution goes before the purchase of the next contract: in the queue,
QueueInOrder ==
  \A i \in DOMAIN queued, d \in Purchases :
    queued[i].kind = "attribution" /\ queued[i].contract < d /\ d <= purchased
      => \E j \in DOMAIN queued : i < j /\ queued[j] = PurchaseRow(d)

\* in what the flush took of it,
FlushInOrder ==
  stopping.stage = "writing" =>
    \A c, d \in Purchases :
      c < d /\ d <= purchased /\ AttributionRow(c) \in ToSet(stopping.batch)
        => PurchaseRow(d) \in ToSet(stopping.batch)

\* and in the worker's hands until the flush is over.
BatchInOrder ==
  stopping.stage \in {"open", "flushing", "writing"} =>
    \A c, d \in Purchases :
      c < d /\ d <= purchased /\ AttributionRow(c) \in ToSet(writer.batch)
        => PurchaseRow(d) \in InMemory

InOrder == QueueInOrder /\ FlushInOrder /\ BatchInOrder

Complete(c) == executions[c].start /\ executions[c].price /\ executions[c].attributed
Lost(c)     == \E row \in missing : row.contract = c

\* When a broker's result is in the table, so is every earlier contract.
EarlierComplete ==
  \A c, d \in Purchases : executions[d].source = "broker" /\ c < d => Complete(c) \/ Lost(c)

VerdictStands ==
  registry # "piloto" => \A c \in decidedOn : c <= purchased

PilotInv ==
  /\ PilotTypeOK /\ WriterStands /\ OneAtATime /\ RowsAreRecorded /\ RowsAreWritten
  /\ BrokerIsQuoted /\ PurchaseWritten /\ InOrder /\ EarlierComplete
  /\ VerdictStands /\ DecidedOnBrokerResults

-----------------------------------------------------------------------------
(* Rows in sequence *)

LEMMA RowsOf ==
  ASSUME NEW S, NEW q \in Seq(S)
  PROVE  /\ Len(q) \in Nat /\ DOMAIN q = 1 .. Len(q)
         /\ \A i \in DOMAIN q : q[i] \in S
         /\ ToSet(q) \subseteq S
         /\ q = <<>> => ToSet(q) = {}
<1>1. Len(q) \in Nat /\ DOMAIN q = 1 .. Len(q) /\ \A i \in DOMAIN q : q[i] \in S
  BY LenProperties
<1>2. q = <<>> => DOMAIN q = {}
  BY <1>1, EmptySeq
<1> QED BY <1>1, <1>2 DEF ToSet

LEMMA AppendedRow ==
  ASSUME NEW S, NEW q \in Seq(S), NEW r \in S
  PROVE  /\ Append(q, r) \in Seq(S) /\ ToSet(Append(q, r)) = ToSet(q) \cup {r}
         /\ DOMAIN Append(q, r) = 1 .. Len(q) + 1
         /\ \A i \in DOMAIN q : Append(q, r)[i] = q[i]
         /\ Append(q, r)[Len(q) + 1] = r
<1>1. /\ Append(q, r) \in Seq(S) /\ Len(Append(q, r)) = Len(q) + 1
      /\ Append(q, r)[Len(q) + 1] = r /\ \A i \in 1 .. Len(q) : Append(q, r)[i] = q[i]
  BY AppendProperties
<1>2. DOMAIN q = 1 .. Len(q) /\ Len(q) \in Nat /\ DOMAIN Append(q, r) = 1 .. Len(q) + 1
  BY <1>1, LenProperties
<1>3. ToSet(Append(q, r)) = ToSet(q) \cup {r}
  BY <1>1, <1>2 DEF ToSet
<1> QED BY <1>1, <1>2, <1>3

LEMMA TakenRow ==
  ASSUME NEW S, NEW q \in Seq(S), q # <<>>
  PROVE  /\ Head(q) \in S /\ Tail(q) \in Seq(S) /\ ToSet(q) = {Head(q)} \cup ToSet(Tail(q))
         /\ Head(q) = q[1] /\ 1 \in DOMAIN q
         /\ DOMAIN Tail(q) = 1 .. Len(q) - 1
         /\ \A i \in DOMAIN Tail(q) : i + 1 \in DOMAIN q /\ Tail(q)[i] = q[i + 1]
<1>1. /\ Head(q) \in S /\ Tail(q) \in Seq(S) /\ Head(q) = q[1] /\ Len(Tail(q)) = Len(q) - 1
      /\ \A i \in 1 .. Len(Tail(q)) : Tail(q)[i] = q[i + 1]
  BY HeadTailProperties
<1>2. DOMAIN q = 1 .. Len(q) /\ Len(q) \in Nat /\ DOMAIN Tail(q) = 1 .. Len(q) - 1 /\ Len(q) > 0
  BY <1>1, LenProperties, EmptySeq
<1>3. \A i \in DOMAIN Tail(q) : i + 1 \in DOMAIN q /\ Tail(q)[i] = q[i + 1]
  BY <1>1, <1>2
<1>4. \A i \in DOMAIN q : i # 1 => i - 1 \in DOMAIN Tail(q) /\ Tail(q)[i - 1] = q[i]
  BY <1>1, <1>2
<1>5. ToSet(q) = {Head(q)} \cup ToSet(Tail(q))
  <2>1. ASSUME NEW i \in DOMAIN q PROVE q[i] \in {Head(q)} \cup ToSet(Tail(q))
    <3>1. CASE i = 1
      BY <1>1, <3>1
    <3>2. CASE i # 1
      BY <1>4, <3>2 DEF ToSet
    <3> QED BY <3>1, <3>2
  <2>2. ASSUME NEW x \in ToSet(Tail(q)) PROVE x \in ToSet(q)
    BY <1>3 DEF ToSet
  <2>3. Head(q) \in ToSet(q)
    BY <1>1, <1>2 DEF ToSet
  <2>4. ToSet(q) \subseteq {Head(q)} \cup ToSet(Tail(q))
    BY <2>1 DEF ToSet
  <2> QED BY <2>2, <2>3, <2>4
<1> QED BY <1>1, <1>2, <1>3, <1>5

-----------------------------------------------------------------------------
(* A batch is written row by row *)

\* A set that has 0, and with a number below n the next one, has all up to n.
LEMMA Counting ==
  ASSUME NEW n \in Nat, NEW S, 0 \in S,
         \A i \in 0 .. n : i \in S /\ i < n => i + 1 \in S
  PROVE  \A i \in 0 .. n : i \in S
<1> DEFINE Left == (0 .. n) \ S
<1>1. SUFFICES ASSUME Left # {} PROVE FALSE
  OBVIOUS
<1>2. Left \subseteq Nat
  OBVIOUS
<1>3. PICK m \in Left : \A k \in Left : <<k, m>> \notin OpToRel(<, Nat)
  <2> HIDE DEF Left
  <2> QED BY <1>1, <1>2, NatLessThanWellFounded, WFMin, Zenon
<1>4. m \in 0 .. n /\ m \notin S
  OBVIOUS
<1>5. m # 0
  BY <1>4
<1>6. m - 1 \in 0 .. n /\ m - 1 \in Nat /\ m \in Nat /\ m - 1 < m
  BY <1>4, <1>5
<1>7. <<m - 1, m>> \in OpToRel(<, Nat)
  BY <1>6, Zenon DEF OpToRel
<1>8. m - 1 \notin Left
  BY <1>3, <1>7, Zenon
<1>9. m - 1 \in S
  BY <1>6, <1>8
<1>10. (m - 1) + 1 \in S
  BY <1>4, <1>6, <1>9
<1> QED BY <1>4, <1>10

\* What is written of a row and what an execution never loses.
Shows(e, row) ==
  CASE row.kind = "purchase"    -> e.start /\ e.price
    [] row.kind = "attribution" -> e.attributed
    [] row.kind = "settlement"  -> e.profit # "none" /\ (row.source = "broker" => e.source = "broker")

Grown(e, f) ==
  /\ e.start => f.start
  /\ e.price => f.price
  /\ e.attributed => f.attributed
  /\ e.profit # "none" => f.profit # "none"
  /\ e.source = "broker" => f.source = "broker"

LEMMA RowTypes ==
  ASSUME NEW row \in Rows
  PROVE  /\ row.contract \in Purchases
         /\ row.kind \in {"purchase", "attribution", "settlement"}
         /\ row.kind = "settlement" => row.profit \in Outcomes
         /\ row.kind = "settlement" => row.source \in {"broker", "inferred_rest", "profit_table"}
         /\ row.kind # "settlement" => row.profit = "none"
         /\ row.kind # "settlement" => row.source = "pending"
  BY DEF Rows

\* The rows of a contract have their place among the rows.
LEMMA RowsExist ==
  ASSUME NEW c \in Purchases
  PROVE  /\ PurchaseRow(c) \in Rows /\ AttributionRow(c) \in Rows
         /\ PurchaseRow(c).contract = c /\ PurchaseRow(c).kind = "purchase"
         /\ AttributionRow(c).contract = c /\ AttributionRow(c).kind = "attribution"
         /\ PurchaseRow(c).source = "pending" /\ AttributionRow(c).source = "pending"
         /\ \A o \in Outcomes, s \in {"broker", "inferred_rest", "profit_table"} :
              LET row == Row(c, "settlement", o, s)
              IN /\ row \in Rows /\ row.contract = c /\ row.kind = "settlement"
                 /\ row.profit = o /\ row.source = s
  BY DEF PurchaseRow, AttributionRow, Row, Rows

LEMMA UpsertedKeeps ==
  ASSUME NEW e \in Executions, NEW row \in Rows
  PROVE  /\ Upserted(e, row) \in Executions
         /\ Grown(e, Upserted(e, row))
         /\ Shows(Upserted(e, row), row)
         /\ Upserted(e, row).source = "broker" => e.source = "broker" \/ row.source = "broker"
         /\ row.source = "broker" => Upserted(e, row).profit = row.profit
         /\ row.source # "broker" /\ e.profit # "none" => Upserted(e, row).profit = e.profit
<1> DEFINE u == Upserted(e, row)
<1>1. /\ e.start \in BOOLEAN /\ e.price \in BOOLEAN /\ e.attributed \in BOOLEAN
      /\ e.profit \in Outcomes \cup {"none"}
      /\ e.source \in {"none", "pending", "broker", "inferred_rest", "profit_table"}
  BY DEF Executions
<1>2. row.profit \in Outcomes \cup {"none"} /\ row.source \in {"pending", "broker", "inferred_rest", "profit_table"}
  BY RowTypes
<1>3. /\ u.start = (e.start \/ row.kind = "purchase" \/ row.source = "broker")
      /\ u.price = (e.price \/ Priced(row))
      /\ u.attributed = (e.attributed \/ row.kind = "attribution")
      /\ u.profit = IF row.source = "broker" \/ e.profit = "none" THEN row.profit ELSE e.profit
      /\ u.source = IF "broker" \in {row.source, e.source} THEN "broker" ELSE row.source
  BY Zenon DEF Upserted
<1>4. u \in Executions
  <2>1. u.start \in BOOLEAN /\ u.price \in BOOLEAN /\ u.attributed \in BOOLEAN
    BY <1>3, Zenon DEF Priced
  <2>2. u.profit \in Outcomes \cup {"none"} /\ u.source \in {"none", "pending", "broker", "inferred_rest", "profit_table"}
    BY <1>1, <1>2, <1>3
  <2>3. u = [start |-> u.start, price |-> u.price, attributed |-> u.attributed,
             profit |-> u.profit, source |-> u.source]
    BY Zenon DEF Upserted
  <2> HIDE DEF u
  <2> QED BY <2>1, <2>2, <2>3, Zenon DEF Executions
<1> HIDE DEF u
<1>5. Grown(e, u)
  <2>1. (e.start => u.start) /\ (e.price => u.price) /\ (e.attributed => u.attributed)
    BY <1>3, Zenon
  <2>2. e.profit # "none" => u.profit # "none"
    BY <1>2, <1>3, RowTypes DEF Outcomes
  <2>3. e.source = "broker" => u.source = "broker"
    BY <1>3
  <2> QED BY <2>1, <2>2, <2>3, Zenon DEF Grown
<1>6. Shows(u, row)
  <2>1. row.kind = "purchase" => u.start /\ u.price
    BY <1>3, Zenon DEF Priced
  <2>2. row.kind = "attribution" => u.attributed
    BY <1>3, Zenon
  <2>3. row.kind = "settlement" => u.profit # "none" /\ (row.source = "broker" => u.source = "broker")
    BY <1>1, <1>3, RowTypes DEF Outcomes
  <2>4. CASE row.kind = "purchase"
    BY <2>1, <2>4, Zenon DEF Shows
  <2>5. CASE row.kind = "attribution"
    BY <2>2, <2>5, "purchase" # "attribution", Zenon DEF Shows
  <2>6. CASE row.kind = "settlement"
    BY <2>3, <2>6, "settlement" # "purchase", "settlement" # "attribution", Zenon DEF Shows
  <2> QED BY <2>4, <2>5, <2>6, RowTypes
<1>7. u.source = "broker" => e.source = "broker" \/ row.source = "broker"
  BY <1>3
<1>8. /\ row.source = "broker" => u.profit = row.profit
      /\ row.source # "broker" /\ e.profit # "none" => u.profit = e.profit
  BY <1>3
<1> QED BY <1>4, <1>5, <1>6, <1>7, <1>8 DEF u

LEMMA GrownShows ==
  ASSUME NEW e, NEW f, NEW row \in Rows, Grown(e, f), Shows(e, row)
  PROVE  Shows(f, row)
<1>1. CASE row.kind = "purchase"
  BY <1>1, Zenon DEF Shows, Grown
<1>2. CASE row.kind = "attribution"
  BY <1>2, "purchase" # "attribution", Zenon DEF Shows, Grown
<1>3. CASE row.kind = "settlement"
  BY <1>3, "settlement" # "purchase", "settlement" # "attribution", Zenon DEF Shows, Grown
<1> QED BY <1>1, <1>2, <1>3, RowTypes

LEMMA GrownTransitive ==
  ASSUME NEW e, NEW f, NEW g, Grown(e, f), Grown(f, g)
  PROVE  Grown(e, g)
  BY Zenon DEF Grown

LEMMA GrownReflexive ==
  ASSUME NEW e
  PROVE  Grown(e, e)
  BY Zenon DEF Grown

\* The table row after row, of which the batch leaves the last.
LEMMA BatchByRow ==
  ASSUME NEW batch \in Seq(Rows)
  PROVE  \E table :
           /\ table[0] = executions
           /\ \A i \in 1 .. Len(batch) : table[i] = Upsert(table[i - 1], batch[i])
           /\ AfterBatch(batch) = table[Len(batch)]
<1>1. Len(batch) \in Nat
  BY LenProperties
<1> DEFINE Made(t, n) == t = [i \in 0 .. n |-> IF i = 0 THEN executions
                                               ELSE Upsert(t[i - 1], batch[i])]
           S == {n \in 0 .. Len(batch) : \E t : Made(t, n)}
<1>2. 0 \in S
  <2>1. Made([i \in 0 .. 0 |-> executions], 0)
    OBVIOUS
  <2>2. 0 \in 0 .. Len(batch)
    BY <1>1
  <2> HIDE DEF Made
  <2> QED BY <2>1, <2>2
<1>3. ASSUME NEW n \in 0 .. Len(batch), n \in S, n < Len(batch)
      PROVE  n + 1 \in S
  <2>1. PICK t : Made(t, n)
    BY <1>3
  <2> DEFINE g == [i \in 0 .. n + 1 |-> IF i <= n THEN t[i] ELSE Upsert(t[n], batch[n + 1])]
  <2>2. ASSUME NEW i \in 0 .. n + 1
        PROVE  g[i] = IF i = 0 THEN executions ELSE Upsert(g[i - 1], batch[i])
    <3>1. CASE i <= n
      <4>1. g[i] = t[i] /\ (i # 0 => g[i - 1] = t[i - 1]) /\ i \in 0 .. n
        BY <3>1
      <4>2. t[i] = IF i = 0 THEN executions ELSE Upsert(t[i - 1], batch[i])
        BY <2>1, <4>1
      <4> HIDE DEF g, Made
      <4> QED BY <4>1, <4>2
    <3>2. CASE i = n + 1
      <4>1. g[i] = Upsert(t[n], batch[i]) /\ g[i - 1] = t[n] /\ i # 0
        BY <3>2
      <4> HIDE DEF g, Made
      <4> QED BY <4>1
    <3> QED BY <3>1, <3>2
  <2>3. Made(g, n + 1)
    BY <2>2
  <2>4. n + 1 \in 0 .. Len(batch)
    BY <1>3, <1>1
  <2> HIDE DEF Made, g
  <2> QED BY <2>3, <2>4
<1>4. Len(batch) \in S
  <2> HIDE DEF S
  <2>1. \A i \in 0 .. Len(batch) : i \in S
    BY <1>1, <1>2, <1>3, Counting
  <2> QED BY <1>1, <2>1
<1>5. \E t : Made(t, Len(batch))
  BY <1>4
<1> DEFINE table == CHOOSE t : Made(t, Len(batch))
<1>6. Made(table, Len(batch))
  <2> HIDE DEF Made
  <2> QED BY <1>5
<1>7. AfterBatch(batch) = table[Len(batch)]
  BY Zenon DEF AfterBatch
<1> HIDE DEF table
<1>8. /\ table[0] = executions
      /\ \A i \in 1 .. Len(batch) : table[i] = Upsert(table[i - 1], batch[i])
  BY <1>1, <1>6
<1> QED BY <1>7, <1>8

\* A row's execution alone is touched, as the upsert has it.
LEMMA UpsertKeeps ==
  ASSUME NEW table \in [Purchases -> Executions], NEW row \in Rows
  PROVE  /\ Upsert(table, row) \in [Purchases -> Executions]
         /\ \A c \in Purchases : Grown(table[c], Upsert(table, row)[c])
         /\ Shows(Upsert(table, row)[row.contract], row)
         /\ \A c \in Purchases :
              Upsert(table, row)[c].source = "broker"
                => table[c].source = "broker" \/ (row.contract = c /\ row.source = "broker")
         /\ \A c \in Purchases :
              /\ row.contract # c => Upsert(table, row)[c].profit = table[c].profit
              /\ row.contract = c /\ row.source = "broker" => Upsert(table, row)[c].profit = row.profit
              /\ row.source # "broker" /\ table[c].profit # "none"
                   => Upsert(table, row)[c].profit = table[c].profit
<1> DEFINE k == row.contract
           u == Upserted(table[k], row)
<1>1. k \in Purchases /\ table[k] \in Executions
  BY RowTypes
<1>2. /\ u \in Executions /\ Grown(table[k], u) /\ Shows(u, row)
      /\ u.source = "broker" => table[k].source = "broker" \/ row.source = "broker"
      /\ row.source = "broker" => u.profit = row.profit
      /\ row.source # "broker" /\ table[k].profit # "none" => u.profit = table[k].profit
  BY <1>1, UpsertedKeeps
<1>3. Upsert(table, row) = [table EXCEPT ![k] = u]
  BY Zenon DEF Upsert
<1> HIDE DEF u
<1>4. /\ Upsert(table, row) \in [Purchases -> Executions] /\ Upsert(table, row)[k] = u
      /\ \A c \in Purchases : c # k => Upsert(table, row)[c] = table[c]
  BY <1>1, <1>2, <1>3
<1>5. ASSUME NEW c \in Purchases
      PROVE  /\ Grown(table[c], Upsert(table, row)[c])
             /\ Upsert(table, row)[c].source = "broker"
                  => table[c].source = "broker" \/ (row.contract = c /\ row.source = "broker")
             /\ row.contract # c => Upsert(table, row)[c].profit = table[c].profit
             /\ row.contract = c /\ row.source = "broker" => Upsert(table, row)[c].profit = row.profit
             /\ row.source # "broker" /\ table[c].profit # "none"
                  => Upsert(table, row)[c].profit = table[c].profit
  <2>1. CASE c = k
    BY <1>2, <1>4, <2>1
  <2>2. CASE c # k
    BY <1>4, <2>2, GrownReflexive
  <2> QED BY <2>1, <2>2
<1>6. Shows(Upsert(table, row)[k], row)
  BY <1>2, <1>4
<1> QED BY <1>4, <1>5, <1>6

\* What a batch does to the table: nothing is lost, each row shows, and what
\* names the broker afterwards did so before or has a row of the broker in it.
\* Where the broker's rows quote what it paid, so does the table.
LEMMA BatchKeeps ==
  ASSUME NEW batch \in Seq(Rows), executions \in [Purchases -> Executions],
         outcome \in [Purchases -> Outcomes \cup {"open"}]
  PROVE  /\ AfterBatch(batch) \in [Purchases -> Executions]
         /\ \A c \in Purchases : Grown(executions[c], AfterBatch(batch)[c])
         /\ \A row \in ToSet(batch) : Shows(AfterBatch(batch)[row.contract], row)
         /\ \A c \in Purchases :
              AfterBatch(batch)[c].source = "broker" =>
                \/ executions[c].source = "broker"
                \/ \E row \in ToSet(batch) : row.contract = c /\ row.source = "broker"
         /\ (/\ \A c \in Purchases :
                  executions[c].source = "broker" => executions[c].profit = outcome[c]
             /\ \A row \in ToSet(batch) :
                  row.source = "broker" => row.profit = outcome[row.contract])
              => \A c \in Purchases :
                   AfterBatch(batch)[c].source = "broker" => AfterBatch(batch)[c].profit = outcome[c]
<1>1. Len(batch) \in Nat /\ DOMAIN batch = 1 .. Len(batch) /\ \A i \in DOMAIN batch : batch[i] \in Rows
  BY RowsOf
<1>2. PICK table :
        /\ table[0] = executions
        /\ \A i \in 1 .. Len(batch) : table[i] = Upsert(table[i - 1], batch[i])
        /\ AfterBatch(batch) = table[Len(batch)]
  BY BatchByRow
<1>3. /\ \A i \in 1 .. Len(batch) : batch[i] \in ToSet(batch)
      /\ \A row \in ToSet(batch) : \E i \in 1 .. Len(batch) : row = batch[i]
  BY <1>1 DEF ToSet
<1> DEFINE Quoting == /\ \A c \in Purchases :
                           executions[c].source = "broker" => executions[c].profit = outcome[c]
                      /\ \A row \in ToSet(batch) :
                           row.source = "broker" => row.profit = outcome[row.contract]
           Typed(i)  == table[i] \in [Purchases -> Executions]
           Grew(i)   == \A c \in Purchases : Grown(executions[c], table[i][c])
           Shown(i)  == \A j \in 1 .. i : Shows(table[i][batch[j].contract], batch[j])
           Heard(i)  == \A c \in Purchases :
                          table[i][c].source = "broker" =>
                            \/ executions[c].source = "broker"
                            \/ \E row \in ToSet(batch) : row.contract = c /\ row.source = "broker"
           Quotes(i) == Quoting => \A c \in Purchases :
                          table[i][c].source = "broker" => table[i][c].profit = outcome[c]
           S == {i \in 0 .. Len(batch) : Typed(i) /\ Grew(i) /\ Shown(i) /\ Heard(i) /\ Quotes(i)}
<1>4. 0 \in S
  <2>1. Typed(0) /\ Heard(0) /\ Quotes(0)
    BY <1>2
  <2>2. Grew(0)
    BY <1>2, GrownReflexive
  <2>3. Shown(0)
    OBVIOUS
  <2>4. 0 \in 0 .. Len(batch)
    BY <1>1
  <2> HIDE DEF Typed, Grew, Shown, Heard, Quotes
  <2> QED BY <2>1, <2>2, <2>3, <2>4
<1>5. ASSUME NEW i \in 0 .. Len(batch), i \in S, i < Len(batch)
      PROVE  i + 1 \in S
  <2>1. /\ i + 1 \in 1 .. Len(batch) /\ i + 1 \in 0 .. Len(batch) /\ (i + 1) - 1 = i
        /\ \A j \in 1 .. i + 1 : j = i + 1 \/ j \in 1 .. i
        /\ \A j \in 1 .. i : j \in 1 .. Len(batch)
    BY <1>1, <1>5
  <2>2. Typed(i) /\ Grew(i) /\ Shown(i) /\ Heard(i) /\ Quotes(i)
    BY <1>5
  <2> DEFINE r   == batch[i + 1]
             old == table[i]
             new == table[i + 1]
  <2>3. new = Upsert(old, r) /\ r \in Rows /\ r \in ToSet(batch)
    BY <1>1, <1>2, <1>3, <2>1
  <2>4. old \in [Purchases -> Executions]
    BY <2>2
  <2> HIDE DEF S, r, old, new
  <2>5. /\ new \in [Purchases -> Executions]
        /\ \A c \in Purchases : Grown(old[c], new[c])
        /\ Shows(new[r.contract], r)
        /\ \A c \in Purchases :
             new[c].source = "broker"
               => old[c].source = "broker" \/ (r.contract = c /\ r.source = "broker")
        /\ \A c \in Purchases :
             /\ r.contract # c => new[c].profit = old[c].profit
             /\ r.contract = c /\ r.source = "broker" => new[c].profit = r.profit
             /\ r.source # "broker" /\ old[c].profit # "none" => new[c].profit = old[c].profit
    BY <2>3, <2>4, UpsertKeeps
  <2>6. Typed(i + 1)
    BY <2>5 DEF new
  <2>7. Grew(i + 1)
    <3>1. \A c \in Purchases : Grown(executions[c], old[c])
      BY <2>2 DEF old
    <3>2. \A c \in Purchases : Grown(executions[c], new[c])
      BY <2>5, <3>1, GrownTransitive
    <3> QED BY <3>2 DEF new
  <2>8. Shown(i + 1)
    <3>1. ASSUME NEW j \in 1 .. i + 1 PROVE Shows(new[batch[j].contract], batch[j])
      <4>1. CASE j = i + 1
        BY <2>5, <4>1 DEF r
      <4>2. CASE j \in 1 .. i
        <5>1. batch[j] \in Rows /\ batch[j].contract \in Purchases
          BY <1>1, <2>1, <4>2, RowTypes
        <5>2. Shows(old[batch[j].contract], batch[j])
          BY <2>2, <4>2 DEF old
        <5>3. Grown(old[batch[j].contract], new[batch[j].contract])
          BY <2>5, <5>1
        <5> QED BY <5>1, <5>2, <5>3, GrownShows
      <4> QED BY <2>1, <4>1, <4>2
    <3> QED BY <3>1 DEF new
  <2>9. Heard(i + 1)
    <3>1. ASSUME NEW c \in Purchases, new[c].source = "broker"
          PROVE  \/ executions[c].source = "broker"
                 \/ \E row \in ToSet(batch) : row.contract = c /\ row.source = "broker"
      <4>1. CASE old[c].source = "broker"
        BY <2>2, <4>1 DEF old
      <4>2. CASE r.contract = c /\ r.source = "broker"
        BY <2>3, <4>2
      <4> QED BY <2>5, <3>1, <4>1, <4>2
    <3> QED BY <3>1 DEF new
  <2>10. Quotes(i + 1)
    <3>1. ASSUME Quoting, NEW c \in Purchases, new[c].source = "broker"
          PROVE  new[c].profit = outcome[c]
      <4>1. r.source = "broker" => r.profit = outcome[r.contract]
        BY <2>3, <3>1
      <4>2. old[c].source = "broker" => old[c].profit = outcome[c]
        BY <2>2, <3>1 DEF old
      <4>3. outcome[c] # "none"
        BY DEF Outcomes
      <4> HIDE DEF Quoting
      <4>4. CASE r.contract = c /\ r.source = "broker"
        BY <2>5, <4>1, <4>4
      <4>5. CASE r.contract # c
        BY <2>5, <3>1, <4>2, <4>5
      <4>6. CASE r.source # "broker"
        BY <2>5, <3>1, <4>2, <4>3, <4>6
      <4> QED BY <4>4, <4>5, <4>6
    <3> HIDE DEF Quoting
    <3> QED BY <3>1 DEF new
  <2> HIDE DEF Typed, Grew, Shown, Heard, Quotes
  <2> QED BY <2>1, <2>6, <2>7, <2>8, <2>9, <2>10 DEF S
<1>6. Len(batch) \in S
  <2> HIDE DEF S
  <2>1. \A i \in 0 .. Len(batch) : i \in S
    BY <1>1, <1>4, <1>5, Counting
  <2> QED BY <1>1, <2>1
<1>7. Typed(Len(batch)) /\ Grew(Len(batch)) /\ Shown(Len(batch)) /\ Heard(Len(batch)) /\ Quotes(Len(batch))
  BY <1>6
<1>8. \A row \in ToSet(batch) : Shows(AfterBatch(batch)[row.contract], row)
  <2>1. ASSUME NEW row \in ToSet(batch) PROVE Shows(AfterBatch(batch)[row.contract], row)
    <3>1. PICK j \in 1 .. Len(batch) : row = batch[j]
      BY <1>3
    <3> QED BY <1>2, <1>7, <3>1
  <2> QED BY <2>1
<1> QED BY <1>2, <1>7, <1>8

-----------------------------------------------------------------------------
(* Types *)

LEMMA PilotInitTypes == PilotInit => PilotTypeOK
<1> SUFFICES ASSUME PilotInit PROVE PilotTypeOK
  OBVIOUS
<1>1. <<>> \in Seq(Rows)
  OBVIOUS
<1>2. NoExecution \in Executions
  BY DEF NoExecution, Executions
<1>3. writer \in [works : BOOLEAN, batch : Seq(Rows)] /\ stopping \in [stage : StopStages, batch : Seq(Rows)]
  BY <1>1 DEF PilotInit, Idle, Running, StopStages
<1> QED BY <1>1, <1>2, <1>3, PilotAssumption DEF PilotInit, PilotTypeOK

LEMMA WriterStates ==
  /\ Idle \in [works : BOOLEAN, batch : Seq(Rows)] /\ ~Idle.works /\ Idle.batch = <<>>
  /\ Working \in [works : BOOLEAN, batch : Seq(Rows)] /\ Working.works /\ Working.batch = <<>>
  /\ Running \in [stage : StopStages, batch : Seq(Rows)] /\ Running.stage = "open"
  /\ Running.batch = <<>>
<1>1. <<>> \in Seq(Rows)
  OBVIOUS
<1> QED BY <1>1 DEF Idle, Working, Running, StopStages

\* Where a row goes that is put into the queue.
Enqueued(row) ==
  \/ /\ missing' = missing \cup {row} /\ accepted' = accepted
     /\ queued' = queued /\ writer' = writer
  \/ /\ ~Refusing /\ missing' = missing /\ accepted' = accepted \cup {row}
     /\ queued' = Append(queued, row) /\ queued' \in Seq(Rows)
     /\ writer' = IF writer.works THEN writer ELSE Working

LEMMA EnqueueTypes ==
  ASSUME PilotTypeOK, NEW row \in Rows, Enqueue(row)
  PROVE  /\ Enqueued(row) /\ queued' \in Seq(Rows) /\ accepted' \subseteq Rows /\ missing' \subseteq Rows
         /\ writer' \in [works : BOOLEAN, batch : Seq(Rows)]
<1>1. CASE Refusing
  BY <1>1 DEF Enqueue, Enqueued, PilotTypeOK
<1>2. CASE ~Refusing
  <2>1. /\ missing' = missing /\ accepted' = accepted \cup {row} /\ queued' = Append(queued, row)
        /\ writer' = IF writer.works THEN writer ELSE Working
    BY <1>2 DEF Enqueue, EnsureWorker
  <2>2. queued' \in Seq(Rows)
    BY <2>1, AppendedRow DEF PilotTypeOK
  <2> QED BY <1>2, <2>1, <2>2, WriterStates DEF Enqueued, PilotTypeOK
<1> QED BY <1>1, <1>2

LEMMA PilotTypeStep ==
  ASSUME PilotTypeOK, [PilotNext]_pilotVars
  PROVE  PilotTypeOK'
<1>a. MaxPurchases \in Nat /\ Sample \in Nat /\ BatchLimit \in Nat
  BY PilotAssumption
<1>b. /\ ToSet(queued) \subseteq Rows /\ ToSet(writer.batch) \subseteq Rows /\ ToSet(stopping.batch) \subseteq Rows
      /\ writer.batch \in Seq(Rows) /\ stopping.batch \in Seq(Rows) /\ <<>> \in Seq(Rows)
  <2>1. writer.batch \in Seq(Rows) /\ stopping.batch \in Seq(Rows) /\ queued \in Seq(Rows) /\ <<>> \in Seq(Rows)
    BY DEF PilotTypeOK
  <2> QED BY <2>1, RowsOf
<1>c. ASSUME NEW batch \in Seq(Rows) PROVE AfterBatch(batch) \in [Purchases -> Executions]
  BY BatchKeeps DEF PilotTypeOK
<1>d. /\ "flushing" \in StopStages /\ "writing" \in StopStages /\ "flushed" \in StopStages
      /\ "draining" \in StopStages /\ "rest" \in StopStages /\ "writing rest" \in StopStages
      /\ "closed" \in StopStages /\ "aborted" \in StopStages
  BY DEF StopStages
<1>1. CASE Purchase
  <2> DEFINE c == purchased + 1
  <2>1. /\ c \in Purchases /\ purchased' = c /\ unattributed' = {c} /\ Enqueue(PurchaseRow(c))
        /\ UNCHANGED <<outcome, report, stopping, evidenceVars, failures, stops>>
    BY <1>1 DEF Purchase, PurchaseRow
  <2>2. PurchaseRow(c) \in Rows
    BY <2>1, RowsExist
  <2>3. purchased' \in 0 .. MaxPurchases /\ unattributed' \subseteq Purchases
    BY <1>a, <2>1 DEF Purchases
  <2> HIDE DEF c
  <2> QED BY <2>1, <2>2, <2>3, EnqueueTypes DEF PilotTypeOK, evidenceVars
<1>2. CASE EnqueueTick
  BY <1>2, WriterStates DEF EnqueueTick, EnsureWorker, PilotTypeOK, tradeVars, evidenceVars
<1>3. CASE Collect
  <2>1. queued' = Tail(queued) /\ writer' = [writer EXCEPT !.batch = Append(@, Head(queued))] /\ queued # <<>>
    BY <1>3 DEF Collect
  <2>2. Head(queued) \in Rows /\ Tail(queued) \in Seq(Rows)
    BY <2>1, TakenRow DEF PilotTypeOK
  <2>3. Append(writer.batch, Head(queued)) \in Seq(Rows)
    BY <1>b, <2>2, AppendedRow
  <2>4. writer' \in [works : BOOLEAN, batch : Seq(Rows)]
    BY <2>1, <2>3 DEF PilotTypeOK
  <2> QED BY <1>3, <2>1, <2>2, <2>4 DEF Collect, PilotTypeOK, tradeVars, evidenceVars
<1>4. CASE BatchWritten
  BY <1>4, <1>b, <1>c, WriterStates DEF BatchWritten, PilotTypeOK, tradeVars
<1>5. CASE BatchFails
  BY <1>5, <1>b, WriterStates DEF BatchFails, PilotTypeOK, tradeVars, evidenceVars
<1>6. ASSUME NEW c \in Purchases, Attribute(c) PROVE PilotTypeOK'
  <2>1. /\ Enqueue(AttributionRow(c)) /\ unattributed' = unattributed \ {c}
        /\ UNCHANGED <<purchased, outcome, report, stopping, evidenceVars, failures, stops>>
    BY <1>6 DEF Attribute, AttributionRow
  <2> QED BY <2>1, RowsExist, EnqueueTypes DEF PilotTypeOK, evidenceVars
<1>7. ASSUME NEW c \in Purchases, NEW how \in Reports, NEW o \in Outcomes, Settled(c, how, o),
             NEW row \in Rows, Enqueue(row)
      PROVE  PilotTypeOK'
  BY <1>7, EnqueueTypes DEF Settled, PilotTypeOK, evidenceVars
<1>8. ASSUME NEW c \in Purchases, SettleByBroker(c) PROVE PilotTypeOK'
  <2>1. PICK o \in Outcomes : Settled(c, "broker", o) /\ Enqueue(Row(c, "settlement", o, "broker"))
    BY <1>8 DEF SettleByBroker
  <2>2. Row(c, "settlement", o, "broker") \in Rows
    BY RowsExist
  <2>3. "broker" \in Reports
    BY DEF Reports
  <2> QED BY <1>7, <2>1, <2>2, <2>3
<1>9. ASSUME NEW c \in Purchases, SettleByBalance(c) \/ SettleByTable(c) PROVE PilotTypeOK'
  <2>1. PICK how \in {"inferred_rest", "profit_table"}, o \in Outcomes, guess \in Outcomes :
          Settled(c, how, o) /\ Enqueue(Row(c, "settlement", guess, how))
    BY <1>9 DEF SettleByBalance, SettleByTable
  <2>2. Row(c, "settlement", guess, how) \in Rows
    BY RowsExist
  <2>3. how \in Reports
    BY DEF Reports
  <2> QED BY <1>7, <2>1, <2>2, <2>3
<1>10. ASSUME NEW c \in Purchases, SettleLate(c) PROVE PilotTypeOK'
  <2>1. PICK o \in Outcomes : Settled(c, "late", o) /\ UNCHANGED <<queued, writer, accepted, missing>>
    BY <1>10 DEF SettleLate
  <2> QED BY <2>1 DEF Settled, PilotTypeOK, evidenceVars, Reports
<1>11. CASE Shutdown
  <2>1. stopping' = [stopping EXCEPT !.stage = "flushing"] /\ stops' = stops + 1
    BY <1>11 DEF Shutdown, Stage
  <2>2. stopping \in [stage : StopStages, batch : Seq(Rows)] /\ stops \in Nat
    BY DEF PilotTypeOK
  <2>3. stopping' \in [stage : StopStages, batch : Seq(Rows)]
    BY <1>d, <2>1, <2>2
  <2>4. stops' \in Nat
    BY <2>1, <2>2
  <2> QED BY <1>11, <2>3, <2>4 DEF Shutdown, PilotTypeOK, tradeVars, evidenceVars
<1>12. ASSUME NEW from, NEW writing \in StopStages, NEW next \in StopStages, FlushTakes(from, writing, next)
       PROVE  PilotTypeOK'
  BY <1>12, <1>b DEF FlushTakes, PilotTypeOK, tradeVars, evidenceVars
<1>13. ASSUME NEW writing, NEW next \in StopStages, FlushSucceeds(writing, next)
       PROVE  PilotTypeOK'
  BY <1>13, <1>b, <1>c DEF FlushSucceeds, PilotTypeOK, tradeVars
<1>14. ASSUME NEW writing, FlushFails(writing) PROVE PilotTypeOK'
  <2>1. stopping' \in [stage : StopStages, batch : Seq(Rows)]
    BY <1>14, <1>b, <1>d DEF FlushFails
  <2> QED BY <1>14, <1>b, <2>1 DEF FlushFails, PilotTypeOK, tradeVars, evidenceVars
<1>15. CASE Flush
  BY <1>15, <1>12, <1>13, <1>14, <1>d DEF Flush
<1>16. CASE CloseWriter
  BY <1>16, <1>d DEF CloseWriter, Stage, PilotTypeOK, tradeVars, evidenceVars
<1>17. CASE WorkerEnds
  BY <1>17, WriterStates DEF WorkerEnds, PilotTypeOK, tradeVars, evidenceVars
<1>18. CASE WorkerAwaited
  BY <1>18, <1>d DEF WorkerAwaited, Stage, PilotTypeOK, tradeVars, evidenceVars
<1>19. CASE FlushRest
  BY <1>19, <1>12, <1>13, <1>14, <1>d DEF FlushRest
<1>20. CASE Restarted \/ Crashed
  <2>1. StartAnew /\ (UNCHANGED stops \/ stops' = stops + 1)
    BY <1>20 DEF Restarted, Crashed
  <2>2. {AttributionRow(c) : c \in unattributed} \subseteq Rows
    BY RowsExist DEF PilotTypeOK
  <2>3. missing' = missing \cup InMemory \cup {AttributionRow(c) : c \in unattributed}
    BY <2>1 DEF StartAnew, AttributionRow
  <2>4. missing' \subseteq Rows
    BY <1>b, <2>2, <2>3 DEF InMemory, PilotTypeOK
  <2> QED BY <1>b, <2>1, <2>4, WriterStates DEF StartAnew, PilotTypeOK, evidenceVars
<1>21. CASE Promote
  BY <1>21 DEF Promote, Ranked, PilotTypeOK, tradeVars
<1>22. CASE UNCHANGED pilotVars
  BY <1>22 DEF pilotVars, PilotTypeOK
<1> QED
  BY <1>1, <1>2, <1>3, <1>4, <1>5, <1>6, <1>8, <1>9, <1>10, <1>11, <1>15, <1>16, <1>17, <1>18,
     <1>19, <1>20, <1>21, <1>22 DEF PilotNext

-----------------------------------------------------------------------------
(* The writer's states *)

LEMMA EnqueueStands ==
  ASSUME PilotTypeOK, WriterStands, NEW row \in Rows, Enqueue(row), UNCHANGED stopping
  PROVE  WriterStands'
<1>1. Enqueued(row)
  BY EnqueueTypes
<1>2. writer'.works => writer' = writer \/ ~Refusing
  BY <1>1 DEF Enqueued
<1>3. CASE writer' = writer /\ queued' = queued
  BY <1>3 DEF WriterStands
<1>4. CASE ~Refusing /\ writer' = IF writer.works THEN writer ELSE Working
  BY <1>4, WriterStates DEF WriterStands, Refusing
<1> QED BY <1>1, <1>3, <1>4 DEF Enqueued

LEMMA StageMoves ==
  ASSUME PilotTypeOK, NEW from, NEW to, Stage(from, to)
  PROVE  stopping.stage = from /\ stopping'.stage = to /\ stopping'.batch = stopping.batch
<1>1. stopping \in [stage : StopStages, batch : Seq(Rows)]
  BY DEF PilotTypeOK
<1>2. stopping.stage = from /\ stopping' = [stopping EXCEPT !.stage = to]
  BY Zenon DEF Stage
<1> QED BY <1>1, <1>2

LEMMA StoppingHas ==
  \A stage, batch :
    LET s == [stage |-> stage, batch |-> batch] IN s.stage = stage /\ s.batch = batch
  OBVIOUS

LEMMA WriterStep ==
  ASSUME PilotTypeOK, WriterStands, [PilotNext]_pilotVars
  PROVE  WriterStands'
<1>1. CASE Purchase
  <2> DEFINE c == purchased + 1
  <2>1. c \in Purchases /\ Enqueue(PurchaseRow(c)) /\ UNCHANGED stopping
    BY <1>1 DEF Purchase, PurchaseRow
  <2> HIDE DEF c
  <2> QED BY <2>1, RowsExist, EnqueueStands
<1>2. CASE EnqueueTick
  BY <1>2, WriterStates DEF EnqueueTick, EnsureWorker, Refusing, WriterStands
<1>3. CASE Collect
  <2>1. writer.works /\ writer'.works /\ queued # <<>> /\ UNCHANGED stopping
    BY <1>3 DEF Collect, PilotTypeOK
  <2> QED BY <2>1 DEF WriterStands
<1>4. CASE BatchWritten
  BY <1>4, WriterStates DEF BatchWritten, Refusing, WriterStands
<1>5. CASE BatchFails
  BY <1>5, WriterStates DEF BatchFails, WriterStands
<1>6. ASSUME NEW c \in Purchases, Attribute(c) PROVE WriterStands'
  <2>1. Enqueue(AttributionRow(c)) /\ UNCHANGED stopping
    BY <1>6 DEF Attribute, AttributionRow
  <2> QED BY <2>1, RowsExist, EnqueueStands
<1>7. ASSUME NEW c \in Purchases, SettleByBroker(c) PROVE WriterStands'
  <2>1. PICK o \in Outcomes : Enqueue(Row(c, "settlement", o, "broker")) /\ UNCHANGED stopping
    BY <1>7 DEF SettleByBroker, Settled
  <2>2. Row(c, "settlement", o, "broker") \in Rows
    BY RowsExist
  <2> QED BY <2>1, <2>2, EnqueueStands
<1>8. ASSUME NEW c \in Purchases, SettleByBalance(c) \/ SettleByTable(c) PROVE WriterStands'
  <2>1. PICK how \in {"inferred_rest", "profit_table"}, guess \in Outcomes :
          Enqueue(Row(c, "settlement", guess, how)) /\ UNCHANGED stopping
    BY <1>8 DEF SettleByBalance, SettleByTable, Settled
  <2>2. Row(c, "settlement", guess, how) \in Rows
    BY RowsExist
  <2> QED BY <2>1, <2>2, EnqueueStands
<1>9. ASSUME NEW c \in Purchases, SettleLate(c) PROVE WriterStands'
  BY <1>9 DEF SettleLate, Settled, WriterStands
<1>10. CASE Shutdown
  <2>1. Stage("open", "flushing") /\ queued' = queued /\ writer' = writer
    BY <1>10 DEF Shutdown
  <2>2. stopping.stage = "open" /\ stopping'.stage = "flushing" /\ stopping'.batch = stopping.batch
    BY <2>1, StageMoves
  <2> QED BY <2>1, <2>2 DEF WriterStands
<1>11. CASE FlushTakes("flushing", "writing", "flushed") \/ FlushTakes("rest", "writing rest", "closed")
  <2>1. writer' = writer /\ queued' = <<>>
    BY <1>11 DEF FlushTakes
  <2>2. CASE FlushTakes("flushing", "writing", "flushed")
    <3>1. /\ stopping.stage = "flushing"
          /\ \/ stopping' = [stage |-> "flushed", batch |-> <<>>]
             \/ stopping' = [stage |-> "writing", batch |-> queued]
      BY <2>2 DEF FlushTakes
    <3>2. stopping'.stage = "writing" \/ (stopping'.stage = "flushed" /\ stopping'.batch = <<>>)
      BY <3>1, StoppingHas, Zenon
    <3> QED BY <2>1, <3>1, <3>2 DEF WriterStands
  <2>3. CASE FlushTakes("rest", "writing rest", "closed")
    <3>1. /\ stopping.stage = "rest"
          /\ \/ stopping' = [stage |-> "closed", batch |-> <<>>]
             \/ stopping' = [stage |-> "writing rest", batch |-> queued]
      BY <2>3 DEF FlushTakes
    <3>2. stopping'.stage = "writing rest" \/ (stopping'.stage = "closed" /\ stopping'.batch = <<>>)
      BY <3>1, StoppingHas, Zenon
    <3> QED BY <2>1, <3>1, <3>2 DEF WriterStands
  <2> QED BY <1>11, <2>2, <2>3
<1>12. CASE \/ FlushSucceeds("writing", "flushed") \/ FlushSucceeds("writing rest", "closed")
            \/ FlushFails("writing") \/ FlushFails("writing rest")
  <2>1. writer' = writer /\ queued' = queued
    BY <1>12 DEF FlushSucceeds, FlushFails
  <2>2. \/ stopping' = [stage |-> "flushed", batch |-> <<>>]
        \/ stopping' = [stage |-> "aborted", batch |-> <<>>]
        \/ stopping.stage = "writing rest" /\ stopping' = [stage |-> "closed", batch |-> <<>>]
    BY <1>12 DEF FlushSucceeds, FlushFails
  <2>3. /\ stopping'.batch = <<>>
        /\ \/ stopping'.stage = "flushed" \/ stopping'.stage = "aborted"
           \/ stopping.stage = "writing rest" /\ stopping'.stage = "closed"
    <3>1. CASE stopping' = [stage |-> "flushed", batch |-> <<>>]
      BY <3>1, StoppingHas, Zenon
    <3>2. CASE stopping' = [stage |-> "aborted", batch |-> <<>>]
      BY <3>2, StoppingHas, Zenon
    <3>3. CASE stopping.stage = "writing rest" /\ stopping' = [stage |-> "closed", batch |-> <<>>]
      BY <3>3, StoppingHas, Zenon
    <3> QED BY <2>2, <3>1, <3>2, <3>3
  <2> QED BY <2>1, <2>3 DEF WriterStands
<1>13. CASE Flush \/ FlushRest
  BY <1>11, <1>12, <1>13 DEF Flush, FlushRest
<1>14. CASE CloseWriter
  <2>1. Stage("flushed", "draining") /\ queued' = queued /\ writer' = writer
    BY <1>14 DEF CloseWriter
  <2>2. stopping.stage = "flushed" /\ stopping'.stage = "draining" /\ stopping'.batch = stopping.batch
    BY <2>1, StageMoves
  <2> QED BY <2>1, <2>2 DEF WriterStands
<1>15. CASE WorkerEnds
  <2>1. writer' = Idle /\ queued' = queued /\ stopping' = stopping
    BY <1>15 DEF WorkerEnds
  <2> QED BY <2>1, WriterStates DEF WriterStands
<1>16. CASE WorkerAwaited
  <2>1. Stage("draining", "rest") /\ queued' = queued /\ writer' = writer /\ ~writer.works
    BY <1>16 DEF WorkerAwaited
  <2>2. stopping.stage = "draining" /\ stopping'.stage = "rest" /\ stopping'.batch = stopping.batch
    BY <2>1, StageMoves
  <2> QED BY <2>1, <2>2 DEF WriterStands
<1>17. CASE Restarted \/ Crashed
  <2>1. StartAnew
    BY <1>17 DEF Restarted, Crashed
  <2> QED BY <2>1, WriterStates DEF StartAnew, WriterStands
<1>18. CASE Promote
  BY <1>18 DEF Promote, WriterStands
<1>19. CASE UNCHANGED pilotVars
  BY <1>19 DEF pilotVars, WriterStands
<1> QED
  BY <1>1, <1>2, <1>3, <1>4, <1>5, <1>6, <1>7, <1>8, <1>9, <1>10, <1>13, <1>14, <1>15, <1>16,
     <1>17, <1>18, <1>19 DEF PilotNext

-----------------------------------------------------------------------------
(* What a step does to the rows *)

Rests ==
  /\ InMemory' = InMemory
  /\ UNCHANGED <<purchased, outcome, report, unattributed, accepted, missing, executions>>
  /\ Promote \/ UNCHANGED <<registry, decidedOn>>

Writes(batch) ==
  /\ batch \in Seq(Rows) /\ executions' = AfterBatch(batch)
  /\ ToSet(batch) \subseteq InMemory /\ InMemory' \subseteq InMemory
  /\ InMemory \subseteq InMemory' \cup ToSet(batch)
  /\ UNCHANGED <<purchased, outcome, report, unattributed, accepted, missing, registry, decidedOn>>

Loses ==
  /\ InMemory' \subseteq InMemory /\ InMemory \subseteq InMemory' \cup missing'
  /\ missing \subseteq missing' /\ unattributed' \subseteq unattributed
  /\ \A c \in unattributed \ unattributed' : AttributionRow(c) \in missing'
  /\ UNCHANGED <<purchased, outcome, report, accepted, executions, registry, decidedOn>>

Takes(row) ==
  /\ InMemory \subseteq InMemory' /\ InMemory' \subseteq InMemory \cup {row}
  /\ missing \subseteq missing' /\ accepted \subseteq accepted' /\ row \in accepted' \cup missing'
  /\ accepted' \subseteq accepted \cup (InMemory' \cap {row})

Buys(c) ==
  /\ c = purchased + 1 /\ unattributed = {}
  /\ \A d \in Purchases : d <= purchased => outcome[d] # "open"
  /\ purchased' = c /\ unattributed' = {c}
  /\ Takes(PurchaseRow(c))
  /\ UNCHANGED <<outcome, report, executions, registry, decidedOn>>

Attributes(c) ==
  /\ c \in unattributed /\ unattributed' = unattributed \ {c}
  /\ Takes(AttributionRow(c))
  /\ UNCHANGED <<purchased, outcome, report, executions, registry, decidedOn>>

Settles(c, how, o) ==
  /\ c <= purchased /\ outcome[c] = "open" /\ \A row \in InMemory : row.contract # c
  /\ outcome' = [outcome EXCEPT ![c] = o] /\ report' = [report EXCEPT ![c] = how]
  /\ UNCHANGED <<purchased, unattributed, executions, registry, decidedOn>>
  /\ \/ how = "broker" /\ Takes(Row(c, "settlement", o, "broker"))
     \/ /\ how \in {"inferred_rest", "profit_table"}
        /\ \E guess \in Outcomes : Takes(Row(c, "settlement", guess, how))
     \/ how = "late" /\ InMemory' = InMemory /\ UNCHANGED <<accepted, missing>>

Moves ==
  \/ Rests
  \/ \E batch \in Seq(Rows) : Writes(batch)
  \/ Loses
  \/ \E c \in Purchases : Buys(c) \/ Attributes(c) \/ \E how \in Reports, o \in Outcomes : Settles(c, how, o)

LEMMA EnqueueTakes ==
  ASSUME PilotTypeOK, WriterStands, NEW row \in Rows, Enqueue(row), UNCHANGED stopping
  PROVE  Takes(row)
<1>1. Enqueued(row)
  BY EnqueueTypes
<1>2. CASE /\ missing' = missing \cup {row} /\ accepted' = accepted
           /\ queued' = queued /\ writer' = writer
  BY <1>2 DEF Takes, InMemory
<1>3. CASE /\ missing' = missing /\ accepted' = accepted \cup {row}
           /\ queued' = Append(queued, row)
           /\ writer' = IF writer.works THEN writer ELSE Working
  <2>1. ToSet(queued') = ToSet(queued) \cup {row}
    BY <1>3, AppendedRow DEF PilotTypeOK
  <2>2. writer'.batch = writer.batch
    BY <1>3, WriterStates DEF WriterStands
  <2>3. InMemory' = InMemory \cup {row}
    BY <2>1, <2>2 DEF InMemory
  <2> QED BY <1>3, <2>3 DEF Takes
<1> QED BY <1>1, <1>2, <1>3 DEF Enqueued

\* The memory is what the queue and the two batches hold.
LEMMA MemoryStays ==
  ASSUME ToSet(queued') \cup ToSet(writer'.batch) \cup ToSet(stopping'.batch)
           = ToSet(queued) \cup ToSet(writer.batch) \cup ToSet(stopping.batch),
         UNCHANGED <<purchased, outcome, report, unattributed, accepted, missing, executions,
                     registry, decidedOn>>
  PROVE  Moves
  BY DEF InMemory, Rests, Moves

LEMMA MemoryParts ==
  ASSUME PilotTypeOK
  PROVE  /\ writer.batch \in Seq(Rows) /\ stopping.batch \in Seq(Rows) /\ queued \in Seq(Rows)
         /\ <<>> \in Seq(Rows) /\ ToSet(<<>>) = {} /\ purchased \in 0 .. MaxPurchases
<1>1. <<>> \in Seq(Rows)
  OBVIOUS
<1> QED BY <1>1, RowsOf DEF PilotTypeOK

LEMMA WorkerWrites ==
  ASSUME PilotTypeOK, BatchWritten
  PROVE  Writes(writer.batch)
<1>1. /\ executions' = AfterBatch(writer.batch) /\ queued' = queued /\ stopping' = stopping
      /\ writer' = Idle \/ writer' = Working
      /\ UNCHANGED <<purchased, outcome, report, unattributed, accepted, missing,
                     registry, decidedOn>>
  BY DEF BatchWritten, tradeVars
<1>2. ToSet(writer'.batch) = {}
  BY <1>1, MemoryParts, WriterStates
<1> QED BY <1>1, <1>2, MemoryParts DEF Writes, InMemory

LEMMA FlushWrites ==
  ASSUME PilotTypeOK, NEW writing, NEW next, FlushSucceeds(writing, next)
  PROVE  Writes(stopping.batch)
<1>1. /\ executions' = AfterBatch(stopping.batch) /\ queued' = queued /\ writer' = writer
      /\ UNCHANGED <<purchased, outcome, report, unattributed, accepted, missing,
                     registry, decidedOn>>
  BY DEF FlushSucceeds, tradeVars
<1>2. stopping'.batch = <<>>
  BY StoppingHas, Zenon DEF FlushSucceeds
<1> QED BY <1>1, <1>2, MemoryParts DEF Writes, InMemory

LEMMA StepMoves ==
  ASSUME PilotTypeOK, WriterStands, [PilotNext]_pilotVars
  PROVE  Moves
<1>a. /\ writer.batch \in Seq(Rows) /\ stopping.batch \in Seq(Rows) /\ queued \in Seq(Rows)
      /\ <<>> \in Seq(Rows) /\ ToSet(<<>>) = {} /\ purchased \in 0 .. MaxPurchases
  BY MemoryParts
<1>1. CASE Purchase
  <2> DEFINE c == purchased + 1
  <2>1. /\ c \in Purchases /\ unattributed = {} /\ \A d \in 1 .. purchased : outcome[d] # "open"
        /\ purchased' = c /\ unattributed' = {c} /\ Enqueue(PurchaseRow(c))
        /\ UNCHANGED <<outcome, report, stopping, executions, registry, decidedOn>>
    BY <1>1 DEF Purchase, PurchaseRow, evidenceVars
  <2>2. \A d \in Purchases : d <= purchased => d \in 1 .. purchased
    BY <1>a DEF Purchases
  <2>3. Takes(PurchaseRow(c))
    <3> HIDE DEF c
    <3> QED BY <2>1, RowsExist, EnqueueTakes
  <2>4. Buys(c)
    BY <2>1, <2>2, <2>3 DEF Buys
  <2> QED BY <2>1, <2>4 DEF Moves
<1>2. CASE EnqueueTick
  <2>1. writer'.batch = writer.batch
    BY <1>2, WriterStates DEF EnqueueTick, EnsureWorker, WriterStands
  <2> QED BY <1>2, <2>1, MemoryStays DEF EnqueueTick, tradeVars, evidenceVars
<1>3. CASE Collect
  <2>1. /\ queued # <<>> /\ queued' = Tail(queued) /\ stopping' = stopping
        /\ writer' = [writer EXCEPT !.batch = Append(@, Head(queued))]
        /\ UNCHANGED <<purchased, outcome, report, unattributed, accepted, missing, executions,
                       registry, decidedOn>>
    BY <1>3 DEF Collect, tradeVars, evidenceVars
  <2>2. Head(queued) \in Rows /\ ToSet(queued) = {Head(queued)} \cup ToSet(Tail(queued))
    BY <1>a, <2>1, TakenRow
  <2>3. writer'.batch = Append(writer.batch, Head(queued))
    BY <2>1 DEF PilotTypeOK
  <2>4. ToSet(writer'.batch) = ToSet(writer.batch) \cup {Head(queued)}
    BY <1>a, <2>2, <2>3, AppendedRow
  <2> QED BY <2>1, <2>2, <2>4, MemoryStays
<1>4. CASE BatchWritten
  BY <1>4, <1>a, WorkerWrites DEF Moves
<1>5. CASE BatchFails
  <2>1. /\ missing' = missing \cup ToSet(writer.batch) /\ writer' = Idle
        /\ UNCHANGED <<queued, stopping, purchased, outcome, report, unattributed, accepted,
                       executions, registry, decidedOn>>
    BY <1>5 DEF BatchFails, tradeVars, evidenceVars
  <2>2. ToSet(writer'.batch) = {}
    BY <1>a, <2>1, WriterStates
  <2>3. Loses
    BY <2>1, <2>2 DEF Loses, InMemory
  <2> QED BY <2>3 DEF Moves
<1>6. ASSUME NEW c \in Purchases, Attribute(c) PROVE Moves
  <2>1. /\ Enqueue(AttributionRow(c)) /\ c \in unattributed /\ unattributed' = unattributed \ {c}
        /\ UNCHANGED <<purchased, outcome, report, stopping, executions, registry, decidedOn>>
    BY <1>6 DEF Attribute, AttributionRow, evidenceVars
  <2>2. Takes(AttributionRow(c))
    BY <2>1, RowsExist, EnqueueTakes
  <2>3. Attributes(c)
    BY <2>1, <2>2 DEF Attributes
  <2> QED BY <2>3 DEF Moves
<1>7. ASSUME NEW c \in Purchases, SettleByBroker(c) PROVE Moves
  <2>1. PICK o \in Outcomes : Settled(c, "broker", o) /\ Enqueue(Row(c, "settlement", o, "broker"))
    BY <1>7 DEF SettleByBroker
  <2>2. Row(c, "settlement", o, "broker") \in Rows
    BY RowsExist
  <2>3. Takes(Row(c, "settlement", o, "broker"))
    <3>1. stopping' = stopping
      BY <2>1 DEF Settled
    <3> QED BY <2>1, <2>2, <3>1, EnqueueTakes
  <2>4. Settles(c, "broker", o)
    BY <2>1, <2>3 DEF Settled, Settles, evidenceVars
  <2> QED BY <2>4 DEF Moves, Reports
<1>8. ASSUME NEW c \in Purchases, SettleByBalance(c) \/ SettleByTable(c) PROVE Moves
  <2>1. PICK how \in {"inferred_rest", "profit_table"}, o \in Outcomes, guess \in Outcomes :
          Settled(c, how, o) /\ Enqueue(Row(c, "settlement", guess, how))
    BY <1>8 DEF SettleByBalance, SettleByTable
  <2>2. Row(c, "settlement", guess, how) \in Rows
    BY RowsExist
  <2>3. Takes(Row(c, "settlement", guess, how))
    <3>1. stopping' = stopping
      BY <2>1 DEF Settled
    <3> QED BY <2>1, <2>2, <3>1, EnqueueTakes
  <2>4. Settles(c, how, o)
    BY <2>1, <2>3 DEF Settled, Settles, evidenceVars
  <2> QED BY <2>4 DEF Moves, Reports
<1>9. ASSUME NEW c \in Purchases, SettleLate(c) PROVE Moves
  <2>1. PICK o \in Outcomes : Settled(c, "late", o) /\ UNCHANGED <<queued, writer, accepted, missing>>
    BY <1>9 DEF SettleLate
  <2>2. InMemory' = InMemory
    BY <2>1 DEF Settled, InMemory
  <2>3. Settles(c, "late", o)
    BY <2>1, <2>2 DEF Settled, Settles, evidenceVars
  <2> QED BY <2>3 DEF Moves, Reports
<1>10. ASSUME NEW from, NEW to, Stage(from, to),
              UNCHANGED <<tradeVars, queued, writer, accepted, missing, evidenceVars>>
       PROVE  Moves
  <2>1. stopping'.batch = stopping.batch
    BY <1>10, StageMoves
  <2> QED BY <1>10, <2>1, MemoryStays DEF tradeVars, evidenceVars
<1>11. CASE Shutdown \/ CloseWriter \/ WorkerAwaited
  BY <1>10, <1>11 DEF Shutdown, CloseWriter, WorkerAwaited
<1>12. ASSUME NEW from, NEW writing, NEW next, FlushTakes(from, writing, next), stopping.batch = <<>>
       PROVE  Moves
  <2>1. /\ queued' = <<>>
        /\ UNCHANGED <<writer, purchased, outcome, report, unattributed, accepted, missing,
                       executions, registry, decidedOn>>
    BY <1>12 DEF FlushTakes, tradeVars, evidenceVars
  <2>2. stopping' = IF queued = <<>> THEN [stage |-> next, batch |-> <<>>]
                                     ELSE [stage |-> writing, batch |-> queued]
    BY <1>12, Zenon DEF FlushTakes
  <2>3. stopping'.batch = queued
    BY <2>2, StoppingHas, Zenon
  <2> QED BY <1>a, <1>12, <2>1, <2>3, MemoryStays
<1>13. ASSUME NEW writing, NEW next, FlushSucceeds(writing, next)
       PROVE  Moves
  BY <1>13, <1>a, FlushWrites DEF Moves
<1>14. ASSUME NEW writing, FlushFails(writing)
       PROVE  Moves
  <2>1. /\ missing' = missing \cup ToSet(stopping.batch)
        /\ UNCHANGED <<queued, writer, purchased, outcome, report, unattributed, accepted,
                       executions, registry, decidedOn>>
    BY <1>14 DEF FlushFails, tradeVars, evidenceVars
  <2>2. stopping'.batch = <<>>
    BY <1>14, StoppingHas, Zenon DEF FlushFails
  <2>3. Loses
    BY <1>a, <2>1, <2>2 DEF Loses, InMemory
  <2> QED BY <2>3 DEF Moves
<1>15. CASE Flush \/ FlushRest
  <2>1. ASSUME NEW from, NEW writing, NEW next, FlushTakes(from, writing, next),
               from \in {"flushing", "rest"}
        PROVE  Moves
    <3>1. stopping.batch = <<>>
      BY <2>1 DEF FlushTakes, WriterStands
    <3> QED BY <1>12, <2>1, <3>1
  <2> QED BY <1>13, <1>14, <1>15, <2>1 DEF Flush, FlushRest
<1>16. CASE WorkerEnds
  <2>1. writer'.batch = writer.batch
    BY <1>16, WriterStates DEF WorkerEnds
  <2> QED BY <1>16, <2>1, MemoryStays DEF WorkerEnds, tradeVars, evidenceVars
<1>17. CASE Restarted \/ Crashed
  <2>1. /\ StartAnew /\ queued' = <<>> /\ writer' = Idle /\ stopping' = Running /\ unattributed' = {}
        /\ UNCHANGED <<purchased, outcome, report, accepted, executions, registry, decidedOn>>
    BY <1>17 DEF Restarted, Crashed, StartAnew, evidenceVars
  <2>2. missing' = missing \cup InMemory \cup {AttributionRow(c) : c \in unattributed}
    BY <2>1 DEF StartAnew, AttributionRow
  <2>3. InMemory' = {}
    BY <1>a, <2>1, WriterStates DEF InMemory
  <2>4. Loses
    BY <2>1, <2>2, <2>3 DEF Loses
  <2> QED BY <2>4 DEF Moves
<1>18. CASE Promote
  <2>1. InMemory' = InMemory
    BY <1>18 DEF Promote, InMemory
  <2> QED BY <1>18, <2>1 DEF Promote, Rests, Moves, tradeVars
<1>19. CASE UNCHANGED pilotVars
  BY <1>19, MemoryStays DEF pilotVars
<1> QED
  BY <1>1, <1>2, <1>3, <1>4, <1>5, <1>6, <1>7, <1>8, <1>9, <1>11, <1>15, <1>16, <1>17,
     <1>18, <1>19 DEF PilotNext

-----------------------------------------------------------------------------
(* The rows and the table *)

LEMMA OneAtATimeStep ==
  ASSUME PilotTypeOK, OneAtATime, Moves
  PROVE  OneAtATime'
<1>a. /\ purchased \in Nat /\ Purchases \subseteq Nat /\ outcome \in [Purchases -> Outcomes \cup {"open"}]
      /\ report \in [Purchases -> Reports \cup {"none"}]
  BY PilotAssumption DEF PilotTypeOK, Purchases
<1>1. CASE Rests \/ \E batch \in Seq(Rows) : Writes(batch)
  <2>1. UNCHANGED <<purchased, outcome, report, unattributed>>
    BY <1>1 DEF Rests, Writes
  <2> QED BY <2>1 DEF OneAtATime
<1>2. CASE Loses
  <2>1. UNCHANGED <<purchased, outcome, report>> /\ unattributed' \subseteq unattributed
    BY <1>2 DEF Loses
  <2> QED BY <2>1 DEF OneAtATime
<1>3. ASSUME NEW c \in Purchases, Buys(c) PROVE OneAtATime'
  <2>1. /\ c = purchased + 1 /\ \A d \in Purchases : d <= purchased => outcome[d] # "open"
        /\ purchased' = c /\ unattributed' = {c} /\ UNCHANGED <<outcome, report>>
    BY <1>3 DEF Buys
  <2> QED BY <1>a, <2>1 DEF OneAtATime
<1>4. ASSUME NEW c \in Purchases, Attributes(c) PROVE OneAtATime'
  <2>1. UNCHANGED <<purchased, outcome, report>> /\ unattributed' \subseteq unattributed
    BY <1>4 DEF Attributes
  <2> QED BY <2>1 DEF OneAtATime
<1>5. ASSUME NEW c \in Purchases, NEW how \in Reports, NEW o \in Outcomes, Settles(c, how, o)
      PROVE  OneAtATime'
  <2>1. /\ c <= purchased /\ UNCHANGED <<purchased, unattributed>>
        /\ outcome' = [outcome EXCEPT ![c] = o] /\ report' = [report EXCEPT ![c] = how]
    BY <1>5 DEF Settles
  <2>2. o # "open"
    BY DEF Outcomes
  <2>3. \A d \in Purchases : /\ outcome'[d] = IF d = c THEN o ELSE outcome[d]
                             /\ report'[d] = IF d = c THEN how ELSE report[d]
    BY <1>a, <2>1
  <2> QED BY <1>a, <2>1, <2>2, <2>3 DEF OneAtATime
<1> QED BY <1>1, <1>2, <1>3, <1>4, <1>5 DEF Moves

LEMMA RowsAreRecordedStep ==
  ASSUME PilotTypeOK, OneAtATime, RowsAreRecorded, Moves
  PROVE  RowsAreRecorded'
<1>a. /\ purchased \in Nat /\ Purchases \subseteq Nat /\ outcome \in [Purchases -> Outcomes \cup {"open"}]
      /\ report \in [Purchases -> Reports \cup {"none"}]
  BY PilotAssumption DEF PilotTypeOK, Purchases
<1> DEFINE Known(row) == row \in accepted \cup missing
<1>1. CASE Rests \/ \E batch \in Seq(Rows) : Writes(batch)
  <2>1. UNCHANGED <<purchased, outcome, report, unattributed, accepted, missing>>
    BY <1>1 DEF Rests, Writes
  <2> QED BY <2>1 DEF RowsAreRecorded, PurchaseRow, AttributionRow, Row
<1>2. CASE Loses
  <2>1. /\ UNCHANGED <<purchased, outcome, report, accepted>> /\ missing \subseteq missing'
        /\ \A c \in unattributed \ unattributed' : AttributionRow(c) \in missing'
    BY <1>2 DEF Loses
  <2> QED BY <2>1 DEF RowsAreRecorded
<1>3. ASSUME NEW row, Takes(row)
      PROVE  accepted \cup missing \subseteq accepted' \cup missing' /\ row \in accepted' \cup missing'
  BY <1>3 DEF Takes
<1>4. ASSUME NEW c \in Purchases, Buys(c) PROVE RowsAreRecorded'
  <2>1. /\ c = purchased + 1 /\ purchased' = c /\ unattributed = {} /\ unattributed' = {c}
        /\ Takes(PurchaseRow(c)) /\ UNCHANGED <<outcome, report>>
    BY <1>4 DEF Buys
  <2>2. \A d \in Purchases : d <= purchased' => d <= purchased \/ d = c
    BY <1>a, <2>1
  <2> QED BY <1>3, <2>1, <2>2 DEF RowsAreRecorded
<1>5. ASSUME NEW c \in Purchases, Attributes(c) PROVE RowsAreRecorded'
  <2>1. /\ unattributed' = unattributed \ {c} /\ Takes(AttributionRow(c))
        /\ UNCHANGED <<purchased, outcome, report>>
    BY <1>5 DEF Attributes
  <2> QED BY <1>3, <2>1 DEF RowsAreRecorded
<1>6. ASSUME NEW c \in Purchases, NEW how \in Reports, NEW o \in Outcomes, Settles(c, how, o)
      PROVE  RowsAreRecorded'
  <2>1. /\ outcome[c] = "open" /\ UNCHANGED <<purchased, unattributed>>
        /\ outcome' = [outcome EXCEPT ![c] = o] /\ report' = [report EXCEPT ![c] = how]
        /\ \/ Takes(Row(c, "settlement", o, "broker"))
           \/ how # "broker" /\ \E row : Takes(row)
           \/ how # "broker" /\ UNCHANGED <<accepted, missing>>
    BY <1>6 DEF Settles
  <2>2. \A d \in Purchases : /\ outcome'[d] = IF d = c THEN o ELSE outcome[d]
                             /\ report'[d] = IF d = c THEN how ELSE report[d]
    BY <1>a, <2>1
  <2>3. /\ accepted \cup missing \subseteq accepted' \cup missing'
        /\ how = "broker" => Row(c, "settlement", o, "broker") \in accepted' \cup missing'
    BY <1>3, <2>1
  <2> QED BY <2>1, <2>2, <2>3 DEF RowsAreRecorded
<1> QED BY <1>1, <1>2, <1>4, <1>5, <1>6 DEF Moves

LEMMA WrittenShows ==
  /\ \A row : Written(row) = Shows(executions[row.contract], row)
  /\ \A row : Written(row)' = Shows(executions'[row.contract], row)
  BY Zenon DEF Written, Shows

\* What a step leaves of the rows that are neither lost nor in the memory.
LEMMA ExecutionsGrow ==
  ASSUME PilotTypeOK, Moves, NEW c \in Purchases
  PROVE  Grown(executions[c], executions'[c])
<1>1. CASE \E batch \in Seq(Rows) : Writes(batch)
  BY <1>1, BatchKeeps DEF Writes, PilotTypeOK
<1>2. CASE executions' = executions
  BY <1>2, GrownReflexive
<1> QED BY <1>1, <1>2 DEF Moves, Rests, Loses, Buys, Attributes, Settles

LEMMA RowsAreWrittenStep ==
  ASSUME PilotTypeOK, PilotTypeOK', WriterStands', RowsAreWritten, Moves
  PROVE  RowsAreWritten'
<1>1. \A row \in Rows : Written(row) => Written(row)'
  <2>1. ASSUME NEW row \in Rows, Written(row) PROVE Written(row)'
    <3>1. row.contract \in Purchases
      BY RowTypes
    <3>2. Grown(executions[row.contract], executions'[row.contract])
      BY <3>1, ExecutionsGrow
    <3>3. Shows(executions[row.contract], row)
      BY <2>1, WrittenShows
    <3> QED BY <3>2, <3>3, GrownShows, WrittenShows
  <2> QED BY <2>1
<1>2. accepted \subseteq Rows /\ \A row \in accepted \ missing : row \in InMemory \/ Written(row)
  BY DEF PilotTypeOK, RowsAreWritten
<1>3. ASSUME NEW row \in accepted' \ missing' PROVE row \in InMemory' \/ Written(row)'
  <2>1. CASE Rests
    BY <1>1, <1>2, <1>3, <2>1 DEF Rests
  <2>2. ASSUME NEW batch \in Seq(Rows), Writes(batch) PROVE row \in InMemory' \/ Written(row)'
    <3>1. row \in accepted \ missing /\ InMemory \subseteq InMemory' \cup ToSet(batch)
      BY <1>3, <2>2 DEF Writes
    <3>2. CASE row \in ToSet(batch)
      <4>1. Shows(AfterBatch(batch)[row.contract], row)
        BY <3>2, BatchKeeps DEF PilotTypeOK
      <4> QED BY <2>2, <4>1, WrittenShows DEF Writes
    <3> QED BY <1>1, <1>2, <3>1, <3>2
  <2>3. CASE Loses
    <3>1. row \in accepted \ missing /\ InMemory \subseteq InMemory' \cup missing'
      BY <1>3, <2>3 DEF Loses
    <3> QED BY <1>1, <1>2, <1>3, <3>1
  <2>4. ASSUME NEW new, Takes(new) PROVE row \in InMemory' \/ Written(row)'
    <3>1. /\ row \in accepted \/ row \in InMemory'
          /\ row \notin missing /\ InMemory \subseteq InMemory'
      BY <1>3, <2>4 DEF Takes
    <3> QED BY <1>1, <1>2, <3>1
  <2>5. CASE InMemory' = InMemory /\ UNCHANGED <<accepted, missing>>
    BY <1>1, <1>2, <1>3, <2>5
  <2> QED BY <2>1, <2>2, <2>3, <2>4, <2>5 DEF Moves, Buys, Attributes, Settles
<1>4. stopping'.stage = "closed" => InMemory' = {}
  <2>1. stopping'.stage = "closed" => queued' = <<>> /\ writer'.batch = <<>> /\ stopping'.batch = <<>>
    BY DEF WriterStands
  <2>2. /\ queued' = <<>> => ToSet(queued') = {}
        /\ writer'.batch = <<>> => ToSet(writer'.batch) = {}
        /\ stopping'.batch = <<>> => ToSet(stopping'.batch) = {}
    BY RowsOf DEF PilotTypeOK
  <2> QED BY <2>1, <2>2 DEF InMemory
<1> QED BY <1>3, <1>4 DEF RowsAreWritten

LEMMA MemoryTypes ==
  ASSUME PilotTypeOK
  PROVE  InMemory \subseteq Rows
<1>1. writer.batch \in Seq(Rows) /\ stopping.batch \in Seq(Rows) /\ queued \in Seq(Rows)
  BY DEF PilotTypeOK
<1> QED BY <1>1, RowsOf DEF InMemory

LEMMA BrokerIsQuotedStep ==
  ASSUME PilotTypeOK, OneAtATime, BrokerIsQuoted, Moves
  PROVE  BrokerIsQuoted'
<1>a. /\ outcome \in [Purchases -> Outcomes \cup {"open"}] /\ report \in [Purchases -> Reports \cup {"none"}]
      /\ executions \in [Purchases -> Executions]
      /\ InMemory \subseteq Rows /\ \A row \in InMemory : row.contract \in Purchases
  BY MemoryTypes, RowTypes DEF PilotTypeOK
<1> DEFINE Quoted(row) == row.source = "broker" =>
                            report[row.contract] = "broker" /\ row.profit = outcome[row.contract]
<1>b. /\ \A row \in InMemory : Quoted(row)
      /\ \A c \in Purchases : executions[c].source = "broker" =>
           report[c] = "broker" /\ executions[c].profit = outcome[c]
  BY DEF BrokerIsQuoted
<1>1. CASE Rests \/ Loses
  <2>1. InMemory' \subseteq InMemory /\ UNCHANGED <<outcome, report, executions>>
    BY <1>1 DEF Rests, Loses
  <2> QED BY <2>1 DEF BrokerIsQuoted
<1>2. ASSUME NEW batch \in Seq(Rows), Writes(batch) PROVE BrokerIsQuoted'
  <2>1. /\ InMemory' \subseteq InMemory /\ ToSet(batch) \subseteq InMemory
        /\ executions' = AfterBatch(batch) /\ UNCHANGED <<outcome, report>>
    BY <1>2 DEF Writes
  <2>2. ASSUME NEW c \in Purchases, AfterBatch(batch)[c].source = "broker"
        PROVE  report[c] = "broker" /\ AfterBatch(batch)[c].profit = outcome[c]
    <3>1. \A row \in ToSet(batch) : row.source = "broker" => row.profit = outcome[row.contract]
      BY <1>b, <2>1
    <3>2. \/ executions[c].source = "broker"
          \/ \E row \in ToSet(batch) : row.contract = c /\ row.source = "broker"
      BY <1>a, <2>2, BatchKeeps
    <3>3. report[c] = "broker"
      BY <1>b, <2>1, <3>2
    <3>4. AfterBatch(batch)[c].profit = outcome[c]
      BY <1>a, <1>b, <2>2, <3>1, BatchKeeps
    <3> QED BY <3>3, <3>4
  <2> QED BY <1>b, <2>1, <2>2 DEF BrokerIsQuoted
<1>3. ASSUME NEW new \in Rows, Takes(new), new.source # "broker", UNCHANGED <<outcome, report, executions>>
      PROVE  BrokerIsQuoted'
  <2>1. InMemory' \subseteq InMemory \cup {new}
    BY <1>3 DEF Takes
  <2> QED BY <1>3, <1>b, <2>1 DEF BrokerIsQuoted
<1>4. ASSUME NEW c \in Purchases, Buys(c) \/ Attributes(c) PROVE BrokerIsQuoted'
  BY <1>3, <1>4, RowsExist DEF Buys, Attributes
<1>5. ASSUME NEW c \in Purchases, NEW how \in Reports, NEW o \in Outcomes, Settles(c, how, o)
      PROVE  BrokerIsQuoted'
  <2>1. /\ outcome[c] = "open" /\ \A row \in InMemory : row.contract # c
        /\ outcome' = [outcome EXCEPT ![c] = o] /\ report' = [report EXCEPT ![c] = how]
        /\ UNCHANGED executions
    BY <1>5 DEF Settles
  <2>2. \A d \in Purchases : /\ outcome'[d] = IF d = c THEN o ELSE outcome[d]
                             /\ report'[d] = IF d = c THEN how ELSE report[d]
    BY <1>a, <2>1
  <2>3. \A row \in InMemory : Quoted(row)'
    BY <1>a, <1>b, <2>1, <2>2
  <2>4. \A d \in Purchases : executions[d].source = "broker" => d # c
    BY <1>b, <2>1 DEF OneAtATime
  <2>5. \A row \in InMemory' : Quoted(row)'
    <3>1. CASE how = "broker" /\ Takes(Row(c, "settlement", o, "broker"))
      <4>1. InMemory' \subseteq InMemory \cup {Row(c, "settlement", o, "broker")}
        BY <3>1 DEF Takes
      <4>2. Quoted(Row(c, "settlement", o, "broker"))'
        BY <2>2, <3>1, RowsExist
      <4> HIDE DEF Quoted
      <4> QED BY <2>3, <4>1, <4>2
    <3>2. CASE /\ how \in {"inferred_rest", "profit_table"}
               /\ \E guess \in Outcomes : Takes(Row(c, "settlement", guess, how))
      <4>1. PICK guess \in Outcomes : Takes(Row(c, "settlement", guess, how))
        BY <3>2
      <4>2. InMemory' \subseteq InMemory \cup {Row(c, "settlement", guess, how)}
        BY <4>1 DEF Takes
      <4>3. Row(c, "settlement", guess, how).source # "broker"
        BY <3>2, RowsExist
      <4> QED BY <2>3, <4>2, <4>3
    <3>3. CASE InMemory' = InMemory
      BY <2>3, <3>3
    <3> QED BY <1>5, <3>1, <3>2, <3>3 DEF Settles
  <2> QED BY <1>b, <2>1, <2>2, <2>4, <2>5 DEF BrokerIsQuoted
<1> QED BY <1>1, <1>2, <1>4, <1>5 DEF Moves

LEMMA PurchaseWrittenStep ==
  ASSUME PilotTypeOK, OneAtATime, PurchaseWritten, Moves
  PROVE  PurchaseWritten'
<1>a. outcome \in [Purchases -> Outcomes \cup {"open"}] /\ purchased \in Nat /\ Purchases \subseteq Nat
  BY PilotAssumption DEF PilotTypeOK, Purchases
<1>1. ASSUME InMemory' \subseteq InMemory, UNCHANGED outcome PROVE PurchaseWritten'
  BY <1>1 DEF PurchaseWritten
<1>2. ASSUME NEW c \in Purchases, Buys(c) PROVE PurchaseWritten'
  <2>1. outcome[c] = "open" /\ UNCHANGED outcome /\ InMemory' \subseteq InMemory \cup {PurchaseRow(c)}
    BY <1>a, <1>2 DEF Buys, Takes, OneAtATime
  <2>2. ASSUME NEW d \in Purchases, outcome[d] # "open" PROVE PurchaseRow(d) \notin InMemory'
    <3>1. PurchaseRow(d) # PurchaseRow(c)
      BY <2>1, <2>2, RowsExist
    <3> QED BY <2>1, <2>2, <3>1 DEF PurchaseWritten
  <2> QED BY <2>1, <2>2 DEF PurchaseWritten
<1>3. ASSUME NEW c \in Purchases, Attributes(c) PROVE PurchaseWritten'
  <2>1. UNCHANGED outcome /\ InMemory' \subseteq InMemory \cup {AttributionRow(c)}
    BY <1>3 DEF Attributes, Takes
  <2>2. \A d \in Purchases : PurchaseRow(d) # AttributionRow(c)
    <3>1. \A d \in Purchases : PurchaseRow(d).kind = "purchase" /\ AttributionRow(c).kind = "attribution"
      BY RowsExist
    <3> QED BY <3>1
  <2> QED BY <2>1, <2>2 DEF PurchaseWritten
<1>4. ASSUME NEW c \in Purchases, NEW how \in Reports, NEW o \in Outcomes, Settles(c, how, o)
      PROVE  PurchaseWritten'
  <2>1. \A row \in InMemory : row.contract # c
    BY <1>4 DEF Settles
  <2>2. \A d \in Purchases : outcome'[d] = IF d = c THEN o ELSE outcome[d]
    BY <1>a, <1>4 DEF Settles
  <2>3. ASSUME NEW row \in InMemory', row \notin InMemory PROVE row.kind = "settlement"
    <3>1. CASE Takes(Row(c, "settlement", o, "broker"))
      BY <2>3, <3>1, RowsExist DEF Takes
    <3>2. CASE /\ how \in {"inferred_rest", "profit_table"}
               /\ \E guess \in Outcomes : Takes(Row(c, "settlement", guess, how))
      BY <2>3, <3>2, RowsExist DEF Takes
    <3>3. CASE InMemory' = InMemory
      BY <2>3, <3>3
    <3> QED BY <1>4, <3>1, <3>2, <3>3 DEF Settles
  <2>4. ASSUME NEW d \in Purchases, outcome'[d] # "open" PROVE PurchaseRow(d) \notin InMemory'
    <3>1. PurchaseRow(d).contract = d /\ PurchaseRow(d).kind = "purchase"
      BY RowsExist
    <3>2. PurchaseRow(d) \notin InMemory
      BY <2>1, <2>2, <2>4, <3>1 DEF PurchaseWritten
    <3> QED BY <2>3, <3>1, <3>2
  <2> QED BY <2>4 DEF PurchaseWritten
<1> QED BY <1>1, <1>2, <1>3, <1>4 DEF Moves, Rests, Writes, Loses

-----------------------------------------------------------------------------
(* The order of the rows *)

\* A step that puts nothing into the queue and takes nothing out of it.
LEMMA CalmInOrder ==
  ASSUME PilotTypeOK, InOrder, purchased' = purchased,
         queued' = queued \/ queued' = <<>>,
         stopping'.stage = "writing" => stopping.stage = "writing" /\ stopping'.batch = stopping.batch,
         stopping'.stage \in {"open", "flushing"} => stopping.stage \in {"open", "flushing"}
                                                     \/ writer'.batch = <<>>,
         writer'.batch = <<>> \/ (writer'.batch = writer.batch /\ InMemory \subseteq InMemory')
  PROVE  InOrder'
<1>a. ToSet(<<>>) = {}
  BY DEF ToSet
<1>1. QueueInOrder'
  <2>1. CASE queued' = queued
    BY <2>1 DEF InOrder, QueueInOrder, PurchaseRow, Row
  <2>2. CASE queued' = <<>>
    BY <2>2 DEF QueueInOrder
  <2> QED BY <2>1, <2>2
<1>2. FlushInOrder'
  BY DEF InOrder, FlushInOrder, AttributionRow, PurchaseRow, Row
<1>3. BatchInOrder'
  <2>1. CASE writer'.batch = <<>>
    BY <1>a, <2>1 DEF BatchInOrder
  <2>2. CASE writer'.batch # <<>>
    BY <2>2 DEF InOrder, BatchInOrder
  <2> QED BY <2>1, <2>2
<1> QED BY <1>1, <1>2, <1>3 DEF InOrder

\* A row put into the queue that is no attribution of an earlier contract.
LEMMA EnqueueInOrder ==
  ASSUME PilotTypeOK, WriterStands, InOrder, NEW row \in Rows, Enqueue(row), UNCHANGED stopping,
         row.kind = "attribution" => row.contract = purchased,
         \/ purchased' = purchased
         \/ purchased' = purchased + 1 /\ row = PurchaseRow(purchased + 1) /\ stopping.stage = "open"
  PROVE  InOrder'
<1>a. /\ queued \in Seq(Rows) /\ Len(queued) \in Nat /\ DOMAIN queued = 1 .. Len(queued)
      /\ purchased \in Nat /\ Purchases \subseteq Nat
  BY RowsOf, PilotAssumption DEF PilotTypeOK, Purchases
<1>1. Enqueued(row) /\ Takes(row)
  BY EnqueueTypes, EnqueueTakes
<1>2. CASE queued' = queued /\ writer' = writer /\ Refusing
  <2>1. purchased' = purchased
    BY <1>2 DEF Refusing
  <2> QED BY <1>1, <1>2, <2>1, CalmInOrder DEF Takes
<1>3. CASE /\ ~Refusing /\ queued' = Append(queued, row)
           /\ writer' = IF writer.works THEN writer ELSE Working
  <2>1. /\ DOMAIN queued' = 1 .. Len(queued) + 1 /\ queued'[Len(queued) + 1] = row
        /\ \A i \in DOMAIN queued : queued'[i] = queued[i]
        /\ ToSet(queued') = ToSet(queued) \cup {row}
    BY <1>3, <1>a, AppendedRow
  <2>2. row \in InMemory'
    BY <2>1 DEF InMemory
  <2>3. writer'.batch = writer.batch
    BY <1>3, WriterStates DEF WriterStands
  <2>4. QueueInOrder'
    <3>1. ASSUME NEW i \in DOMAIN queued', NEW d \in Purchases, queued'[i].kind = "attribution",
                 queued'[i].contract < d, d <= purchased'
          PROVE  \E j \in DOMAIN queued' : i < j /\ queued'[j] = PurchaseRow(d)
      <4>1. CASE i = Len(queued) + 1
        <5>1. row.kind = "attribution" /\ row.contract = purchased
          BY <2>1, <3>1, <4>1
        <5>2. purchased' = purchased + 1
          BY <1>a, <2>1, <3>1, <4>1, <5>1
        <5>3. row = PurchaseRow(purchased + 1) /\ purchased' \in Purchases
          BY <1>a, <3>1, <5>1, <5>2, <2>1, <4>1
        <5>4. row.kind = "purchase"
          BY <5>2, <5>3, RowsExist
        <5> QED BY <5>1, <5>4
      <4>2. CASE i \in DOMAIN queued /\ d <= purchased
        <5>1. \E j \in DOMAIN queued : i < j /\ queued[j] = PurchaseRow(d)
          BY <2>1, <3>1, <4>2 DEF InOrder, QueueInOrder
        <5> QED BY <1>a, <2>1, <5>1
      <4>3. CASE i \in DOMAIN queued /\ ~(d <= purchased)
        <5>1. d = purchased + 1 /\ row = PurchaseRow(d)
          BY <1>a, <3>1, <4>3
        <5> QED BY <1>a, <2>1, <4>3, <5>1
      <4> QED BY <1>a, <2>1, <4>1, <4>2, <4>3
    <3> HIDE DEF PurchaseRow
    <3>2. \A i \in DOMAIN queued', d \in Purchases :
            queued'[i].kind = "attribution" /\ queued'[i].contract < d /\ d <= purchased'
              => \E j \in DOMAIN queued' : i < j /\ queued'[j] = PurchaseRow(d)
      BY <3>1
    <3> QED BY <3>2 DEF QueueInOrder, PurchaseRow, Row
  <2>5. FlushInOrder'
    BY <1>a DEF InOrder, FlushInOrder, AttributionRow, PurchaseRow, Row
  <2>6. BatchInOrder'
    <3>1. ASSUME NEW c \in Purchases, NEW d \in Purchases, c < d, d <= purchased',
                 AttributionRow(c) \in ToSet(writer.batch), stopping.stage \in {"open", "flushing", "writing"}
          PROVE  PurchaseRow(d) \in InMemory'
      <4>1. CASE d <= purchased
        BY <1>1, <3>1, <4>1 DEF InOrder, BatchInOrder, Takes
      <4>2. CASE ~(d <= purchased)
        <5>1. d = purchased + 1 /\ row = PurchaseRow(d)
          BY <1>a, <3>1, <4>2
        <5> QED BY <2>2, <5>1
      <4> QED BY <4>1, <4>2
    <3> QED BY <2>3, <3>1 DEF BatchInOrder
  <2> QED BY <2>4, <2>5, <2>6 DEF InOrder
<1> QED BY <1>1, <1>2, <1>3 DEF Enqueued, Enqueue

LEMMA InOrderStep ==
  ASSUME PilotTypeOK, WriterStands, OneAtATime, InOrder, [PilotNext]_pilotVars
  PROVE  InOrder'
<1>a. purchased \in Nat /\ queued \in Seq(Rows) /\ writer.batch \in Seq(Rows)
  BY MemoryParts, PilotAssumption
<1>1. CASE Purchase
  <2> DEFINE c == purchased + 1
  <2>1. /\ c \in Purchases /\ purchased' = c /\ Enqueue(PurchaseRow(c)) /\ UNCHANGED stopping
        /\ stopping.stage = "open"
    BY <1>1 DEF Purchase, PurchaseRow
  <2>2. PurchaseRow(c) \in Rows /\ PurchaseRow(c).kind # "attribution"
    BY <2>1, RowsExist
  <2> QED BY <2>1, <2>2, EnqueueInOrder
<1>2. CASE EnqueueTick
  <2>1. writer'.batch = writer.batch /\ UNCHANGED <<queued, stopping, purchased>>
    BY <1>2, WriterStates DEF EnqueueTick, EnsureWorker, WriterStands, tradeVars
  <2>2. InMemory' = InMemory
    BY <2>1 DEF InMemory
  <2> QED BY <2>1, <2>2, CalmInOrder
<1>3. CASE Collect
  <2>1. /\ queued # <<>> /\ queued' = Tail(queued) /\ UNCHANGED <<stopping, purchased>>
        /\ writer' = [writer EXCEPT !.batch = Append(@, Head(queued))]
    BY <1>3 DEF Collect, tradeVars
  <2>2. /\ Head(queued) \in Rows /\ ToSet(queued) = {Head(queued)} \cup ToSet(Tail(queued))
        /\ Head(queued) = queued[1] /\ 1 \in DOMAIN queued
        /\ DOMAIN Tail(queued) = 1 .. Len(queued) - 1
        /\ \A i \in DOMAIN Tail(queued) : i + 1 \in DOMAIN queued /\ Tail(queued)[i] = queued[i + 1]
    BY <1>a, <2>1, TakenRow
  <2>3. writer'.batch = Append(writer.batch, Head(queued))
    BY <2>1 DEF PilotTypeOK
  <2>4. ToSet(writer'.batch) = ToSet(writer.batch) \cup {Head(queued)}
    BY <1>a, <2>2, <2>3, AppendedRow
  <2>5. InMemory' = InMemory /\ ToSet(queued) \subseteq InMemory
    BY <2>1, <2>2, <2>4 DEF InMemory
  <2>6. Len(queued) \in Nat /\ DOMAIN queued = 1 .. Len(queued)
    BY <1>a, RowsOf
  <2>7. QueueInOrder'
    <3>1. ASSUME NEW i \in DOMAIN Tail(queued), NEW d \in Purchases, Tail(queued)[i].kind = "attribution",
                 Tail(queued)[i].contract < d, d <= purchased
          PROVE  \E j \in DOMAIN Tail(queued) : i < j /\ Tail(queued)[j] = PurchaseRow(d)
      <4>1. PICK j \in DOMAIN queued : i + 1 < j /\ queued[j] = PurchaseRow(d)
        BY <2>2, <3>1 DEF InOrder, QueueInOrder
      <4>2. j - 1 \in DOMAIN Tail(queued) /\ i < j - 1 /\ (j - 1) + 1 = j
        BY <2>2, <2>6, <4>1
      <4> QED BY <2>2, <4>1, <4>2
    <3> QED BY <2>1, <3>1 DEF QueueInOrder, PurchaseRow, Row
  <2>8. FlushInOrder'
    BY <2>1 DEF InOrder, FlushInOrder, AttributionRow, PurchaseRow, Row
  <2>9. BatchInOrder'
    <3>1. ASSUME NEW c \in Purchases, NEW d \in Purchases, c < d, d <= purchased,
                 AttributionRow(c) = Head(queued)
          PROVE  PurchaseRow(d) \in InMemory
      <4>1. queued[1].kind = "attribution" /\ queued[1].contract = c
        BY <2>2, <3>1, RowsExist
      <4>2. PICK j \in DOMAIN queued : queued[j] = PurchaseRow(d)
        BY <2>2, <3>1, <4>1 DEF InOrder, QueueInOrder
      <4> QED BY <2>5, <4>2 DEF ToSet
    <3> QED BY <2>1, <2>4, <2>5, <3>1 DEF InOrder, BatchInOrder
  <2> QED BY <2>7, <2>8, <2>9 DEF InOrder
<1>4. CASE BatchWritten
  <2>1. writer'.batch = <<>> /\ UNCHANGED <<queued, stopping, purchased>>
    BY <1>4, WriterStates DEF BatchWritten, tradeVars
  <2> QED BY <2>1, CalmInOrder
<1>5. CASE BatchFails
  <2>1. writer'.batch = <<>> /\ UNCHANGED <<queued, stopping, purchased>>
    BY <1>5, WriterStates DEF BatchFails, tradeVars
  <2> QED BY <2>1, CalmInOrder
<1>6. ASSUME NEW c \in Purchases, Attribute(c) PROVE InOrder'
  <2>1. Enqueue(AttributionRow(c)) /\ c \in unattributed /\ UNCHANGED <<stopping, purchased>>
    BY <1>6 DEF Attribute, AttributionRow
  <2>2. AttributionRow(c) \in Rows /\ AttributionRow(c).contract = purchased
    BY <2>1, RowsExist DEF OneAtATime
  <2> QED BY <2>1, <2>2, EnqueueInOrder
<1>7. ASSUME NEW c \in Purchases, NEW o \in Outcomes, NEW s \in {"broker", "inferred_rest", "profit_table"},
             Enqueue(Row(c, "settlement", o, s)), UNCHANGED <<stopping, purchased>>
      PROVE  InOrder'
  <2>1. Row(c, "settlement", o, s) \in Rows /\ Row(c, "settlement", o, s).kind # "attribution"
    BY RowsExist
  <2> QED BY <1>7, <2>1, EnqueueInOrder
<1>8. ASSUME NEW c \in Purchases, SettleByBroker(c) \/ SettleByBalance(c) \/ SettleByTable(c) PROVE InOrder'
  BY <1>7, <1>8 DEF SettleByBroker, SettleByBalance, SettleByTable, Settled
<1>9. ASSUME NEW c \in Purchases, SettleLate(c) PROVE InOrder'
  <2>1. UNCHANGED <<queued, writer, stopping, purchased>>
    BY <1>9 DEF SettleLate, Settled
  <2>2. InMemory' = InMemory
    BY <2>1 DEF InMemory
  <2> QED BY <2>1, <2>2, CalmInOrder
<1>10. ASSUME NEW from, NEW to, Stage(from, to), UNCHANGED <<queued, writer, purchased>>,
              (to = "flushing" /\ from = "open") \/ to \in {"draining", "rest"}
       PROVE  InOrder'
  <2>1. stopping.stage = from /\ stopping'.stage = to /\ stopping'.batch = stopping.batch
    BY <1>10, StageMoves
  <2>2. InMemory' = InMemory
    BY <1>10, <2>1 DEF InMemory
  <2> QED BY <1>10, <2>1, <2>2, CalmInOrder
<1>11. CASE Shutdown \/ CloseWriter \/ WorkerAwaited
  BY <1>10, <1>11 DEF Shutdown, CloseWriter, WorkerAwaited, tradeVars
<1>12. CASE FlushTakes("flushing", "writing", "flushed")
  <2>1. /\ stopping.stage = "flushing" /\ queued' = <<>> /\ UNCHANGED <<writer, purchased>>
        /\ stopping' = IF queued = <<>> THEN [stage |-> "flushed", batch |-> <<>>]
                                        ELSE [stage |-> "writing", batch |-> queued]
    BY <1>12 DEF FlushTakes, tradeVars
  <2>2. stopping.batch = <<>>
    BY <2>1 DEF WriterStands
  <2>3. stopping'.batch = queued /\ stopping'.stage \in {"flushed", "writing"}
    BY <2>1, StoppingHas, Zenon
  <2>4. InMemory' = InMemory
    BY <2>1, <2>2, <2>3, MemoryParts DEF InMemory
  <2>5. QueueInOrder'
    BY <2>1 DEF QueueInOrder
  <2>6. FlushInOrder'
    <3>1. ASSUME NEW c \in Purchases, NEW d \in Purchases, c < d, d <= purchased,
                 AttributionRow(c) \in ToSet(queued)
          PROVE  PurchaseRow(d) \in ToSet(queued)
      <4>1. PICK i \in DOMAIN queued : queued[i] = AttributionRow(c)
        BY <3>1 DEF ToSet
      <4>2. \E j \in DOMAIN queued : queued[j] = PurchaseRow(d)
        BY <3>1, <4>1, RowsExist DEF InOrder, QueueInOrder
      <4> QED BY <4>2 DEF ToSet
    <3> QED BY <2>1, <2>3, <3>1 DEF FlushInOrder
  <2>7. BatchInOrder'
    BY <2>1, <2>4 DEF InOrder, BatchInOrder
  <2> QED BY <2>5, <2>6, <2>7 DEF InOrder
<1>13. CASE FlushTakes("rest", "writing rest", "closed")
  <2>1. /\ stopping.stage = "rest" /\ queued' = <<>> /\ UNCHANGED <<writer, purchased>>
        /\ stopping' = IF queued = <<>> THEN [stage |-> "closed", batch |-> <<>>]
                                        ELSE [stage |-> "writing rest", batch |-> queued]
    BY <1>13 DEF FlushTakes, tradeVars
  <2>2. writer'.batch = <<>>
    BY <2>1 DEF WriterStands
  <2>3. stopping'.stage \in {"closed", "writing rest"}
    BY <2>1, StoppingHas, Zenon
  <2> QED BY <2>1, <2>2, <2>3, CalmInOrder
<1>14. CASE \/ FlushSucceeds("writing", "flushed") \/ FlushSucceeds("writing rest", "closed")
            \/ FlushFails("writing") \/ FlushFails("writing rest")
  <2>1. writer' = writer /\ queued' = queued /\ purchased' = purchased
    BY <1>14 DEF FlushSucceeds, FlushFails, tradeVars
  <2>2. \/ stopping' = [stage |-> "flushed", batch |-> <<>>]
        \/ stopping' = [stage |-> "aborted", batch |-> <<>>]
        \/ stopping' = [stage |-> "closed", batch |-> <<>>]
    BY <1>14 DEF FlushSucceeds, FlushFails
  <2>3. stopping'.stage \in {"flushed", "aborted", "closed"}
    BY <2>2, StoppingHas, Zenon
  <2>4. QueueInOrder' /\ FlushInOrder' /\ BatchInOrder'
    BY <2>1, <2>3 DEF InOrder, QueueInOrder, FlushInOrder, BatchInOrder, PurchaseRow, Row
  <2> QED BY <2>4 DEF InOrder
<1>15. CASE WorkerEnds
  <2>1. writer'.batch = <<>> /\ UNCHANGED <<queued, stopping, purchased>>
    BY <1>15, WriterStates DEF WorkerEnds, tradeVars
  <2> QED BY <2>1, CalmInOrder
<1>16. CASE Restarted \/ Crashed
  <2>1. queued' = <<>> /\ writer'.batch = <<>> /\ stopping'.stage = "open" /\ purchased' = purchased
    BY <1>16, WriterStates DEF Restarted, Crashed, StartAnew
  <2> QED BY <2>1, CalmInOrder
<1>17. CASE Promote \/ UNCHANGED pilotVars
  <2>1. UNCHANGED <<queued, writer, stopping, purchased>>
    BY <1>17 DEF Promote, pilotVars, tradeVars
  <2>2. InMemory' = InMemory
    BY <2>1 DEF InMemory
  <2> QED BY <2>1, <2>2, CalmInOrder
<1> QED
  BY <1>1, <1>2, <1>3, <1>4, <1>5, <1>6, <1>8, <1>9, <1>11, <1>12, <1>13, <1>14, <1>15, <1>16,
     <1>17 DEF PilotNext, Flush, FlushRest

\* A batch that leaves no attribution in the memory unless the purchase of every
\* later contract is there too keeps EarlierComplete.
LEMMA WrittenInOrder ==
  ASSUME PilotTypeOK, OneAtATime, RowsAreRecorded, RowsAreWritten, BrokerIsQuoted, PurchaseWritten,
         EarlierComplete, NEW batch \in Seq(Rows), Writes(batch),
         \A c, d \in Purchases :
           c < d /\ d <= purchased /\ AttributionRow(c) \in InMemory \ ToSet(batch)
             => PurchaseRow(d) \in InMemory
  PROVE  EarlierComplete'
<1>a. /\ purchased \in Nat /\ Purchases \subseteq Nat /\ executions \in [Purchases -> Executions]
      /\ outcome \in [Purchases -> Outcomes \cup {"open"}]
  BY PilotAssumption DEF PilotTypeOK, Purchases
<1>b. /\ executions' = AfterBatch(batch) /\ ToSet(batch) \subseteq InMemory
      /\ UNCHANGED <<purchased, missing>>
  BY DEF Writes
<1>c. /\ \A c \in Purchases : Grown(executions[c], executions'[c])
      /\ \A row \in ToSet(batch) : Shows(executions'[row.contract], row)
      /\ \A c \in Purchases :
           executions'[c].source = "broker" =>
             \/ executions[c].source = "broker"
             \/ \E row \in ToSet(batch) : row.contract = c /\ row.source = "broker"
  BY <1>a, <1>b, BatchKeeps
<1>1. SUFFICES ASSUME NEW c \in Purchases, NEW d \in Purchases, executions'[d].source = "broker", c < d
               PROVE  Complete(c)' \/ Lost(c)'
  BY DEF EarlierComplete
<1>2. CASE executions[d].source = "broker"
  <2>1. Complete(c) \/ Lost(c)
    BY <1>1, <1>2 DEF EarlierComplete
  <2>2. Complete(c) => Complete(c)'
    BY <1>c, Zenon DEF Complete, Grown
  <2>3. Lost(c) => Lost(c)'
    BY <1>b DEF Lost
  <2> QED BY <2>1, <2>2, <2>3
<1>3. CASE executions[d].source # "broker"
  <2>1. PICK row \in ToSet(batch) : row.contract = d /\ row.source = "broker"
    BY <1>1, <1>3, <1>c
  <2>2. outcome[d] # "open"
    BY <1>b, <2>1 DEF BrokerIsQuoted, OneAtATime
  <2>3. d <= purchased /\ PurchaseRow(d) \notin InMemory
    BY <1>a, <2>2 DEF OneAtATime, PurchaseWritten
  <2>4. c < purchased /\ c <= purchased /\ c \notin unattributed /\ outcome[c] # "open"
    BY <1>a, <1>1, <2>3 DEF OneAtATime
  <2>5. PurchaseRow(c) \in accepted \cup missing /\ AttributionRow(c) \in accepted \cup missing
    BY <2>4 DEF RowsAreRecorded
  <2>6. CASE PurchaseRow(c) \in missing \/ AttributionRow(c) \in missing
    BY <1>b, <2>6, RowsExist DEF Lost
  <2>7. CASE PurchaseRow(c) \notin missing /\ AttributionRow(c) \notin missing
    <3>1. PurchaseRow(c) \notin InMemory
      BY <2>4 DEF PurchaseWritten
    <3>2. Written(PurchaseRow(c))
      BY <2>5, <2>7, <3>1 DEF RowsAreWritten
    <3>3. executions[c].start /\ executions[c].price
      <4>1. Shows(executions[c], PurchaseRow(c))
        BY <3>2, WrittenShows, RowsExist
      <4>2. PurchaseRow(c).kind = "purchase"
        BY RowsExist
      <4> QED BY <4>1, <4>2, Zenon DEF Shows
    <3>4. executions'[c].start /\ executions'[c].price
      BY <1>c, <3>3, Zenon DEF Grown
    <3>5. AttributionRow(c).kind = "attribution" /\ AttributionRow(c).contract = c
      BY RowsExist
    <3>6. CASE AttributionRow(c) \in InMemory
      <4>1. AttributionRow(c) \in ToSet(batch)
        BY <1>1, <2>3, <3>6
      <4>2. Shows(executions'[c], AttributionRow(c))
        BY <1>c, <3>5, <4>1
      <4>3. executions'[c].attributed
        BY <3>5, <4>2, "purchase" # "attribution", Zenon DEF Shows
      <4> QED BY <3>4, <4>3, Zenon DEF Complete
    <3>7. CASE AttributionRow(c) \notin InMemory
      <4>1. Written(AttributionRow(c))
        BY <2>5, <2>7, <3>7 DEF RowsAreWritten
      <4>2. Shows(executions[c], AttributionRow(c))
        BY <3>5, <4>1, WrittenShows
      <4>3. executions[c].attributed
        BY <3>5, <4>2, "purchase" # "attribution", Zenon DEF Shows
      <4>4. executions'[c].attributed
        BY <1>c, <4>3, Zenon DEF Grown
      <4> QED BY <3>4, <4>4, Zenon DEF Complete
    <3> QED BY <3>6, <3>7
  <2> QED BY <2>6, <2>7
<1> QED BY <1>2, <1>3

LEMMA EarlierCompleteStep ==
  ASSUME PilotInv, [PilotNext]_pilotVars, Moves
  PROVE  EarlierComplete'
<1>a. /\ PilotTypeOK /\ WriterStands /\ OneAtATime /\ RowsAreRecorded /\ RowsAreWritten
      /\ BrokerIsQuoted /\ PurchaseWritten /\ InOrder /\ EarlierComplete
  BY DEF PilotInv
<1>b. writer.batch \in Seq(Rows) /\ stopping.batch \in Seq(Rows) /\ ToSet(<<>>) = {}
  BY <1>a, MemoryParts
<1>c. ASSUME NEW c \in Purchases, NEW d \in Purchases, c < d, d <= purchased,
             AttributionRow(c) \in ToSet(queued)
      PROVE  PurchaseRow(d) \in InMemory
  <2>1. PICK i \in DOMAIN queued : queued[i] = AttributionRow(c)
    BY <1>c DEF ToSet
  <2>2. \E j \in DOMAIN queued : queued[j] = PurchaseRow(d)
    BY <1>a, <1>c, <2>1, RowsExist DEF InOrder, QueueInOrder
  <2> QED BY <2>2 DEF ToSet, InMemory
<1>1. CASE BatchWritten
  <2>1. writer.works
    BY <1>1 DEF BatchWritten
  <2>2. stopping.batch = <<>> \/ stopping.stage = "writing"
    BY <1>a, <2>1 DEF WriterStands
  <2>3. ASSUME NEW c \in Purchases, NEW d \in Purchases, c < d, d <= purchased,
               AttributionRow(c) \in InMemory \ ToSet(writer.batch)
        PROVE  PurchaseRow(d) \in InMemory
    <3>1. CASE AttributionRow(c) \in ToSet(queued)
      BY <1>c, <2>3, <3>1
    <3>2. CASE AttributionRow(c) \in ToSet(stopping.batch)
      BY <1>a, <1>b, <2>2, <2>3, <3>2 DEF InOrder, FlushInOrder, InMemory
    <3> QED BY <2>3, <3>1, <3>2 DEF InMemory
  <2> QED BY <1>1, <1>a, <1>b, <2>3, WorkerWrites, WrittenInOrder
<1>2. CASE FlushSucceeds("writing", "flushed")
  <2>1. stopping.stage = "writing"
    BY <1>2 DEF FlushSucceeds
  <2>2. ASSUME NEW c \in Purchases, NEW d \in Purchases, c < d, d <= purchased,
               AttributionRow(c) \in InMemory \ ToSet(stopping.batch)
        PROVE  PurchaseRow(d) \in InMemory
    <3>1. CASE AttributionRow(c) \in ToSet(queued)
      BY <1>c, <2>2, <3>1
    <3>2. CASE AttributionRow(c) \in ToSet(writer.batch)
      BY <1>a, <2>1, <2>2, <3>2 DEF InOrder, BatchInOrder
    <3> QED BY <2>2, <3>1, <3>2 DEF InMemory
  <2> QED BY <1>2, <1>a, <1>b, <2>2, FlushWrites, WrittenInOrder
<1>3. CASE FlushSucceeds("writing rest", "closed")
  <2>1. stopping.stage = "writing rest"
    BY <1>3 DEF FlushSucceeds
  <2>2. queued = <<>> /\ writer.batch = <<>>
    BY <1>a, <2>1 DEF WriterStands
  <2>3. InMemory \ ToSet(stopping.batch) = {}
    BY <1>b, <2>2 DEF InMemory
  <2> QED BY <1>3, <1>a, <1>b, <2>3, FlushWrites, WrittenInOrder
<1>4. CASE executions' = executions
  <2>1. missing \subseteq missing'
    BY <1>4 DEF Moves, Rests, Writes, Loses, Buys, Attributes, Settles, Takes
  <2> QED BY <1>4, <1>a, <2>1 DEF EarlierComplete, Complete, Lost
<1>5. CASE /\ ~BatchWritten /\ ~FlushSucceeds("writing", "flushed")
           /\ ~FlushSucceeds("writing rest", "closed")
  <2>1. executions' = executions
    BY <1>5 DEF PilotNext, Purchase, EnqueueTick, Collect, BatchFails, Attribute, SettleByBroker,
         SettleByBalance, SettleByTable, SettleLate, Settled, Shutdown, Flush, FlushTakes, FlushFails, CloseWriter,
         WorkerEnds, WorkerAwaited, FlushRest, Restarted, Crashed, StartAnew, Promote, pilotVars,
         evidenceVars
  <2> QED BY <1>4, <2>1
<1> QED BY <1>1, <1>2, <1>3, <1>5

-----------------------------------------------------------------------------
(* The ranking *)

LEMMA LargestContract ==
  ASSUME NEW S \in SUBSET Purchases, S # {}
  PROVE  \E m \in S : \A c \in S : c <= m
<1>a. MaxPurchases \in Nat /\ Purchases = 1 .. MaxPurchases
  BY PilotAssumption DEF Purchases
<1> DEFINE Rest == {n \in Nat : MaxPurchases - n \in S}
<1>1. Rest \subseteq Nat /\ Rest # {}
  <2>1. PICK c \in S : TRUE
    OBVIOUS
  <2>2. MaxPurchases - c \in Nat /\ MaxPurchases - (MaxPurchases - c) = c
    BY <1>a
  <2>3. MaxPurchases - c \in Rest
    BY <2>2
  <2> QED BY <2>3
<1>2. PICK n \in Rest : \A k \in Rest : <<k, n>> \notin OpToRel(<, Nat)
  <2> HIDE DEF Rest
  <2> QED BY <1>1, NatLessThanWellFounded, WFMin, Zenon
<1>3. n \in Nat /\ MaxPurchases - n \in S
  OBVIOUS
<1>4. ASSUME NEW c \in S PROVE c <= MaxPurchases - n
  <2>1. MaxPurchases - c \in Nat /\ MaxPurchases - (MaxPurchases - c) = c /\ c \in Nat
    BY <1>a
  <2>2. MaxPurchases - c \in Rest
    BY <2>1
  <2>3. ~(MaxPurchases - c < n)
    BY <1>2, <1>3, <2>1, <2>2, Zenon DEF OpToRel
  <2> QED BY <1>a, <1>3, <2>1, <2>3
<1> QED BY <1>3, <1>4

Preceding(c) == {d \in Purchases : InPilot(d) /\ Before(d, c)}

LEMMA PrecedingIsFinite ==
  ASSUME NEW S \in SUBSET Purchases
  PROVE  IsFiniteSet(S) /\ Cardinality(S) \in Nat
<1>1. IsFiniteSet(Purchases)
  BY FS_Interval, PilotAssumption DEF Purchases
<1> QED BY <1>1, FS_Subset, FS_CardinalityType

LEMMA SmallerCardinality ==
  ASSUME NEW T \in SUBSET Purchases, NEW S \in SUBSET T
  PROVE  /\ Cardinality(S) <= Cardinality(T)
         /\ Cardinality(S) = Cardinality(T) => S = T
  BY PrecedingIsFinite, FS_Subset

LEMMA RankedHas ==
  /\ Ranked \subseteq Purchases
  /\ \A c \in Purchases : c \in Ranked <=> InPilot(c) /\ Cardinality(Preceding(c)) < Sample
  BY DEF Ranked, Preceding

\* The view orders the executions, those with a beginning first.
LEMMA BeforeOrders ==
  ASSUME PilotTypeOK
  PROVE  /\ \A c, d, e \in Purchases : Before(c, d) /\ Before(d, e) => Before(c, e)
         /\ \A c, d \in Purchases : c # d => Before(c, d) \/ Before(d, c)
         /\ \A c \in Purchases : ~Before(c, c)
<1>1. \A c \in Purchases : executions[c].start \in BOOLEAN
  BY DEF PilotTypeOK, Executions
<1>2. Purchases \subseteq Int
  BY PilotAssumption DEF Purchases
<1>3. ASSUME NEW c \in Purchases, NEW d \in Purchases, NEW e \in Purchases, Before(c, d), Before(d, e)
      PROVE  Before(c, e)
  <2>1. c < d /\ d < e => c < e
    BY <1>2
  <2> QED BY <1>1, <1>3, <2>1, Zenon DEF Before
<1>4. ASSUME NEW c \in Purchases, NEW d \in Purchases, c # d PROVE Before(c, d) \/ Before(d, c)
  <2>1. c < d \/ d < c
    BY <1>2, <1>4
  <2> QED BY <1>1, <2>1, Zenon DEF Before
<1>5. ASSUME NEW c \in Purchases PROVE ~Before(c, c)
  <2>1. ~(c < c)
    BY <1>2
  <2> QED BY <1>1, <2>1, Zenon DEF Before
<1> QED BY <1>3, <1>4, <1>5

LEMMA EarlierIsRanked ==
  ASSUME PilotTypeOK, NEW d \in Ranked, NEW c \in Purchases, InPilot(c), Before(c, d)
  PROVE  c \in Ranked
<1>1. d \in Purchases /\ Cardinality(Preceding(d)) < Sample
  BY RankedHas
<1>2. Preceding(c) \subseteq Preceding(d) /\ Preceding(d) \subseteq Purchases
  BY <1>1, BeforeOrders DEF Preceding
<1>3. Cardinality(Preceding(c)) <= Cardinality(Preceding(d))
  BY <1>2, SmallerCardinality
<1>4. Cardinality(Preceding(c)) < Sample
  BY <1>1, <1>2, <1>3, PrecedingIsFinite, PilotAssumption
<1> QED BY <1>4, RankedHas

\* The last in the order of the view has fewer than Sample before it.
LEMMA RankedIsNoLarger ==
  ASSUME PilotTypeOK
  PROVE  Cardinality(Ranked) <= Sample /\ Cardinality(Ranked) \in Nat
<1>a. Ranked \subseteq Purchases /\ IsFiniteSet(Ranked) /\ Cardinality(Ranked) \in Nat
  BY RankedHas, PrecedingIsFinite
<1>b. Sample \in Nat /\ Sample > 1 /\ Purchases \subseteq Int
  BY PilotAssumption DEF Purchases
<1>c. \A c \in Purchases : executions[c].start \in BOOLEAN
  BY DEF PilotTypeOK, Executions
<1>1. CASE Ranked = {}
  BY <1>a, <1>b, <1>1, FS_EmptySet
<1>2. CASE Ranked # {}
  <2> DEFINE Unbegun == {c \in Ranked : ~executions[c].start}
  <2>1. \E m \in Ranked : \A c \in Ranked : c # m => Before(c, m)
    <3>1. CASE Unbegun # {}
      <4>1. PICK m \in Unbegun : \A c \in Unbegun : c <= m
        BY <1>a, <3>1, LargestContract
      <4>2. ASSUME NEW c \in Ranked, c # m PROVE Before(c, m)
        <5>1. c \in Unbegun => c < m
          <6>1. m \in Ranked /\ m \in Int /\ c \in Int
            BY <1>a, <1>b
          <6>2. c \in Unbegun => c <= m
            BY <4>1
          <6> QED BY <4>2, <6>1, <6>2
        <5>2. CASE c \in Unbegun
          <6>1. executions[c].start = FALSE /\ executions[m].start = FALSE
            BY <1>a, <1>c, <5>2, Zenon
          <6> QED BY <5>1, <5>2, <6>1, Zenon DEF Before
        <5>3. CASE c \notin Unbegun
          BY <1>c, <4>1, <5>3, Zenon DEF Before
        <5> QED BY <5>2, <5>3
      <4> QED BY <4>1, <4>2
    <3>2. CASE Unbegun = {}
      <4>1. PICK m \in Ranked : \A c \in Ranked : c <= m
        BY <1>a, <1>2, LargestContract
      <4>2. ASSUME NEW c \in Ranked, c # m PROVE Before(c, m)
        <5>1. c < m
          BY <1>a, <1>b, <4>1, <4>2
        <5>2. executions[c].start /\ executions[m].start
          BY <1>a, <1>c, <3>2
        <5> QED BY <1>a, <1>c, <5>1, <5>2, Zenon DEF Before
      <4> QED BY <4>1, <4>2
    <3> QED BY <3>1, <3>2
  <2>2. PICK m \in Ranked : \A c \in Ranked : c # m => Before(c, m)
    BY <2>1
  <2>3. Ranked \ {m} \subseteq Preceding(m) /\ Preceding(m) \subseteq Purchases
    BY <1>a, <2>2, RankedHas DEF Preceding
  <2>4. Cardinality(Preceding(m)) < Sample /\ Cardinality(Preceding(m)) \in Nat
    BY <1>a, <2>3, RankedHas, PrecedingIsFinite
  <2>5. Cardinality(Ranked \ {m}) <= Cardinality(Preceding(m))
    BY <2>3, SmallerCardinality
  <2>6. Cardinality(Ranked \ {m}) = Cardinality(Ranked) - 1
    BY <1>a, FS_RemoveElement
  <2> QED BY <1>a, <1>b, <2>4, <2>5, <2>6
<1> QED BY <1>1, <1>2

-----------------------------------------------------------------------------
(* The verdict *)

\* What a contract was paid, and from whom it is known, stays.
LEMMA SettledStays ==
  ASSUME PilotTypeOK, Moves
  PROVE  /\ \A c \in Purchases : outcome[c] # "open" => outcome'[c] = outcome[c] /\ report'[c] = report[c]
         /\ purchased <= purchased' /\ missing \subseteq missing'
<1>a. /\ purchased \in Nat /\ outcome \in [Purchases -> Outcomes \cup {"open"}]
      /\ report \in [Purchases -> Reports \cup {"none"}]
  BY PilotAssumption DEF PilotTypeOK
<1>1. missing \subseteq missing'
  BY DEF Moves, Rests, Writes, Loses, Buys, Attributes, Settles, Takes
<1>2. CASE UNCHANGED <<purchased, outcome, report>>
  BY <1>1, <1>2, <1>a
<1>3. ASSUME NEW c \in Purchases, Buys(c)
      PROVE  purchased' = purchased + 1 /\ UNCHANGED <<outcome, report>>
  BY <1>3 DEF Buys
<1>4. ASSUME NEW c \in Purchases, NEW how \in Reports, NEW o \in Outcomes, Settles(c, how, o)
      PROVE  /\ \A d \in Purchases : outcome[d] # "open" => outcome'[d] = outcome[d] /\ report'[d] = report[d]
             /\ purchased' = purchased
  <2>1. /\ outcome[c] = "open" /\ purchased' = purchased
        /\ outcome' = [outcome EXCEPT ![c] = o] /\ report' = [report EXCEPT ![c] = how]
    BY <1>4 DEF Settles
  <2> QED BY <1>a, <2>1
<1>5. CASE \E c \in Purchases : Buys(c)
  BY <1>1, <1>3, <1>5, <1>a
<1>6. CASE \E c \in Purchases, how \in Reports, o \in Outcomes : Settles(c, how, o)
  BY <1>1, <1>4, <1>6, <1>a
<1> QED BY <1>2, <1>5, <1>6 DEF Moves, Rests, Writes, Loses, Attributes

\* The verdict counts Sample contracts, each by the broker's result.
LEMMA PromoteDecides ==
  ASSUME PilotInv, Promote
  PROVE  DecidedOnBrokerResults' /\ VerdictStands'
<1>a. /\ PilotTypeOK /\ OneAtATime /\ BrokerIsQuoted /\ EarlierComplete
      /\ purchased \in Nat /\ Purchases \subseteq Nat /\ Purchases = 1 .. MaxPurchases
  BY PilotAssumption DEF PilotInv, PilotTypeOK, Purchases
<1>1. /\ Cardinality(Ranked) >= Sample /\ \A c \in Ranked : IsSettled(c)
      /\ decidedOn' = Ranked
      /\ registry' = IF LowerBoundIsPositive([c \in Ranked |-> executions[c].profit])
                     THEN "ativo" ELSE "reprovado"
      /\ UNCHANGED <<purchased, outcome, report, missing>>
  BY Zenon DEF Promote, tradeVars
<1>2. Cardinality(decidedOn') = Sample
  BY <1>a, <1>1, RankedIsNoLarger, PilotAssumption
<1>3. \A c \in Ranked : /\ c \in Purchases /\ executions[c].source = "broker"
                        /\ report[c] = "broker" /\ executions[c].profit = outcome[c]
  BY <1>a, <1>1, RankedHas DEF IsSettled, BrokerIsQuoted
<1>4. [c \in Ranked |-> executions[c].profit] = [c \in decidedOn' |-> outcome'[c]]
  BY <1>1, <1>3
<1>5. registry' = "ativo" <=> LowerBoundIsPositive([c \in decidedOn' |-> outcome'[c]])
  <2>1. "ativo" # "reprovado"
    OBVIOUS
  <2> QED BY <1>1, <1>4, <2>1, Zenon
<1>6. \A c \in decidedOn' : c <= purchased'
  BY <1>a, <1>1, <1>3 DEF OneAtATime
<1>7. ASSUME NEW d \in decidedOn', NEW c \in 1 .. purchased', c < d
      PROVE  c \in decidedOn' \/ \E row \in missing' : row.contract = c
  <2>1. d \in Ranked /\ d \in Purchases /\ c \in Purchases /\ executions[d].source = "broker"
    BY <1>a, <1>1, <1>3, <1>6, <1>7, PilotAssumption DEF PilotTypeOK
  <2>2. Complete(c) \/ Lost(c)
    BY <1>a, <1>7, <2>1 DEF EarlierComplete
  <2>3. CASE Lost(c)
    BY <1>1, <2>3 DEF Lost
  <2>4. CASE Complete(c)
    <3>1. InPilot(c)
      BY <2>4, Zenon DEF Complete, InPilot
    <3>2. executions[d].start \in BOOLEAN /\ executions[c].start \in BOOLEAN
      BY <1>a, <2>1 DEF PilotTypeOK, Executions
    <3>3. Before(c, d)
      BY <1>7, <2>4, <3>2, Zenon DEF Complete, Before
    <3>4. c \in Ranked
      BY <1>a, <2>1, <3>1, <3>3, EarlierIsRanked
    <3> QED BY <1>1, <3>4
  <2> QED BY <2>2, <2>3, <2>4
<1>8. VerdictStands'
  BY <1>6 DEF VerdictStands
<1>9. \A c \in decidedOn' : report'[c] = "broker"
  BY <1>1, <1>3
<1>10. DecidedOnBrokerResults'
  BY <1>2, <1>5, <1>7, <1>9, Zenon DEF DecidedOnBrokerResults
<1> QED BY <1>8, <1>10

LEMMA VerdictStays ==
  ASSUME PilotInv, Moves, UNCHANGED <<registry, decidedOn>>
  PROVE  DecidedOnBrokerResults' /\ VerdictStands'
<1>a. /\ PilotTypeOK /\ OneAtATime /\ DecidedOnBrokerResults /\ VerdictStands
      /\ purchased \in Nat /\ purchased' \in Int /\ decidedOn \subseteq Purchases /\ Purchases \subseteq Nat
  <2>1. purchased \in Nat
    BY PilotAssumption DEF PilotInv, PilotTypeOK
  <2>2. purchased' = purchased \/ purchased' = purchased + 1
    BY DEF Moves, Rests, Writes, Loses, Buys, Attributes, Settles
  <2> QED BY <2>1, <2>2, PilotAssumption DEF PilotInv, PilotTypeOK, Purchases
<1>1. CASE registry = "piloto"
  BY <1>1 DEF DecidedOnBrokerResults, VerdictStands
<1>2. CASE registry # "piloto"
  <2>1. /\ Cardinality(decidedOn) = Sample /\ \A c \in decidedOn : report[c] = "broker"
        /\ registry = "ativo" <=> LowerBoundIsPositive([c \in decidedOn |-> outcome[c]])
        /\ \A d \in decidedOn, c \in 1 .. purchased :
             c < d => c \in decidedOn \/ \E row \in missing : row.contract = c
        /\ \A c \in decidedOn : c <= purchased
    BY <1>a, <1>2, Zenon DEF DecidedOnBrokerResults, VerdictStands
  <2>2. \A c \in decidedOn : outcome'[c] = outcome[c] /\ report'[c] = report[c]
    BY <1>a, <2>1, SettledStays DEF OneAtATime
  <2>3. [c \in decidedOn |-> outcome[c]] = [c \in decidedOn' |-> outcome'[c]]
    BY <2>2
  <2>4. registry' = "ativo" <=> LowerBoundIsPositive([c \in decidedOn' |-> outcome'[c]])
    BY <2>1, <2>3, Zenon
  <2>5. \A c \in decidedOn' : c <= purchased' /\ report'[c] = "broker"
    BY <1>a, <2>1, <2>2, SettledStays
  <2>6. ASSUME NEW d \in decidedOn', NEW c \in 1 .. purchased', c < d
        PROVE  c \in decidedOn' \/ \E row \in missing' : row.contract = c
    <3>1. c \in 1 .. purchased
      BY <1>a, <2>1, <2>6
    <3> QED BY <1>a, <2>1, <2>6, <3>1, SettledStays
  <2>7. Cardinality(decidedOn') = Sample
    BY <2>1
  <2>8. DecidedOnBrokerResults'
    BY <2>4, <2>5, <2>6, <2>7, Zenon DEF DecidedOnBrokerResults
  <2> QED BY <2>5, <2>8 DEF VerdictStands
<1> QED BY <1>1, <1>2

LEMMA VerdictStep ==
  ASSUME PilotInv, Moves
  PROVE  DecidedOnBrokerResults' /\ VerdictStands'
  BY PromoteDecides, VerdictStays DEF Moves, Rests, Writes, Loses, Buys, Attributes, Settles

-----------------------------------------------------------------------------
(* The theorems *)

LEMMA PilotInitInv == PilotInit => PilotInv
<1> SUFFICES ASSUME PilotInit PROVE PilotInv
  OBVIOUS
<1>1. PilotTypeOK
  BY PilotInitTypes
<1>2. /\ purchased = 0 /\ unattributed = {} /\ queued = <<>> /\ writer.batch = <<>> /\ ~writer.works
      /\ stopping.batch = <<>> /\ stopping.stage = "open" /\ accepted = {} /\ registry = "piloto"
      /\ \A c \in Purchases : /\ outcome[c] = "open" /\ report[c] = "none"
                              /\ executions[c] = NoExecution
  BY WriterStates DEF PilotInit
<1>3. InMemory = {} /\ ToSet(writer.batch) = {} /\ ToSet(<<>>) = {}
  BY <1>1, <1>2, MemoryParts DEF InMemory
<1>4. \A c \in Purchases : executions[c].source = "none"
  BY <1>2 DEF NoExecution
<1>5. \A c \in Purchases : ~(c <= purchased) /\ ~(c < purchased)
  BY <1>2, PilotAssumption DEF Purchases
<1>6. WriterStands /\ OneAtATime /\ RowsAreRecorded /\ RowsAreWritten
  BY <1>2, <1>3, <1>5 DEF WriterStands, OneAtATime, RowsAreRecorded, RowsAreWritten
<1>7. BrokerIsQuoted /\ PurchaseWritten /\ EarlierComplete
  BY <1>2, <1>3, <1>4 DEF BrokerIsQuoted, PurchaseWritten, EarlierComplete
<1>8. InOrder
  BY <1>2, <1>3 DEF InOrder, QueueInOrder, FlushInOrder, BatchInOrder
<1>9. VerdictStands /\ DecidedOnBrokerResults
  BY <1>2, Zenon DEF VerdictStands, DecidedOnBrokerResults
<1> QED BY <1>1, <1>6, <1>7, <1>8, <1>9 DEF PilotInv

LEMMA PilotInvStep == PilotInv /\ [PilotNext]_pilotVars => PilotInv'
<1> SUFFICES ASSUME PilotInv, [PilotNext]_pilotVars PROVE PilotInv'
  OBVIOUS
<1>1. /\ PilotTypeOK /\ WriterStands /\ OneAtATime /\ RowsAreRecorded /\ RowsAreWritten
      /\ BrokerIsQuoted /\ PurchaseWritten /\ InOrder
  BY DEF PilotInv
<1>2. PilotTypeOK' /\ WriterStands' /\ Moves
  BY <1>1, PilotTypeStep, WriterStep, StepMoves
<1>3. OneAtATime' /\ RowsAreRecorded' /\ RowsAreWritten'
  BY <1>1, <1>2, OneAtATimeStep, RowsAreRecordedStep, RowsAreWrittenStep
<1>4. BrokerIsQuoted' /\ PurchaseWritten'
  BY <1>1, <1>2, BrokerIsQuotedStep, PurchaseWrittenStep
<1>5. InOrder' /\ EarlierComplete'
  BY <1>1, <1>2, InOrderStep, EarlierCompleteStep
<1>6. VerdictStands' /\ DecidedOnBrokerResults'
  BY <1>2, VerdictStep
<1> QED BY <1>2, <1>3, <1>4, <1>5, <1>6 DEF PilotInv

\* The inductive invariant holds throughout: the writer's states, one contract at
\* a time, every row recorded, the order of the rows and the verdict.
THEOREM PilotInvariance == PilotSpec => []PilotInv
  BY PilotInitInv, PilotInvStep, PTL DEF PilotSpec

\* Every variable of the pilot's evidence keeps its type, the table of executions
\* through batches of any length (upsert of contract_executions).
THEOREM PilotTypeCorrect == PilotSpec => []PilotTypeOK
<1>1. PilotInv => PilotTypeOK
  BY DEF PilotInv
<1> QED BY <1>1, PilotInvariance, PTL

\* A row that the writer accepted is in its hands or in the table until a write
\* fails or the process dies, and a closed writer holds nothing, for batches and
\* queues of any length (worker, flush and close of TimescaleMarketWriter).
THEOREM RowsAlwaysWritten == PilotSpec => []RowsAreWritten
<1>1. PilotInv => RowsAreWritten
  BY DEF PilotInv
<1> QED BY <1>1, PilotInvariance, PTL

\* A verdict counts Sample contracts by the broker's own results, is the one they
\* deserve and passes over no complete earlier purchase, for any size of the
\* sample (view and promotion of the indicator service).
THEOREM AlwaysDecidedOnBrokerResults == PilotSpec => []DecidedOnBrokerResults
<1>1. PilotInv => DecidedOnBrokerResults
  BY DEF PilotInv
<1> QED BY <1>1, PilotInvariance, PTL

\* All rows of the first Sample contracts are in the table when none was lost and
\* none is on its way, so these contracts are the ranking.
LEMMA CompleteIsRanked ==
  ASSUME PilotInv
  PROVE  CompletePilotIsJudged
<1>a. /\ PilotTypeOK /\ RowsAreRecorded /\ RowsAreWritten /\ purchased \in 0 .. MaxPurchases
      /\ Sample \in Nat /\ Sample > 1 /\ MaxPurchases \in Nat /\ Purchases = 1 .. MaxPurchases
  BY PilotAssumption DEF PilotInv, PilotTypeOK, Purchases
<1>1. SUFFICES ASSUME Sample <= purchased, unattributed = {}, InMemory = {},
                      \A c \in 1 .. Sample : ~Spoiled(c)
               PROVE  Ranked = 1 .. Sample /\ \A c \in Ranked : IsSettled(c)
  BY DEF CompletePilotIsJudged
<1>2. 1 .. Sample \subseteq Purchases /\ \A c \in 1 .. Sample : c <= purchased
  BY <1>a, <1>1
<1>3. ASSUME NEW c \in 1 .. Sample
      PROVE  /\ executions[c].start = TRUE /\ InPilot(c) /\ IsSettled(c)
  <2>1. report[c] = "broker" /\ \A row \in missing : row.contract # c
    BY <1>1 DEF Spoiled
  <2>2. c \in Purchases /\ executions[c] \in Executions /\ outcome[c] \in Outcomes \cup {"open"}
    BY <1>a, <1>2 DEF PilotTypeOK
  <2> DEFINE s == Row(c, "settlement", outcome[c], "broker")
  <2>3. /\ PurchaseRow(c) \in accepted \cup missing /\ AttributionRow(c) \in accepted \cup missing
        /\ s \in accepted \cup missing
    BY <1>a, <1>1, <1>2, <2>1, <2>2 DEF RowsAreRecorded
  <2>4. /\ PurchaseRow(c).contract = c /\ PurchaseRow(c).kind = "purchase"
        /\ AttributionRow(c).contract = c /\ AttributionRow(c).kind = "attribution"
        /\ s.contract = c /\ s.kind = "settlement" /\ s.source = "broker"
    <3>1. PurchaseRow(c).contract = c /\ PurchaseRow(c).kind = "purchase"
      BY <2>2, RowsExist
    <3>2. AttributionRow(c).contract = c /\ AttributionRow(c).kind = "attribution"
      BY <2>2, RowsExist
    <3>3. s.contract = c /\ s.kind = "settlement" /\ s.source = "broker"
      BY DEF Row
    <3> QED BY <3>1, <3>2, <3>3
  <2>5. Written(PurchaseRow(c)) /\ Written(AttributionRow(c)) /\ Written(s)
    <3> HIDE DEF s
    <3> QED BY <1>a, <1>1, <2>1, <2>3, <2>4 DEF RowsAreWritten
  <2>6. /\ Shows(executions[c], PurchaseRow(c)) /\ Shows(executions[c], AttributionRow(c))
        /\ Shows(executions[c], s)
    BY <2>4, <2>5, WrittenShows
  <2> HIDE DEF s
  <2>7. executions[c].start /\ executions[c].price
    BY <2>4, <2>6, Zenon DEF Shows
  <2>8. executions[c].attributed
    BY <2>4, <2>6, "purchase" # "attribution", Zenon DEF Shows
  <2>9. executions[c].profit # "none" /\ executions[c].source = "broker"
    BY <2>4, <2>6, "settlement" # "purchase", "settlement" # "attribution", Zenon DEF Shows
  <2>10. executions[c].start \in BOOLEAN
    BY <2>2 DEF Executions
  <2> QED BY <2>7, <2>8, <2>9, <2>10, Zenon DEF InPilot, IsSettled
<1>4. ASSUME NEW c \in 1 .. Sample PROVE c \in Ranked
  <2>1. Preceding(c) \subseteq 1 .. c - 1
    <3>1. ASSUME NEW d \in Purchases, Before(d, c) PROVE d \in 1 .. c - 1
      <4>1. d < c
        BY <1>3, <3>1, Zenon DEF Before
      <4> QED BY <1>a, <4>1
    <3> QED BY <3>1 DEF Preceding
  <2>2. 1 .. c - 1 \subseteq Purchases /\ Cardinality(1 .. c - 1) = c - 1
    <3>1. c \in Int /\ 1 <= c /\ c <= MaxPurchases /\ c - 1 \in Int
      BY <1>a, <1>2
    <3>2. Cardinality(1 .. c - 1) = IF 1 > c - 1 THEN 0 ELSE (c - 1) - 1 + 1
      BY <3>1, FS_Interval
    <3> QED BY <1>a, <3>1, <3>2
  <2>3. Cardinality(Preceding(c)) <= c - 1 /\ Cardinality(Preceding(c)) \in Nat
    BY <2>1, <2>2, SmallerCardinality, PrecedingIsFinite
  <2>4. Cardinality(Preceding(c)) < Sample
    BY <1>a, <2>3
  <2> QED BY <1>2, <1>3, <2>4, RankedHas
<1>5. Ranked = 1 .. Sample
  <2>1. 1 .. Sample \subseteq Ranked /\ Cardinality(1 .. Sample) = Sample
    BY <1>a, <1>4, FS_Interval
  <2>2. Ranked \in SUBSET Purchases /\ Cardinality(1 .. Sample) <= Cardinality(Ranked)
        /\ (Cardinality(1 .. Sample) = Cardinality(Ranked) => 1 .. Sample = Ranked)
    BY <2>1, RankedHas, SmallerCardinality
  <2>3. Cardinality(Ranked) <= Sample /\ Cardinality(Ranked) \in Nat
    BY <1>a, RankedIsNoLarger
  <2>4. Cardinality(Ranked) = Sample
    BY <1>a, <2>1, <2>2, <2>3
  <2> QED BY <2>1, <2>2, <2>4
<1> QED BY <1>3, <1>5

\* When the first Sample contracts are complete and nothing is on its way, the
\* version was judged or exactly these contracts decide it at the next tick, for
\* any size of the sample (view and promotion of the indicator service).
THEOREM CompletePilotAlwaysJudged == PilotSpec => []CompletePilotIsJudged
  BY CompleteIsRanked, PilotInvariance, PTL
=============================================================================
