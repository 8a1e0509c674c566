-------------------------- MODULE RedisQueueProofs --------------------------
(***************************************************************************)
(* Proofs about RedisQueue for any contracts, consumers, drops and         *)
(* restarts: what the lock gives although the clean-up and the other       *)
(* engines go without it.                                                  *)
(***************************************************************************)
EXTENDS RedisQueue, TLAPS

\* Whoever reads or changes the queue has the lock.
LockOwned ==
  \A p \in Consumers :
    stage[p] \in {"choosing", "erasing", "adding"} => lock = p

\* What a task has in hand is an item of a contract of its engine, one to be
\* erased is booked, and one to be added replaces none.
HandIsOwned ==
  /\ inbox \subseteq owned
  /\ \A p \in Consumers :
       stage[p] \in {"settling", "erasing", "pushing", "adding"}
       => item[p] \in Items /\ item[p].contract \in owned
  /\ \A p \in Consumers : stage[p] = "erasing" => item[p].contract \in booked
  /\ \A p \in Consumers : stage[p] = "adding" => ItemsOf(item[p].contract) = {}

\* The other engines' items come from the stream.
PeersItems == \A i \in queue : i.contract \in Foreign => i.source = "stream"

QueueInv ==
  /\ QueueTypeOK /\ LockOwned /\ HandIsOwned /\ PeersItems
  /\ OneItemPerContract /\ EnqueuedIsQueued /\ NoSettlementLost

LEMMA ItemParts ==
  /\ \A i \in Items : i.contract \in Contracts /\ i.source \in {"stream", "query"}
  /\ \A i, j \in Items : i.contract = j.contract /\ i.source = j.source => i = j
  /\ \A c \in Contracts, f \in {"stream", "query"} :
       /\ [contract |-> c, source |-> f] \in Items
       /\ [contract |-> c, source |-> f].contract = c
       /\ [contract |-> c, source |-> f].source = f
BY DEF Items

LEMMA StreamItem ==
  \A c \in Contracts : \E i \in Items :
    /\ i = [contract |-> c, source |-> "stream"]
    /\ i.contract = c /\ i.source = "stream"
BY ItemParts

LEMMA QueueInitInv == QueueInit => QueueInv
<1> SUFFICES ASSUME QueueInit PROVE QueueInv
  OBVIOUS
<1> USE DEF QueueInit
<1>1. QueueTypeOK
  BY DEF QueueTypeOK, Stages, Mine
<1>2. LockOwned /\ HandIsOwned /\ PeersItems
  BY DEF LockOwned, HandIsOwned, PeersItems
<1>3. OneItemPerContract /\ EnqueuedIsQueued /\ NoSettlementLost
  BY DEF OneItemPerContract, EnqueuedIsQueued, NoSettlementLost
<1> QED BY <1>1, <1>2, <1>3 DEF QueueInv

\* Types.
LEMMA QueueTypeStep ==
  ASSUME QueueInv, [QueueNext]_queueVars
  PROVE  QueueTypeOK'
<1> USE ItemParts, ForeignAssumption, ConsumersAssumption
    DEF QueueInv, QueueTypeOK, QueueTypeOK, passageVars, localVars, linkVars, pastVars,
        Move, ItemsOf, Mine, Stages
<1>1. ASSUME NEW p \in Consumers, Consume(p) \/ Read(p)
      PROVE  QueueTypeOK'
  BY <1>1 DEF Consume, Read
<1>2. ASSUME NEW p \in Consumers, FinishReading(p) \/ Unconfirmed(p)
      PROVE  QueueTypeOK'
  BY <1>2 DEF FinishReading, Unconfirmed, Choose, Leave
<1>3. ASSUME NEW p \in Consumers, Confirm(p)
      PROVE  QueueTypeOK'
  BY <1>3 DEF Confirm, Choose
<1>4. ASSUME NEW p \in Consumers, GoOffline(p)
      PROVE  QueueTypeOK'
  BY <1>4 DEF GoOffline, HandIsOwned
<1>5. ASSUME NEW p \in Consumers, Erase(p)
      PROVE  QueueTypeOK'
  BY <1>5 DEF Erase, HandIsOwned
<1>6. ASSUME NEW p \in Consumers, Settle(p)
      PROVE  QueueTypeOK'
  BY <1>6 DEF Settle, AfterSettling, Leave, LeaveInbox, Book, HandIsOwned
<1>7. ASSUME NEW p \in Consumers, PushAgain(p) \/ PushFails(p)
      PROVE  QueueTypeOK'
  BY <1>7 DEF PushAgain, PushFails, LeavePush, Leave, LeaveInbox
<1>8. ASSUME NEW p \in Consumers, Remove(p)
      PROVE  QueueTypeOK'
  BY <1>8 DEF Remove, HandIsOwned
<1>9. ASSUME NEW p \in Consumers, Add(p)
      PROVE  QueueTypeOK'
  BY <1>9 DEF Add, LeavePush, Leave, LeaveInbox, HandIsOwned
<1>10. ASSUME NEW c \in Mine, Take(c) PROVE QueueTypeOK'
  BY <1>10 DEF Take
<1>11. ASSUME NEW p \in Reconcilers, NEW c \in Mine, Reconcile(p, c) PROVE QueueTypeOK'
  BY <1>11 DEF Reconcile, Reconcilers
<1>12. ASSUME NEW c \in Mine, BrokerCloses(c) \/ Notify(c) PROVE QueueTypeOK'
  BY <1>12 DEF BrokerCloses, Notify
<1>13. ASSUME NEW c \in Foreign, PeerPush(c) PROVE QueueTypeOK'
  <2>1. [contract |-> c, source |-> "stream"] \in Items
    BY <1>13
  <2> QED BY <2>1, <1>13 DEF PeerPush
<1>14. ASSUME NEW c \in Foreign, PeerErase(c) PROVE QueueTypeOK'
  BY <1>14 DEF PeerErase
<1>15. CASE Wipe
  BY <1>15 DEF Wipe
<1>16. CASE Drop \/ Reconnect
  <2>1. up' \in BOOLEAN
    BY <1>16, Zenon DEF Drop, Reconnect
  <2>2. drops' \in Nat
    BY <1>16 DEF Drop, Reconnect
  <2> QED BY <2>1, <2>2, <1>16 DEF Drop, Reconnect
<1>17. CASE Restart
  BY <1>17 DEF Restart
<1>18. CASE UNCHANGED queueVars
  BY <1>18 DEF queueVars
<1>19. ASSUME NEW p \in Consumers, RedisFails(p) \/ Cancel(p) PROVE QueueTypeOK'
  BY <1>19 DEF RedisFails, Cancel, SentInVain, Leave, Book, HandIsOwned
<1>20. ASSUME NEW p \in Consumers, ConfirmFails(p) \/ SettleFails(p) PROVE QueueTypeOK'
  <2>1. working' \in BOOLEAN
    BY <1>20, Zenon DEF ConfirmFails, SettleFails
  <2> QED BY <2>1, <1>20
          DEF ConfirmFails, SettleFails, Leave, LeaveInbox, Book, HandIsOwned
<1> QED BY <1>1, <1>2, <1>3, <1>4, <1>5, <1>6, <1>7, <1>8, <1>9, <1>10,
           <1>11, <1>12, <1>13, <1>14, <1>15, <1>16, <1>17, <1>18, <1>19, <1>20
        DEF QueueNext, Passage

\* Only who found the lock free takes it.
LEMMA LockStep ==
  ASSUME QueueInv, [QueueNext]_queueVars
  PROVE  LockOwned'
<1> USE ItemParts, ForeignAssumption, ConsumersAssumption
    DEF QueueInv, QueueTypeOK, LockOwned, passageVars, localVars, linkVars, pastVars,
        Move, ItemsOf, Mine
<1>1. ASSUME NEW p \in Consumers, Consume(p) \/ Read(p)
      PROVE  LockOwned'
  BY <1>1 DEF Consume, Read
<1>2. ASSUME NEW p \in Consumers, FinishReading(p) \/ Unconfirmed(p)
      PROVE  LockOwned'
  BY <1>2 DEF FinishReading, Unconfirmed, Choose, Leave
<1>3. ASSUME NEW p \in Consumers, Confirm(p)
      PROVE  LockOwned'
  BY <1>3 DEF Confirm, Choose
<1>4. ASSUME NEW p \in Consumers, GoOffline(p)
      PROVE  LockOwned'
  BY <1>4 DEF GoOffline
<1>5. ASSUME NEW p \in Consumers, Erase(p)
      PROVE  LockOwned'
  BY <1>5 DEF Erase
<1>6. ASSUME NEW p \in Consumers, Settle(p)
      PROVE  LockOwned'
  BY <1>6 DEF Settle, AfterSettling, Leave, LeaveInbox, Book
<1>7. ASSUME NEW p \in Consumers, PushAgain(p) \/ PushFails(p)
      PROVE  LockOwned'
  BY <1>7 DEF PushAgain, PushFails, LeavePush, Leave, LeaveInbox
<1>8. ASSUME NEW p \in Consumers, Remove(p)
      PROVE  LockOwned'
  BY <1>8 DEF Remove
<1>9. ASSUME NEW p \in Consumers, Add(p)
      PROVE  LockOwned'
  <2>1. lock = p /\ Leave(p)
    BY <1>9 DEF Add, LeavePush
  <2> QED BY <2>1 DEF Leave
<1>10. ASSUME NEW c \in Mine, Take(c) PROVE LockOwned'
  BY <1>10 DEF Take
<1>11. ASSUME NEW p \in Reconcilers, NEW c \in Mine, Reconcile(p, c) PROVE LockOwned'
  BY <1>11 DEF Reconcile, Reconcilers
<1>12. ASSUME NEW c \in Mine, BrokerCloses(c) \/ Notify(c) PROVE LockOwned'
  BY <1>12 DEF BrokerCloses, Notify
<1>13. ASSUME NEW c \in Foreign, PeerPush(c) PROVE LockOwned'
  BY <1>13 DEF PeerPush
<1>14. ASSUME NEW c \in Foreign, PeerErase(c) PROVE LockOwned'
  BY <1>14 DEF PeerErase
<1>15. CASE Wipe
  BY <1>15 DEF Wipe
<1>16. CASE Drop \/ Reconnect
  BY <1>16 DEF Drop, Reconnect
<1>17. CASE Restart
  BY <1>17 DEF Restart
<1>18. CASE UNCHANGED queueVars
  BY <1>18 DEF queueVars
<1>19. ASSUME NEW p \in Consumers, RedisFails(p) \/ Cancel(p) PROVE LockOwned'
  BY <1>19 DEF RedisFails, Cancel, SentInVain, Leave, Book, HandIsOwned
<1>20. ASSUME NEW p \in Consumers, ConfirmFails(p) \/ SettleFails(p) PROVE LockOwned'
  BY <1>20 DEF ConfirmFails, SettleFails, Leave, LeaveInbox, Book, HandIsOwned
<1> QED BY <1>1, <1>2, <1>3, <1>4, <1>5, <1>6, <1>7, <1>8, <1>9, <1>10,
           <1>11, <1>12, <1>13, <1>14, <1>15, <1>16, <1>17, <1>18, <1>19, <1>20
        DEF QueueNext, Passage

\* A task keeps its item while it has to.
LEMMA HandStep ==
  ASSUME QueueInv, [QueueNext]_queueVars
  PROVE  HandIsOwned'
<1> USE ItemParts, ForeignAssumption, ConsumersAssumption
    DEF QueueInv, QueueTypeOK, HandIsOwned, passageVars, localVars, linkVars, pastVars,
        Move, ItemsOf, Mine
<1>1. ASSUME NEW p \in Consumers, Consume(p) \/ Read(p)
      PROVE  HandIsOwned'
  BY <1>1 DEF Consume, Read
<1>2. ASSUME NEW p \in Consumers, FinishReading(p) \/ Unconfirmed(p)
      PROVE  HandIsOwned'
  BY <1>2 DEF FinishReading, Unconfirmed, Choose, Leave
<1>3. ASSUME NEW p \in Consumers, Confirm(p)
      PROVE  HandIsOwned'
  BY <1>3 DEF Confirm, Choose
<1>4. ASSUME NEW p \in Consumers, GoOffline(p)
      PROVE  HandIsOwned'
  BY <1>4 DEF GoOffline
<1>5. ASSUME NEW p \in Consumers, Erase(p)
      PROVE  HandIsOwned'
  BY <1>5 DEF Erase, LockOwned
<1>6. ASSUME NEW p \in Consumers, Settle(p)
      PROVE  HandIsOwned'
  BY <1>6 DEF Settle, AfterSettling, Leave, LeaveInbox, Book, LockOwned
<1>7. ASSUME NEW p \in Consumers, PushAgain(p) \/ PushFails(p)
      PROVE  HandIsOwned'
  BY <1>7 DEF PushAgain, PushFails, LeavePush, Leave, LeaveInbox, LockOwned
<1>8. ASSUME NEW p \in Consumers, Remove(p)
      PROVE  HandIsOwned'
  BY <1>8 DEF Remove, LockOwned
<1>9. ASSUME NEW p \in Consumers, Add(p)
      PROVE  HandIsOwned'
  BY <1>9 DEF Add, LeavePush, Leave, LeaveInbox, LockOwned
<1>10. ASSUME NEW c \in Mine, Take(c) PROVE HandIsOwned'
  <2>1. PICK i \in Items : i.contract = c /\ item' = [item EXCEPT !["worker"] = i]
    BY <1>10 DEF Take
  <2>2. c \in owned
    BY <1>10 DEF Take
  <2>3. /\ stage' = [stage EXCEPT !["worker"] = "settling"]
        /\ UNCHANGED <<inbox, owned, booked, queue>>
    BY <1>10 DEF Take
  <2> QED BY <2>1, <2>2, <2>3
<1>11. ASSUME NEW p \in Reconcilers, NEW c \in Mine, Reconcile(p, c) PROVE HandIsOwned'
  <2>1. PICK i \in Items : i.contract = c /\ item' = [item EXCEPT ![p] = i]
    BY <1>11 DEF Reconcile, Reconcilers
  <2>2. /\ stage' = [stage EXCEPT ![p] = "settling"] /\ c \in owned
        /\ UNCHANGED <<inbox, owned, booked, queue>>
    BY <1>11 DEF Reconcile, Reconcilers
  <2> QED BY <2>1, <2>2
<1>12. ASSUME NEW c \in Mine, BrokerCloses(c) \/ Notify(c) PROVE HandIsOwned'
  BY <1>12 DEF BrokerCloses, Notify
<1>13. ASSUME NEW c \in Foreign, PeerPush(c) PROVE HandIsOwned'
  BY <1>13 DEF PeerPush
<1>14. ASSUME NEW c \in Foreign, PeerErase(c) PROVE HandIsOwned'
  BY <1>14 DEF PeerErase
<1>15. CASE Wipe
  BY <1>15 DEF Wipe
<1>16. CASE Drop \/ Reconnect
  BY <1>16 DEF Drop, Reconnect
<1>17. CASE Restart
  BY <1>17 DEF Restart
<1>18. CASE UNCHANGED queueVars
  BY <1>18 DEF queueVars
<1>19. ASSUME NEW p \in Consumers, RedisFails(p) \/ Cancel(p) PROVE HandIsOwned'
  BY <1>19 DEF RedisFails, Cancel, SentInVain, Leave, Book, HandIsOwned
<1>20. ASSUME NEW p \in Consumers, ConfirmFails(p) \/ SettleFails(p) PROVE HandIsOwned'
  BY <1>20 DEF ConfirmFails, SettleFails, Leave, LeaveInbox, Book, HandIsOwned
<1> QED BY <1>1, <1>2, <1>3, <1>4, <1>5, <1>6, <1>7, <1>8, <1>9, <1>10,
           <1>11, <1>12, <1>13, <1>14, <1>15, <1>16, <1>17, <1>18, <1>19, <1>20
        DEF QueueNext, Passage

\* No task adds an item of another engine.
LEMMA PeersStep ==
  ASSUME QueueInv, [QueueNext]_queueVars
  PROVE  PeersItems'
<1> USE ItemParts, ForeignAssumption, ConsumersAssumption
    DEF QueueInv, QueueTypeOK, PeersItems, passageVars, localVars, linkVars, pastVars,
        Move, ItemsOf, Mine
<1>1. ASSUME NEW p \in Consumers, Consume(p) \/ Read(p)
      PROVE  PeersItems'
  BY <1>1 DEF Consume, Read
<1>2. ASSUME NEW p \in Consumers, FinishReading(p) \/ Unconfirmed(p)
      PROVE  PeersItems'
  BY <1>2 DEF FinishReading, Unconfirmed, Choose, Leave
<1>3. ASSUME NEW p \in Consumers, Confirm(p)
      PROVE  PeersItems'
  BY <1>3 DEF Confirm, Choose
<1>4. ASSUME NEW p \in Consumers, GoOffline(p)
      PROVE  PeersItems'
  BY <1>4 DEF GoOffline
<1>5. ASSUME NEW p \in Consumers, Erase(p)
      PROVE  PeersItems'
  BY <1>5 DEF Erase
<1>6. ASSUME NEW p \in Consumers, Settle(p)
      PROVE  PeersItems'
  BY <1>6 DEF Settle, AfterSettling, Leave, LeaveInbox, Book
<1>7. ASSUME NEW p \in Consumers, PushAgain(p) \/ PushFails(p)
      PROVE  PeersItems'
  BY <1>7 DEF PushAgain, PushFails, LeavePush, Leave, LeaveInbox
<1>8. ASSUME NEW p \in Consumers, Remove(p)
      PROVE  PeersItems'
  BY <1>8 DEF Remove
<1>9. ASSUME NEW p \in Consumers, Add(p)
      PROVE  PeersItems'
  BY <1>9 DEF Add, LeavePush, Leave, LeaveInbox, HandIsOwned
<1>10. ASSUME NEW c \in Mine, Take(c) PROVE PeersItems'
  BY <1>10 DEF Take
<1>11. ASSUME NEW p \in Reconcilers, NEW c \in Mine, Reconcile(p, c) PROVE PeersItems'
  BY <1>11 DEF Reconcile, Reconcilers
<1>12. ASSUME NEW c \in Mine, BrokerCloses(c) \/ Notify(c) PROVE PeersItems'
  BY <1>12 DEF BrokerCloses, Notify
<1>13. ASSUME NEW c \in Foreign, PeerPush(c) PROVE PeersItems'
  BY <1>13 DEF PeerPush
<1>14. ASSUME NEW c \in Foreign, PeerErase(c) PROVE PeersItems'
  BY <1>14 DEF PeerErase
<1>15. CASE Wipe
  BY <1>15 DEF Wipe
<1>16. CASE Drop \/ Reconnect
  BY <1>16 DEF Drop, Reconnect
<1>17. CASE Restart
  BY <1>17 DEF Restart
<1>18. CASE UNCHANGED queueVars
  BY <1>18 DEF queueVars
<1>19. ASSUME NEW p \in Consumers, RedisFails(p) \/ Cancel(p) PROVE PeersItems'
  BY <1>19 DEF RedisFails, Cancel, SentInVain, Leave, Book, HandIsOwned
<1>20. ASSUME NEW p \in Consumers, ConfirmFails(p) \/ SettleFails(p) PROVE PeersItems'
  BY <1>20 DEF ConfirmFails, SettleFails, Leave, LeaveInbox, Book, HandIsOwned
<1> QED BY <1>1, <1>2, <1>3, <1>4, <1>5, <1>6, <1>7, <1>8, <1>9, <1>10,
           <1>11, <1>12, <1>13, <1>14, <1>15, <1>16, <1>17, <1>18, <1>19, <1>20
        DEF QueueNext, Passage

\* An item is added where there was none, or is the one that was.
LEMMA OneItemStep ==
  ASSUME QueueInv, [QueueNext]_queueVars
  PROVE  OneItemPerContract'
<1> USE ItemParts, ForeignAssumption, ConsumersAssumption
    DEF QueueInv, QueueTypeOK, OneItemPerContract, passageVars, localVars, linkVars, pastVars,
        Move, ItemsOf, Mine
<1>1. ASSUME NEW p \in Consumers, Consume(p) \/ Read(p)
      PROVE  OneItemPerContract'
  BY <1>1 DEF Consume, Read
<1>2. ASSUME NEW p \in Consumers, FinishReading(p) \/ Unconfirmed(p)
      PROVE  OneItemPerContract'
  BY <1>2 DEF FinishReading, Unconfirmed, Choose, Leave
<1>3. ASSUME NEW p \in Consumers, Confirm(p)
      PROVE  OneItemPerContract'
  BY <1>3 DEF Confirm, Choose
<1>4. ASSUME NEW p \in Consumers, GoOffline(p)
      PROVE  OneItemPerContract'
  BY <1>4 DEF GoOffline
<1>5. ASSUME NEW p \in Consumers, Erase(p)
      PROVE  OneItemPerContract'
  BY <1>5 DEF Erase
<1>6. ASSUME NEW p \in Consumers, Settle(p)
      PROVE  OneItemPerContract'
  BY <1>6 DEF Settle, AfterSettling, Leave, LeaveInbox, Book
<1>7. ASSUME NEW p \in Consumers, PushAgain(p) \/ PushFails(p)
      PROVE  OneItemPerContract'
  BY <1>7 DEF PushAgain, PushFails, LeavePush, Leave, LeaveInbox
<1>8. ASSUME NEW p \in Consumers, Remove(p)
      PROVE  OneItemPerContract'
  BY <1>8 DEF Remove
<1>9. ASSUME NEW p \in Consumers, Add(p)
      PROVE  OneItemPerContract'
  BY <1>9 DEF Add, LeavePush, Leave, LeaveInbox, HandIsOwned
<1>10. ASSUME NEW c \in Mine, Take(c) PROVE OneItemPerContract'
  BY <1>10 DEF Take
<1>11. ASSUME NEW p \in Reconcilers, NEW c \in Mine, Reconcile(p, c) PROVE OneItemPerContract'
  BY <1>11 DEF Reconcile, Reconcilers
<1>12. ASSUME NEW c \in Mine, BrokerCloses(c) \/ Notify(c) PROVE OneItemPerContract'
  BY <1>12 DEF BrokerCloses, Notify
<1>13. ASSUME NEW c \in Foreign, PeerPush(c) PROVE OneItemPerContract'
  <2>1. ASSUME NEW i \in queue, i.contract = c
        PROVE  i = [contract |-> c, source |-> "stream"]
    <3>0. i \in Items /\ c \in Contracts
      BY <2>1, <1>13
    <3>1. i \in Items /\ i.source = "stream" /\ c \in Contracts
      BY <3>0, <2>1, <1>13 DEF PeersItems
    <3>2. PICK j \in Items : /\ j = [contract |-> c, source |-> "stream"]
                             /\ j.contract = c /\ j.source = "stream"
      BY <3>1, StreamItem, Zenon
    <3>3. i = j
      BY <2>1, <3>1, <3>2, ItemParts
    <3> QED BY <3>2, <3>3
  <2> QED BY <2>1, <1>13 DEF PeerPush
<1>14. ASSUME NEW c \in Foreign, PeerErase(c) PROVE OneItemPerContract'
  BY <1>14 DEF PeerErase
<1>15. CASE Wipe
  BY <1>15 DEF Wipe
<1>16. CASE Drop \/ Reconnect
  BY <1>16 DEF Drop, Reconnect
<1>17. CASE Restart
  BY <1>17 DEF Restart
<1>18. CASE UNCHANGED queueVars
  BY <1>18 DEF queueVars
<1>19. ASSUME NEW p \in Consumers, RedisFails(p) \/ Cancel(p) PROVE OneItemPerContract'
  BY <1>19 DEF RedisFails, Cancel, SentInVain, Leave, Book, HandIsOwned
<1>20. ASSUME NEW p \in Consumers, ConfirmFails(p) \/ SettleFails(p) PROVE OneItemPerContract'
  BY <1>20 DEF ConfirmFails, SettleFails, Leave, LeaveInbox, Book, HandIsOwned
<1> QED BY <1>1, <1>2, <1>3, <1>4, <1>5, <1>6, <1>7, <1>8, <1>9, <1>10,
           <1>11, <1>12, <1>13, <1>14, <1>15, <1>16, <1>17, <1>18, <1>19, <1>20
        DEF QueueNext, Passage

\* No item of a remembered id is removed by itself.
LEMMA EnqueuedStep ==
  ASSUME QueueInv, [QueueNext]_queueVars
  PROVE  EnqueuedIsQueued'
<1> USE ItemParts, ForeignAssumption, ConsumersAssumption
    DEF QueueInv, QueueTypeOK, EnqueuedIsQueued, passageVars, localVars, linkVars, pastVars,
        Move, ItemsOf, Mine
<1>1. ASSUME NEW p \in Consumers, Consume(p) \/ Read(p)
      PROVE  EnqueuedIsQueued'
  BY <1>1 DEF Consume, Read
<1>2. ASSUME NEW p \in Consumers, FinishReading(p) \/ Unconfirmed(p)
      PROVE  EnqueuedIsQueued'
  BY <1>2 DEF FinishReading, Unconfirmed, Choose, Leave
<1>3. ASSUME NEW p \in Consumers, Confirm(p)
      PROVE  EnqueuedIsQueued'
  BY <1>3 DEF Confirm, Choose
<1>4. ASSUME NEW p \in Consumers, GoOffline(p)
      PROVE  EnqueuedIsQueued'
  BY <1>4 DEF GoOffline
<1>5. ASSUME NEW p \in Consumers, Erase(p)
      PROVE  EnqueuedIsQueued'
  BY <1>5 DEF Erase, HandIsOwned, OneItemPerContract
<1>6. ASSUME NEW p \in Consumers, Settle(p)
      PROVE  EnqueuedIsQueued'
  BY <1>6 DEF Settle, AfterSettling, Leave, LeaveInbox, Book
<1>7. ASSUME NEW p \in Consumers, PushAgain(p) \/ PushFails(p)
      PROVE  EnqueuedIsQueued'
  BY <1>7 DEF PushAgain, PushFails, LeavePush, Leave, LeaveInbox
<1>8. ASSUME NEW p \in Consumers, Remove(p)
      PROVE  EnqueuedIsQueued'
  BY <1>8 DEF Remove, HandIsOwned
<1>9. ASSUME NEW p \in Consumers, Add(p)
      PROVE  EnqueuedIsQueued'
  BY <1>9 DEF Add, LeavePush, Leave, LeaveInbox, HandIsOwned
<1>10. ASSUME NEW c \in Mine, Take(c) PROVE EnqueuedIsQueued'
  BY <1>10 DEF Take
<1>11. ASSUME NEW p \in Reconcilers, NEW c \in Mine, Reconcile(p, c) PROVE EnqueuedIsQueued'
  BY <1>11 DEF Reconcile, Reconcilers
<1>12. ASSUME NEW c \in Mine, BrokerCloses(c) \/ Notify(c) PROVE EnqueuedIsQueued'
  BY <1>12 DEF BrokerCloses, Notify
<1>13. ASSUME NEW c \in Foreign, PeerPush(c) PROVE EnqueuedIsQueued'
  BY <1>13 DEF PeerPush
<1>14. ASSUME NEW c \in Foreign, PeerErase(c) PROVE EnqueuedIsQueued'
  BY <1>14 DEF PeerErase
<1>15. CASE Wipe
  BY <1>15 DEF Wipe
<1>16. CASE Drop \/ Reconnect
  BY <1>16 DEF Drop, Reconnect
<1>17. CASE Restart
  BY <1>17 DEF Restart
<1>18. CASE UNCHANGED queueVars
  BY <1>18 DEF queueVars
<1>19. ASSUME NEW p \in Consumers, RedisFails(p) \/ Cancel(p) PROVE EnqueuedIsQueued'
  BY <1>19 DEF RedisFails, Cancel, SentInVain, Leave, Book, HandIsOwned
<1>20. ASSUME NEW p \in Consumers, ConfirmFails(p) \/ SettleFails(p) PROVE EnqueuedIsQueued'
  BY <1>20 DEF ConfirmFails, SettleFails, Leave, LeaveInbox, Book, HandIsOwned
<1> QED BY <1>1, <1>2, <1>3, <1>4, <1>5, <1>6, <1>7, <1>8, <1>9, <1>10,
           <1>11, <1>12, <1>13, <1>14, <1>15, <1>16, <1>17, <1>18, <1>19, <1>20
        DEF QueueNext, Passage

\* What is taken out of the queue is booked.
LEMMA NotLostStep ==
  ASSUME QueueInv, [QueueNext]_queueVars
  PROVE  NoSettlementLost'
<1> USE ItemParts, ForeignAssumption, ConsumersAssumption
    DEF QueueInv, QueueTypeOK, NoSettlementLost, passageVars, localVars, linkVars, pastVars,
        Move, ItemsOf, Mine
<1>1. ASSUME NEW p \in Consumers, Consume(p) \/ Read(p)
      PROVE  NoSettlementLost'
  BY <1>1 DEF Consume, Read
<1>2. ASSUME NEW p \in Consumers, FinishReading(p) \/ Unconfirmed(p)
      PROVE  NoSettlementLost'
  BY <1>2 DEF FinishReading, Unconfirmed, Choose, Leave
<1>3. ASSUME NEW p \in Consumers, Confirm(p)
      PROVE  NoSettlementLost'
  BY <1>3 DEF Confirm, Choose
<1>4. ASSUME NEW p \in Consumers, GoOffline(p)
      PROVE  NoSettlementLost'
  BY <1>4 DEF GoOffline
<1>5. ASSUME NEW p \in Consumers, Erase(p)
      PROVE  NoSettlementLost'
  BY <1>5 DEF Erase, HandIsOwned
<1>6. ASSUME NEW p \in Consumers, Settle(p)
      PROVE  NoSettlementLost'
  BY <1>6 DEF Settle, AfterSettling, Leave, LeaveInbox, Book, HandIsOwned
<1>7. ASSUME NEW p \in Consumers, PushAgain(p) \/ PushFails(p)
      PROVE  NoSettlementLost'
  BY <1>7 DEF PushAgain, PushFails, LeavePush, Leave, LeaveInbox
<1>8. ASSUME NEW p \in Consumers, Remove(p)
      PROVE  NoSettlementLost'
  BY <1>8 DEF Remove, HandIsOwned
<1>9. ASSUME NEW p \in Consumers, Add(p)
      PROVE  NoSettlementLost'
  BY <1>9 DEF Add, LeavePush, Leave, LeaveInbox, HandIsOwned
<1>10. ASSUME NEW c \in Mine, Take(c) PROVE NoSettlementLost'
  BY <1>10 DEF Take
<1>11. ASSUME NEW p \in Reconcilers, NEW c \in Mine, Reconcile(p, c) PROVE NoSettlementLost'
  BY <1>11 DEF Reconcile, Reconcilers
<1>12. ASSUME NEW c \in Mine, BrokerCloses(c) \/ Notify(c) PROVE NoSettlementLost'
  BY <1>12 DEF BrokerCloses, Notify
<1>13. ASSUME NEW c \in Foreign, PeerPush(c) PROVE NoSettlementLost'
  BY <1>13 DEF PeerPush
<1>14. ASSUME NEW c \in Foreign, PeerErase(c) PROVE NoSettlementLost'
  BY <1>14 DEF PeerErase
<1>15. CASE Wipe
  BY <1>15 DEF Wipe
<1>16. CASE Drop \/ Reconnect
  BY <1>16 DEF Drop, Reconnect
<1>17. CASE Restart
  BY <1>17 DEF Restart
<1>18. CASE UNCHANGED queueVars
  BY <1>18 DEF queueVars
<1>19. ASSUME NEW p \in Consumers, RedisFails(p) \/ Cancel(p) PROVE NoSettlementLost'
  BY <1>19 DEF RedisFails, Cancel, SentInVain, Leave, Book, HandIsOwned
<1>20. ASSUME NEW p \in Consumers, ConfirmFails(p) \/ SettleFails(p) PROVE NoSettlementLost'
  BY <1>20 DEF ConfirmFails, SettleFails, Leave, LeaveInbox, Book, HandIsOwned
<1> QED BY <1>1, <1>2, <1>3, <1>4, <1>5, <1>6, <1>7, <1>8, <1>9, <1>10,
           <1>11, <1>12, <1>13, <1>14, <1>15, <1>16, <1>17, <1>18, <1>19, <1>20
        DEF QueueNext, Passage

(***************************************************************************)
(* Theorems                                                                *)
(***************************************************************************)

LEMMA QueueInvariance == QueueSpec => []QueueInv
<1>1. QueueInv /\ [QueueNext]_queueVars => QueueInv'
  <2> SUFFICES ASSUME QueueInv, [QueueNext]_queueVars PROVE QueueInv'
    OBVIOUS
  <2>1. QueueTypeOK' /\ LockOwned' /\ HandIsOwned' /\ PeersItems'
    BY QueueTypeStep, LockStep, HandStep, PeersStep
  <2>2. OneItemPerContract' /\ EnqueuedIsQueued' /\ NoSettlementLost'
    BY OneItemStep, EnqueuedStep, NotLostStep
  <2> QED BY <2>1, <2>2 DEF QueueInv
<1> QED BY <1>1, QueueInitInv, PTL DEF QueueSpec

\* Type correctness of the queue, its lock and its consumers
\* (settlement_queue_ops.py).
THEOREM QueueTypeCorrect == QueueSpec => []QueueTypeOK
<1>1. QueueInv => QueueTypeOK
  BY DEF QueueInv
<1> QED BY <1>1, QueueInvariance, PTL

\* For any contracts and engines, a contract never has two items, whichever
\* answer of Redis was lost.
THEOREM OneItemAlways == QueueSpec => []OneItemPerContract
<1>1. QueueInv => OneItemPerContract
  BY DEF QueueInv
<1> QED BY <1>1, QueueInvariance, PTL

\* An id that is remembered, so that every later push is refused, has an item in
\* the queue or is booked, short of a deletion of the key, although the answer to
\* a removal may be lost and a consumer cancelled.
THEOREM EnqueuedAlwaysQueued == QueueSpec => []EnqueuedIsQueued
<1>1. QueueInv => EnqueuedIsQueued
  BY DEF QueueInv
<1> QED BY <1>1, QueueInvariance, PTL

\* No settlement leaves the queue unbooked, through any number of drops and
\* restarts, short of a deletion of the key or a replacement cut short.
THEOREM NothingLost == QueueSpec => []NoSettlementLost
<1>1. QueueInv => NoSettlementLost
  BY DEF QueueInv
<1> QED BY <1>1, QueueInvariance, PTL

\* No task of the engine removes an item of another engine by itself.
THEOREM PeersItemsAlwaysStay == QueueSpec => PeersItemsStay
<1> DEFINE Stays == \A i \in queue \ queue' :
                      i.contract \in Foreign => Wipe \/ PeerErase(i.contract)
<1>1. QueueInv /\ [QueueNext]_queueVars => Stays
  <2> SUFFICES ASSUME QueueInv, [QueueNext]_queueVars,
                      NEW i \in queue \ queue', i.contract \in Foreign
               PROVE  Wipe \/ PeerErase(i.contract)
    OBVIOUS
  <2> USE DEF QueueInv, QueueTypeOK, Mine
  <2>1. ASSUME NEW p \in Consumers, Erase(p) PROVE FALSE
    BY <2>1 DEF Erase, HandIsOwned
  <2>2. ASSUME NEW p \in Consumers, Remove(p) PROVE FALSE
    BY <2>2 DEF Remove, HandIsOwned, ItemsOf
  <2>10. ASSUME NEW p \in Consumers, RedisFails(p) \/ Cancel(p) PROVE FALSE
    BY <2>10 DEF RedisFails, Cancel, SentInVain, HandIsOwned
  <2>3. ASSUME NEW p \in Consumers, Passage(p) \/ Consume(p), ~Erase(p), ~Remove(p),
               ~RedisFails(p), ~Cancel(p)
        PROVE  FALSE
    BY <2>3 DEF Passage, Consume, Read, Confirm, Choose, Unconfirmed, FinishReading,
                Settle, ConfirmFails, SettleFails, GoOffline, PushAgain, Add, PushFails
  <2>4. ASSUME NEW c \in Foreign, PeerErase(c) PROVE PeerErase(i.contract)
    <3>1. c = i.contract
      BY <2>4 DEF PeerErase, ItemsOf
    <3> QED BY <2>4, <3>1
  <2>5. ASSUME NEW c \in Foreign, PeerPush(c) PROVE FALSE
    BY <2>5 DEF PeerPush
  <2>6. ASSUME NEW c \in Mine, Take(c) \/ BrokerCloses(c) \/ Notify(c) PROVE FALSE
    BY <2>6 DEF Take, BrokerCloses, Notify
  <2>7. ASSUME NEW p \in Reconcilers, NEW c \in Mine, Reconcile(p, c) PROVE FALSE
    BY <2>7 DEF Reconcile, Reconcilers
  <2>8. CASE Wipe
    BY <2>8 DEF Wipe
  <2>9. CASE Drop \/ Reconnect \/ Restart \/ UNCHANGED queueVars
    BY <2>9 DEF Drop, Reconnect, Restart, queueVars
  <2> QED BY <2>1, <2>2, <2>3, <2>4, <2>5, <2>6, <2>7, <2>8, <2>9, <2>10
         DEF QueueNext
<1>2. QueueInv /\ [QueueNext]_queueVars => [Stays]_queueVars
  BY <1>1
<1> QED BY <1>2, QueueInvariance, PTL DEF QueueSpec, PeersItemsStay
=============================================================================
