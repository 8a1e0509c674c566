----------------------------- MODULE RedisQueue -----------------------------
(***************************************************************************)
(* The queue in Redis that keeps settlements while the broker is offline.  *)
(* Five tasks of the engine consume it under one lock that is not          *)
(* reentrant: the settlement worker, which also settles what the stream    *)
(* told it; the main loop, which alone reconnects the WebSocket; and, as   *)
(* every decision cycle consumes the queue before it enters, the callback  *)
(* of a candle and the attempts after a settlement, which are cancelled    *)
(* after 90 s; last, the passive reconciliation.  They confirm each item   *)
(* with the broker and settle it; a settlement that finds the broker       *)
(* offline is pushed.  A clean-up between cycles deletes the key without   *)
(* the lock, and other engines share the key.                              *)
(*                                                                         *)
(* An action is the code between two awaits that other tasks can disturb.  *)
(***************************************************************************)
EXTENDS Naturals, FiniteSets

CONSTANTS
  Contracts,       \* contracts whose settlement may be queued
  Foreign,         \* those of other engines of the same Redis
  NoItem,          \* no item in hand
  Consumers,       \* the tasks considered
  MaxDrops,        \* losses of the broker connection considered
  MaxRestarts,     \* crashes of the engine considered
  DropsWhileConfirming \* it may be lost between an item's answer and its settlement

ASSUME ForeignAssumption == Foreign \subseteq Contracts

ASSUME ConsumersAssumption ==
  /\ {"worker", "main"} \subseteq Consumers
  /\ Consumers \subseteq {"worker", "main", "candle", "post", "passive"}

Mine  == Contracts \ Foreign

\* The tasks that also settle what the broker no longer lists as open.
Reconcilers == Consumers \ {"candle"}

\* Two payloads of one contract differ as members of the sorted set: one came
\* from the stream, the other from a query.
Items == [contract : Contracts, source : {"stream", "query"}]

ASSUME NoItemAssumption == NoItem \notin Items

Stages == {"idle", "locking", "choosing", "settling", "erasing", "pushing", "adding"}

VARIABLES
  up,       \* ws.is_running
  queue,    \* Redis settlement:queue:priority
  enqueued, \* _settlement_redis_enqueued
  lock,     \* who holds _settlement_redis_lock
  inbox,    \* _settlement_queued_ids and the worker's queue
  owned,    \* contracts in the engine's state or risk ledger, or settled by it
  stage,    \* where each task is
  todo,     \* the items a consumer read and has not tried
  item,     \* the item each task settles, pushes or erases
  drops,
  restarts,
  working,  \* the settlement worker lives
  closed,   \* history: contracts the broker settled
  booked,   \* history: contracts this engine booked
  pushed,   \* history: contracts this engine added to the queue
  wiped,    \* history: contracts whose item went with the key and was not added again
  torn      \* history: contracts whose item was removed and not added again

passageVars == <<lock, stage, todo, item>>
localVars == <<enqueued, inbox, owned>>
linkVars  == <<up, drops, restarts, working, closed>>
pastVars  == <<pushed, wiped, torn>>
queueVars == <<passageVars, localVars, linkVars, pastVars, queue, booked>>

QueueTypeOK ==
  /\ up \in BOOLEAN
  /\ queue \subseteq Items
  /\ enqueued \subseteq Mine
  /\ lock \in Consumers \union {"free"}
  /\ inbox \subseteq Mine
  /\ owned \subseteq Mine
  /\ stage \in [Consumers -> Stages]
  /\ todo \in [Consumers -> SUBSET Items]
  /\ item \in [Consumers -> Items \union {NoItem}]
  /\ drops \in Nat /\ restarts \in Nat /\ working \in BOOLEAN
  /\ closed \subseteq Mine /\ booked \subseteq Mine
  /\ pushed \subseteq Mine /\ torn \subseteq Mine
  /\ wiped \subseteq Contracts

QueueInit ==
  /\ up = TRUE
  /\ queue = {} /\ enqueued = {} /\ inbox = {}
  /\ owned = Mine
  /\ lock = "free"
  /\ stage = [p \in Consumers |-> "idle"]
  /\ todo = [p \in Consumers |-> {}]
  /\ item = [p \in Consumers |-> NoItem]
  /\ drops = 0 /\ restarts = 0 /\ working = TRUE
  /\ closed = {} /\ booked = {}
  /\ pushed = {} /\ wiped = {} /\ torn = {}

ItemsOf(c) == {i \in queue : i.contract = c}

-----------------------------------------------------------------------------
(* Consuming *)

Move(p, next) == stage' = [stage EXCEPT ![p] = next]

\* Bug: the lock is kept.
LeaveLocked(p) ==
  /\ UNCHANGED lock
  /\ Move(p, "idle")
  /\ todo' = [todo EXCEPT ![p] = {}]
  /\ item' = [item EXCEPT ![p] = NoItem]

\* The lock is released and the task leaves the queue's code.
Leave(p) ==
  /\ lock' = IF lock = p THEN "free" ELSE lock
  /\ Move(p, "idle")
  /\ todo' = [todo EXCEPT ![p] = {}]
  /\ item' = [item EXCEPT ![p] = NoItem]

Lives(p) == p = "worker" => working

\* Each caller comes back at least 2 s after the last one.
Consume(p) ==
  /\ stage[p] = "idle"
  /\ Lives(p)
  /\ up
  /\ Move(p, "locking")
  /\ UNCHANGED <<lock, todo, item, localVars, linkVars, pastVars, queue, booked>>

\* It reads the queue as soon as it has the lock.
Read(p) ==
  /\ stage[p] = "locking"
  /\ lock = "free"
  /\ lock' = p
  /\ Move(p, "choosing")
  /\ todo' = [todo EXCEPT ![p] = queue]
  /\ UNCHANGED <<item, localVars, linkVars, pastVars, queue, booked>>

\* What was sent may have been executed although its answer never came: the
\* item is then gone and its id still remembered.
SentInVain(p) ==
  \/ UNCHANGED queue
  \/ stage[p] = "erasing" /\ queue' = queue \ {item[p]}

\* Any exception of Redis ends the passage.
RedisFails(p) ==
  /\ \/ stage[p] = "locking" /\ lock = "free"
     \/ stage[p] = "erasing"
  /\ Leave(p)
  /\ SentInVain(p)
  /\ UNCHANGED <<localVars, linkVars, pastVars, booked>>

\* The next item, in any order.
Choose(p, i) ==
  /\ stage[p] = "choosing"
  /\ i \in todo[p]
  /\ todo' = [todo EXCEPT ![p] = @ \ {i}]

\* Bug: the items of other engines are confirmed too.
ConfirmAny(p) ==
  \E i \in todo[p] :
    /\ Choose(p, i)
    /\ up /\ i.contract \in closed \union Foreign
    /\ item' = [item EXCEPT ![p] = i]
    /\ Move(p, IF i.contract \in booked THEN "erasing" ELSE "settling")
    /\ UNCHANGED <<lock, localVars, linkVars, pastVars, queue, booked>>

\* The broker answers that a contract of this engine is settled.  One already
\* booked is settled a second time as a late one, which changes nothing.
Confirm(p) ==
  \E i \in todo[p] :
    /\ Choose(p, i)
    /\ up /\ i.contract \in owned \intersect closed
    /\ item' = [item EXCEPT ![p] = i]
    /\ Move(p, IF i.contract \in booked THEN "erasing" ELSE "settling")
    /\ UNCHANGED <<lock, localVars, linkVars, pastVars, queue, booked>>

\* Bug: what could not be confirmed is erased as well.
UnconfirmedErased(p) ==
  \E i \in todo[p] :
    /\ Choose(p, i)
    /\ i.contract \in owned
    /\ item' = [item EXCEPT ![p] = i]
    /\ Move(p, "erasing")
    /\ UNCHANGED <<lock, localVars, linkVars, pastVars, queue, booked>>

\* A timeout, an error, a contract still open: the item stays queued.
Unconfirmed(p) ==
  \E i \in todo[p] :
    /\ Choose(p, i)
    /\ i.contract \in owned
    /\ UNCHANGED <<stage, lock, item, localVars, linkVars, pastVars, queue, booked>>

\* The items of others are passed over; after the last one the lock is freed.
FinishReading(p) ==
  /\ stage[p] = "choosing"
  /\ \A i \in todo[p] : i.contract \notin owned
  /\ Leave(p)
  /\ UNCHANGED <<localVars, linkVars, pastVars, queue, booked>>

Erase(p) ==
  /\ stage[p] = "erasing"
  /\ queue' = queue \ {item[p]}
  /\ enqueued' = enqueued \ {item[p].contract}
  /\ item' = [item EXCEPT ![p] = NoItem]
  /\ Move(p, "choosing")
  /\ UNCHANGED <<lock, todo, inbox, owned, linkVars, pastVars, booked>>

-----------------------------------------------------------------------------
(* Settling and pushing *)

\* The worker takes what the stream brought.
Take(c) ==
  /\ working
  /\ stage["worker"] = "idle"
  /\ c \in inbox
  /\ item' = [item EXCEPT !["worker"] = [contract |-> c, source |-> "stream"]]
  /\ Move("worker", "settling")
  /\ UNCHANGED <<lock, todo, localVars, linkVars, pastVars, queue, booked>>

\* The orphan cleaner of the worker, of the attempts and of the passive
\* reconciliation, and the main loop's reconciliations, settle what the broker
\* no longer lists as open.
Reconcile(p, c) ==
  /\ stage[p] = "idle"
  /\ Lives(p)
  /\ up
  /\ c \in owned \intersect closed
  /\ c \notin booked
  /\ item' = [item EXCEPT ![p] = [contract |-> c, source |-> "query"]]
  /\ Move(p, "settling")
  /\ UNCHANGED <<lock, todo, localVars, linkVars, pastVars, queue, booked>>

\* The worker is done with what it took from the stream.
TookFromStream(p) == p = "worker" /\ item[p].source = "stream"

LeaveInbox(p) ==
  inbox' = IF TookFromStream(p) THEN inbox \ {item[p].contract} ELSE inbox

\* What follows a settlement: a consumer erases the item, any other caller is
\* done with it.
AfterSettling(p) ==
  IF lock = p
  THEN /\ Move(p, "erasing")
       /\ UNCHANGED <<lock, todo, item, inbox>>
  ELSE /\ Leave(p)
       /\ LeaveInbox(p)

Book(p) == booked' = booked \union ({item[p].contract} \intersect owned)

Settle(p) ==
  /\ stage[p] = "settling"
  /\ up
  /\ Book(p)
  /\ AfterSettling(p)
  /\ UNCHANGED <<enqueued, owned, linkVars, pastVars, queue>>

\* An exception while an item is settled, before or after it is booked, is
\* caught: the item stays queued.
ConfirmFails(p) ==
  /\ stage[p] = "settling"
  /\ up
  /\ lock = p
  /\ Book(p) \/ UNCHANGED booked
  /\ item' = [item EXCEPT ![p] = NoItem]
  /\ Move(p, "choosing")
  /\ UNCHANGED <<lock, todo, localVars, linkVars, pastVars, queue>>

\* A reconciliation catches it too; in the worker's own loop it ends the worker
\* for as long as the engine runs.
SettleFails(p) ==
  /\ stage[p] = "settling"
  /\ up
  /\ lock # p
  /\ Book(p) \/ UNCHANGED booked
  /\ Leave(p)
  /\ LeaveInbox(p)
  /\ working' = (working /\ ~TookFromStream(p))
  /\ UNCHANGED <<enqueued, owned, up, drops, restarts, closed, pastVars, queue>>

\* The attempt after a settlement times out while it waits for the lock or
\* consumes the queue.
Cancel(p) ==
  /\ p = "post"
  /\ \/ stage[p] = "locking"
     \/ lock = p /\ stage[p] # "adding"
  /\ Leave(p)
  /\ SentInVain(p)
  /\ \/ stage[p] = "settling" /\ up /\ Book(p)
     \/ UNCHANGED booked
  /\ UNCHANGED <<localVars, linkVars, pastVars>>

\* The broker is offline: the settlement will be pushed.
GoOffline(p) ==
  /\ stage[p] = "settling"
  /\ ~up
  /\ Move(p, "pushing")
  /\ UNCHANGED <<lock, todo, item, localVars, linkVars, pastVars, queue, booked>>

\* The end of a push that is not a consumer's, with or without an error.
LeavePush(p) ==
  /\ Leave(p)
  /\ LeaveInbox(p)

\* The push waits for the lock, and so for ever if its own task holds it.
PushAgain(p) ==
  /\ stage[p] = "pushing"
  /\ lock = "free"
  /\ item[p].contract \in enqueued
  /\ LeavePush(p)
  /\ UNCHANGED <<enqueued, owned, linkVars, pastVars, queue, booked>>

\* Bug: the contract's earlier item stays.
RemoveNothing(p) ==
  /\ stage[p] = "pushing"
  /\ lock = "free"
  /\ item[p].contract \notin enqueued
  /\ lock' = p
  /\ Move(p, "adding")
  /\ UNCHANGED <<todo, item, localVars, linkVars, pastVars, queue, booked>>

\* ZREMRANGEBYSCORE of the contract.
Remove(p) ==
  LET c == item[p].contract IN
  /\ stage[p] = "pushing"
  /\ lock = "free"
  /\ c \notin enqueued
  /\ lock' = p
  /\ queue' = queue \ ItemsOf(c)
  /\ torn' = IF ItemsOf(c) = {} THEN torn ELSE torn \union {c}
  /\ Move(p, "adding")
  /\ UNCHANGED <<todo, item, localVars, linkVars, pushed, wiped, booked>>

\* ZADD.  Its answer may be lost after the item was added: the id is not
\* remembered, and a later push replaces the item.
Add(p) ==
  LET c == item[p].contract IN
  /\ stage[p] = "adding"
  /\ queue' = queue \union {item[p]}
  /\ pushed' = pushed \union {c}
  /\ wiped' = wiped \ {c}
  /\ torn' = torn \ {c}
  /\ \/ enqueued' = enqueued \union {c}
     \/ UNCHANGED enqueued
  /\ LeavePush(p)
  /\ UNCHANGED <<owned, linkVars, booked>>

\* Bug: the id is remembered although the item was not added.
PushFailsEnqueued(p) ==
  /\ \/ stage[p] = "pushing" /\ lock = "free"
     \/ stage[p] = "adding"
  /\ enqueued' = enqueued \union {item[p].contract}
  /\ LeavePush(p)
  /\ UNCHANGED <<owned, linkVars, pastVars, queue, booked>>

\* Redis fails before the item is removed, or after that and before it is
\* added: the payload is dropped with a warning.
PushFails(p) ==
  /\ \/ stage[p] = "pushing" /\ lock = "free"
     \/ stage[p] = "adding"
  /\ LeavePush(p)
  /\ UNCHANGED <<enqueued, owned, linkVars, pastVars, queue, booked>>

-----------------------------------------------------------------------------
(* The surroundings *)

\* _clean_stale_settlement_and_redis_counters of this engine or of another:
\* the key is deleted whoever holds the lock, and no set of ids is told.
Wipe ==
  /\ queue # {}
  /\ queue' = {}
  /\ wiped' = wiped \union {i.contract : i \in queue}
  /\ UNCHANGED <<passageVars, localVars, linkVars, pushed, torn, booked>>

PeerPush(c) ==
  /\ queue' = queue \union {[contract |-> c, source |-> "stream"]}
  /\ UNCHANGED <<passageVars, localVars, linkVars, pastVars, booked>>

PeerErase(c) ==
  /\ ItemsOf(c) # {}
  /\ queue' = queue \ ItemsOf(c)
  /\ UNCHANGED <<passageVars, localVars, linkVars, pastVars, booked>>

BrokerCloses(c) ==
  /\ closed' = closed \union {c}
  /\ UNCHANGED <<passageVars, localVars, up, drops, restarts, working, pastVars, queue, booked>>

\* The stream's message of a settled contract.
Notify(c) ==
  /\ up
  /\ c \in closed
  /\ c \in owned \ (booked \union inbox)
  /\ inbox' = inbox \union {c}
  /\ UNCHANGED <<passageVars, enqueued, owned, linkVars, pastVars, queue, booked>>

Drop ==
  /\ up
  /\ drops < MaxDrops
  /\ \/ DropsWhileConfirming
     \/ \A p \in Consumers : ~(lock = p /\ stage[p] = "settling")
  /\ up' = FALSE
  /\ drops' = drops + 1
  /\ UNCHANGED <<passageVars, localVars, restarts, working, closed, pastVars, queue, booked>>

\* Only the main loop reconnects, between two passages.
Reconnect ==
  /\ ~up
  /\ stage["main"] = "idle"
  /\ up' = TRUE
  /\ UNCHANGED <<passageVars, localVars, drops, restarts, working, closed, pastVars, queue, booked>>

\* The contracts the engine held are not restored: their items are nobody's.
Restart ==
  /\ restarts < MaxRestarts
  /\ restarts' = restarts + 1
  /\ up' = TRUE /\ working' = TRUE
  /\ enqueued' = {} /\ inbox' = {} /\ owned' = {}
  /\ lock' = "free"
  /\ stage' = [p \in Consumers |-> "idle"]
  /\ todo' = [p \in Consumers |-> {}]
  /\ item' = [p \in Consumers |-> NoItem]
  /\ UNCHANGED <<drops, closed, pastVars, queue, booked>>

-----------------------------------------------------------------------------
Passage(p) ==
  \/ Read(p) \/ RedisFails(p)
  \/ Confirm(p) \/ Unconfirmed(p) \/ FinishReading(p) \/ Erase(p)
  \/ Settle(p) \/ ConfirmFails(p) \/ SettleFails(p) \/ Cancel(p) \/ GoOffline(p)
  \/ PushAgain(p) \/ Remove(p) \/ Add(p) \/ PushFails(p)

QueueNext ==
  \/ \E p \in Consumers : Consume(p) \/ Passage(p)
  \/ \E c \in Mine : Take(c) \/ BrokerCloses(c) \/ Notify(c)
  \/ \E p \in Reconcilers, c \in Mine : Reconcile(p, c)
  \/ \E c \in Foreign : PeerPush(c) \/ PeerErase(c)
  \/ Wipe \/ Drop \/ Reconnect \/ Restart

\* A task that can go on does: Redis and the broker answer or time out.  The
\* main loop comes to its reconciliation and its reconnection however often the
\* queue keeps it busy, and what it settles again and again does not fail for
\* ever.  Nothing is asked of the worker's orphan cleaner: the worker may be dead.
QueueFairness ==
  /\ \A p \in Consumers : SF_queueVars(Passage(p))
  /\ \A c \in Mine : SF_queueVars(Reconcile("main", c))
  /\ SF_queueVars(Settle("main"))
  /\ SF_queueVars(Reconnect)

QueueSpec == QueueInit /\ [][QueueNext]_queueVars /\ QueueFairness

-----------------------------------------------------------------------------
(* Properties *)

\* A contract has at most one item, whatever was lost between a push and its
\* answer: the consumer would otherwise confirm it twice (push_to_redis_priority_queue).
OneItemPerContract ==
  \A i, j \in queue : i.contract = j.contract => i = j

\* A settlement this engine put in the queue stays there until it is booked,
\* unless the key was deleted or the replacement of its item was cut short.
NoSettlementLost ==
  \A c \in pushed \ (wiped \union torn) : ItemsOf(c) # {} \/ c \in booked

\* An id remembered as queued, for which every later push is refused, has its
\* item in the queue, or needs none since its contract is booked: the answer to
\* the removal of the item was then lost, or its consumer cancelled.  Only the
\* deletion of the key leaves an id that refuses what should be pushed.
EnqueuedIsQueued ==
  \A c \in enqueued \ wiped : ItemsOf(c) # {} \/ c \in booked

\* The engine never takes another engine's item out of the queue, short of
\* deleting the key: its owner would never settle it (_confirm_queued_item).
PeersItemsStay ==
  [][\A i \in queue \ queue' :
       i.contract \in Foreign => Wipe \/ PeerErase(i.contract)]_queueVars

\* A settled contract the engine still owns is booked in the end, however the
\* connection drops and the queue loses items or refuses them, and although the
\* worker may have died of an exception (_settlement_worker_loop).
SettlementsAreBooked ==
  \A c \in Mine : c \in owned \intersect closed ~> c \in booked \/ c \notin owned

\* The main loop reconnects after every drop.
Reconnects == ~up ~> up
=============================================================================
