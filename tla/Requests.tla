------------------------------ MODULE Requests ------------------------------
(***************************************************************************)
(* Requests over the WebSocket: each has a number and a callback, a future *)
(* the listener completes when the answer of that number comes, and a time *)
(* limit.  The ping is one of them; when it fails the connection is closed.*)
(***************************************************************************)
EXTENDS Naturals

CONSTANTS
  MaxRequests, \* requests sent
  MaxLosses    \* losses of the connection

ASSUME MaxRequestsAssumption == MaxRequests \in Nat /\ MaxLosses \in Nat

RequestIds == 1 .. MaxRequests

VARIABLES
  counter,    \* req_id_counter
  callbacks,  \* the keys of callbacks
  waiting,    \* requests whose caller waits
  travelling, \* requests the broker has yet to answer on this connection
  ping,       \* the ping under way, 0 if none
  linked,     \* is_running
  losses,
  missed,     \* history: answers that came while their caller waited, in vain
  robbed      \* history: requests whose callback another request removed

requestVars == <<counter, callbacks, waiting, travelling, ping, linked, losses,
                 missed, robbed>>

RequestTypeOK ==
  /\ counter \in 0 .. MaxRequests
  /\ callbacks \subseteq 1 .. counter /\ waiting \subseteq 1 .. counter
  /\ travelling \subseteq 1 .. counter /\ ping \in 0 .. counter
  /\ linked \in BOOLEAN /\ losses \in 0 .. MaxLosses
  /\ missed \subseteq 1 .. counter /\ robbed \subseteq 1 .. counter

RequestInit ==
  /\ counter = 0
  /\ callbacks = {} /\ waiting = {} /\ travelling = {}
  /\ ping = 0
  /\ linked = TRUE /\ losses = 0
  /\ missed = {} /\ robbed = {}

NextId == counter + 1

\* Bug: the callback is registered after the message was sent.
RegisterLate == callbacks

RegisterCallback == callbacks \union {NextId}

Send ==
  /\ linked /\ counter < MaxRequests
  /\ counter' = NextId
  /\ callbacks' = RegisterCallback
  /\ waiting' = waiting \union {NextId}
  /\ travelling' = travelling \union {NextId}
  /\ \/ ping = 0 /\ ping' = NextId
     \/ UNCHANGED ping
  /\ UNCHANGED <<linked, losses, missed, robbed>>

CloseConnection == linked' = FALSE /\ travelling' = {}

\* The socket refuses the message: the caller fails and its callback stays.
SendFails ==
  /\ linked /\ counter < MaxRequests
  /\ counter' = NextId
  /\ callbacks' = RegisterCallback
  /\ \/ ping = 0 /\ CloseConnection
     \/ UNCHANGED <<linked, travelling>>
  /\ UNCHANGED <<waiting, ping, losses, missed, robbed>>

\* The listener gets the answer.
Answer(n) ==
  /\ linked /\ n \in travelling
  /\ travelling' = travelling \ {n}
  /\ callbacks' = callbacks \ {n}
  /\ IF n \in callbacks
     THEN waiting' = waiting \ {n} /\ UNCHANGED missed
     ELSE missed' = missed \union (waiting \intersect {n}) /\ UNCHANGED waiting
  /\ ping' = IF n = ping /\ n \in callbacks THEN 0 ELSE ping
  /\ UNCHANGED <<counter, linked, losses, robbed>>

\* What a time-out removes is the callback of the latest request.
TimeOut(n) ==
  /\ n \in waiting
  /\ waiting' = waiting \ {n}
  /\ callbacks' = callbacks \ {counter}
  /\ robbed' = IF n # counter /\ counter \in callbacks
               THEN robbed \union {counter} ELSE robbed
  /\ IF n = ping
     THEN ping' = 0 /\ CloseConnection
     ELSE UNCHANGED <<ping, linked, travelling>>
  /\ UNCHANGED <<counter, losses, missed>>

\* The answers of this connection are lost; nobody tells the callers.
Unlink ==
  /\ linked /\ losses < MaxLosses
  /\ losses' = losses + 1
  /\ CloseConnection
  /\ UNCHANGED <<counter, callbacks, waiting, ping, missed, robbed>>

Relink ==
  /\ ~linked
  /\ linked' = TRUE
  /\ UNCHANGED <<counter, callbacks, waiting, travelling, ping, losses, missed, robbed>>

RequestNext ==
  \/ Send \/ SendFails \/ Unlink \/ Relink
  \/ \E n \in RequestIds : Answer(n) \/ TimeOut(n)

RequestSpec == RequestInit /\ [][RequestNext]_requestVars

-----------------------------------------------------------------------------
(* Properties *)

\* An answer that comes while its caller waits reaches it, unless the time-out
\* of an older request removed its callback (WebSocketManager.send): of a
\* purchase the outcome would be unknown, and of the ping a healthy connection
\* closed.
AnswersAreDelivered == missed \subseteq robbed
=============================================================================
