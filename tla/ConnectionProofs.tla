-------------------------- MODULE ConnectionProofs --------------------------
(***************************************************************************)
(* Proofs about the WebSocket connection: how its socket comes and goes    *)
(* (MarketStream), for any number of sockets and faults, and the requests  *)
(* over it (Requests), for any number of requests and losses.              *)
(*                                                                         *)
(* That no socket is forgotten is not inductive: Close cancels the         *)
(* listener it finds in _listen_task, which must then be that of the       *)
(* socket it closes, and Opened clears a flag that the other task must not *)
(* need.  Nor is it inductive that an answer reaches its caller: a caller  *)
(* must have had its callback, or been robbed of it, already before the    *)
(* answer comes.                                                           *)
(***************************************************************************)
EXTENDS MarketStream, Requests, TLAPS

-----------------------------------------------------------------------------
(* MarketStream *)

\* While there is a socket, the last listener started is its own.
ListenerIsCurrent == ws # None => listenTask = ws

\* At most one task is opening a connection.
OneConnects ==
  \A j, k \in Tasks : at[j] = "opening" /\ at[k] = "opening" => j = k

StreamInv ==
  /\ TypeOK /\ ListenerIsCurrent /\ OneConnects
  /\ SingleFlight /\ CurrentIsHeard /\ NoSocketForgotten

(***************************************************************************)
(* Helpers                                                                 *)
(***************************************************************************)

Steps == {"idle", "preparing", "closing", "fetching", "opening",
          "connected", "subscribing", "pausing"}

\* The two tasks differ.
LEMMA TasksDistinct ==
  MainLoop \in Tasks /\ Watchdog \in Tasks /\ MainLoop # Watchdog
BY MarketStreamAssumption DEF Tasks

\* A step of k that neither begins nor ends a close leaves closing well typed.
LEMMA GotoType ==
  ASSUME TypeOK, NEW k \in Tasks, NEW next \in Steps \ {"closing"},
         at[k] # "closing", Goto(k, next), UNCHANGED closing
  PROVE  /\ at' \in [Tasks -> Steps]
         /\ \A j \in Tasks : closing'[j] # None <=> at'[j] = "closing"
         /\ at'[k] = next
         /\ \A j \in Tasks \ {k} : at'[j] = at[j]
BY DEF TypeOK, Goto, Steps

\* Giving up ends in a step that neither closes nor opens a connection.
LEMMA GiveUpGoes ==
  ASSUME TypeOK, NEW k \in Tasks, GiveUp(k)
  PROVE  /\ \E next \in {"idle", "preparing"} : Goto(k, next)
         /\ attempt' \in {"otp", "public", "retry"}
BY DEF TypeOK, GiveUp, Stop

\* A failed start of the streams ends or pauses before its second attempt.
LEMMA TryAgainGoes ==
  ASSUME TypeOK, TryAgain
  PROVE  /\ \E next \in {"idle", "pausing"} : Goto(MainLoop, next)
         /\ attempt' \in {"otp", "public", "retry"}
BY DEF TypeOK, TryAgain, Stop

\* A task that stops is idle.
LEMMA StopGoes ==
  ASSUME TypeOK, NEW k \in Tasks, Stop(k)
  PROVE  Goto(k, "idle") /\ attempt' \in {"otp", "public", "retry"}
BY DEF TypeOK, Stop

\* Each fault that is used up was still allowed.
LEMMA FaultType ==
  ASSUME TypeOK, Fault
  PROVE  faults' \in 0 .. MaxFaults
BY MarketStreamAssumption DEF TypeOK, Fault

\* A socket chosen for a new connection is nobody else's.
LEMMA ChosenIsUnused ==
  ASSUME Unused # {}
  PROVE  (CHOOSE u \in Unused : TRUE) \in Unused
OBVIOUS

(***************************************************************************)
(* Steps of a task that only moves it on                                   *)
(***************************************************************************)

\* Such a step: the task goes from one place to another, and the sockets and
\* what the manager knows of them stay as they are.
Moves(k, from, to) ==
  /\ at[k] \in from /\ \E next \in to : Goto(k, next)
  /\ UNCHANGED <<closing, ws, listenTask, live, listening, broken, isRunning>>

\* A task that moves on disturbs nothing else.
LEMMA MovesKeeps ==
  ASSUME StreamInv, NEW k \in Tasks,
         Moves(k, Steps \ {"closing", "opening"},
               Steps \ {"closing", "opening"}),
         UNCHANGED connecting,
         subscribed' \subseteq Sockets, synchronized' \in BOOLEAN,
         stale' \in BOOLEAN, attempt' \in {"otp", "public", "retry"},
         faults' \in 0 .. MaxFaults
  PROVE  StreamInv'
<1> USE DEF StreamInv
<1>0. PICK next \in Steps \ {"closing", "opening"} : Goto(k, next)
  BY DEF Moves
<1>1. /\ at' \in [Tasks -> Steps]
      /\ \A j \in Tasks : closing'[j] # None <=> at'[j] = "closing"
      /\ at'[k] = next
      /\ \A j \in Tasks \ {k} : at'[j] = at[j]
  BY <1>0, GotoType DEF Moves
<1>2. TypeOK'
  BY <1>1 DEF TypeOK, Steps, Moves
<1>3. ListenerIsCurrent' /\ CurrentIsHeard' /\ NoSocketForgotten'
  BY DEF ListenerIsCurrent, CurrentIsHeard, NoSocketForgotten, Sendable, Moves
<1>4. SingleFlight' /\ OneConnects'
  BY <1>1 DEF SingleFlight, OneConnects, Moves
<1> QED BY <1>2, <1>3, <1>4

\* A step that leaves the tasks where they are, and adds neither a socket nor
\* a report that the connection is up.
LEMMA EnvironmentKeeps ==
  ASSUME StreamInv, UNCHANGED <<at, closing, ws, listenTask, connecting>>,
         attempt' = attempt,
         live' \subseteq live, listening' \subseteq listening,
         \A s \in listening \ listening' : s \notin live',
         broken' \subseteq listening' \ live',
         subscribed' \subseteq Sockets, synchronized' \in BOOLEAN,
         stale' \in BOOLEAN, faults' \in 0 .. MaxFaults,
         isRunning' \in BOOLEAN, isRunning' => isRunning
  PROVE  StreamInv'
<1> USE DEF StreamInv
<1>1. TypeOK'
  BY DEF TypeOK
<1>2. ListenerIsCurrent' /\ SingleFlight' /\ OneConnects'
  BY DEF ListenerIsCurrent, SingleFlight, OneConnects
<1>3. CurrentIsHeard'
  BY DEF CurrentIsHeard, Sendable
<1>4. NoSocketForgotten'
  BY DEF NoSocketForgotten
<1> QED BY <1>1, <1>2, <1>3, <1>4

\* Ticks, lost connections, pings and pollers.
LEMMA EnvironmentSteps ==
  ASSUME StreamInv,
         \/ Tick \/ GoStale \/ PingFails \/ MarkOffline
         \/ \E s \in Sockets : Lose(s) \/ ListenEnds(s)
  PROVE  StreamInv'
<1> USE DEF StreamInv, connVars, socketVars, streamVars, taskVars
<1>1. CASE Tick \/ GoStale
  <2>1. /\ stale' \in BOOLEAN
        /\ UNCHANGED <<at, closing, attempt, ws, isRunning, listenTask,
                       connecting, live, listening, broken, subscribed,
                       synchronized, faults>>
    BY <1>1 DEF Tick, GoStale
  <2> QED BY <2>1, EnvironmentKeeps DEF TypeOK
<1>2. CASE PingFails
  <2>1. faults' \in 0 .. MaxFaults
    BY <1>2, FaultType DEF PingFails, TypeOK
  <2> QED BY <1>2, <2>1, EnvironmentKeeps DEF PingFails, TypeOK
<1>3. CASE MarkOffline
  <2>1. faults' \in 0 .. MaxFaults
    BY <1>3, FaultType DEF MarkOffline, TypeOK
  <2> QED BY <1>3, <2>1, EnvironmentKeeps DEF MarkOffline, TypeOK
<1>4. ASSUME NEW s \in Sockets, Lose(s)
      PROVE  StreamInv'
  <2>1. faults' \in 0 .. MaxFaults
    BY <1>4, FaultType DEF Lose, TypeOK
  <2> QED BY <1>4, <2>1, EnvironmentKeeps DEF Lose, TypeOK
<1>5. ASSUME NEW s \in Sockets, ListenEnds(s)
      PROVE  StreamInv'
  BY <1>5, EnvironmentKeeps DEF ListenEnds, StopListening, TypeOK
<1> QED BY <1>1, <1>2, <1>3, <1>4, <1>5

\* The steps of either task that open and close nothing.
LEMMA TaskMoves ==
  ASSUME StreamInv,
         \/ \E k \in Tasks : FetchFails(k)
         \/ Begin \/ SetupFails \/ StartStreams \/ StreamsStarted \/ SyncFails
         \/ Retry \/ Evaluate \/ Resubscribed \/ ResubscribeFails
  PROVE  StreamInv'
<1> USE TasksDistinct
    DEF StreamInv, Moves, connVars, socketVars, streamVars, Steps
<1>1. ASSUME NEW k \in Tasks, FetchFails(k)
      PROVE  StreamInv'
  BY <1>1, GiveUpGoes, MovesKeeps DEF FetchFails, TypeOK
<1>2. CASE Begin
  BY <1>2, MovesKeeps DEF Begin, TypeOK
<1>3. CASE SetupFails
  BY <1>3, StopGoes, MovesKeeps DEF SetupFails, TypeOK
<1>4. CASE StartStreams
  BY <1>4, TryAgainGoes, MovesKeeps DEF StartStreams, TypeOK
<1>5. CASE StreamsStarted
  BY <1>5, StopGoes, MovesKeeps DEF StreamsStarted, Sendable, TypeOK
<1>6. CASE SyncFails
  BY <1>6, StopGoes, TryAgainGoes, MovesKeeps DEF SyncFails, TypeOK
<1>7. CASE Retry
  BY <1>7, MovesKeeps DEF Retry, TypeOK
<1>8. CASE Evaluate
  <2>1. faults' \in 0 .. MaxFaults
    BY <1>8, FaultType DEF Evaluate, TypeOK
  <2> QED BY <1>8, <2>1, MovesKeeps DEF Evaluate, TypeOK
<1>9. CASE Resubscribed
  BY <1>9, MovesKeeps DEF Resubscribed, Sendable, TypeOK
<1>10. CASE ResubscribeFails
  BY <1>10, MovesKeeps DEF ResubscribeFails, TypeOK
<1> QED BY <1>1, <1>2, <1>3, <1>4, <1>5, <1>6, <1>7, <1>8, <1>9, <1>10

(***************************************************************************)
(* Closing and opening                                                     *)
(***************************************************************************)

\* The listener that Close cancels is that of the socket it then closes.
LEMMA CloseStep ==
  ASSUME StreamInv, NEW k \in Tasks, Close(k)
  PROVE  StreamInv'
<1> USE DEF StreamInv
<1>1. CASE ws = None
  <2>1. Moves(k, {"preparing"}, {"fetching"})
    BY <1>1 DEF Close, Moves
  <2> QED BY <2>1, <1>1, MovesKeeps DEF Close, Moves, Steps, TypeOK, streamVars
<1>2. CASE ws # None
  <2>1. /\ at[k] = "preparing"
        /\ at' = [at EXCEPT ![k] = "closing"]
        /\ closing' = [closing EXCEPT ![k] = ws]
        /\ isRunning' = FALSE
        /\ listening' = listening \ {listenTask}
        /\ broken' = broken \ {listenTask}
        /\ UNCHANGED <<ws, connecting, listenTask, live, subscribed,
                       streamVars, attempt, faults>>
    BY <1>2 DEF Close, Goto, StopListening
  <2>2. TypeOK'
    BY <2>1, <1>2 DEF TypeOK, streamVars
  <2>3. ListenerIsCurrent' /\ CurrentIsHeard'
    BY <2>1 DEF ListenerIsCurrent, CurrentIsHeard, Sendable
  <2>4. SingleFlight' /\ OneConnects'
    BY <2>1 DEF SingleFlight, OneConnects, TypeOK
  <2>5. ASSUME NEW s \in live'
        PROVE  s \in listening' \/ \E j \in Tasks : closing'[j] = s
    <3>1. CASE s = ws
      BY <2>1, <3>1 DEF TypeOK
    <3>2. CASE s # ws
      <4>1. closing[k] = None /\ s # None
        BY <2>1, MarketStreamAssumption DEF TypeOK
      <4>2. s # listenTask
        BY <1>2, <3>2 DEF ListenerIsCurrent
      <4> QED BY <2>1, <4>1, <4>2 DEF NoSocketForgotten, TypeOK
    <3> QED BY <3>1, <3>2
  <2>6. NoSocketForgotten'
    BY <2>5 DEF NoSocketForgotten
  <2> QED BY <2>2, <2>3, <2>4, <2>6
<1> QED BY <1>1, <1>2

\* A close that is over drops ws, whoever made it.
LEMMA ClosedStep ==
  ASSUME StreamInv, NEW s \in Sockets, Closed(s)
  PROVE  StreamInv'
<1> USE DEF StreamInv
<1> DEFINE closers == {k \in Tasks : closing[k] = s}
<1>1. /\ ws' = None
      /\ live' = live \ {s}
      /\ subscribed' = subscribed \ {s}
      /\ closing' = [k \in Tasks |-> IF k \in closers THEN None
                                                     ELSE closing[k]]
      /\ at' = [k \in Tasks |-> IF k \in closers THEN "fetching" ELSE at[k]]
      /\ UNCHANGED <<isRunning, connecting, listenTask, listening, broken,
                     streamVars, attempt, faults>>
  BY DEF Closed
<1>2. \A k \in closers : at[k] = "closing"
  BY MarketStreamAssumption DEF TypeOK
<1>3. TypeOK'
  BY <1>1, <1>2 DEF TypeOK, streamVars
<1>4. ListenerIsCurrent'
  BY <1>1 DEF ListenerIsCurrent
<1>5. CurrentIsHeard'
  BY <1>1, MarketStreamAssumption DEF CurrentIsHeard, Sendable, TypeOK
<1>6. SingleFlight' /\ OneConnects'
  BY <1>1, <1>2 DEF SingleFlight, OneConnects
<1>7. NoSocketForgotten'
  BY <1>1 DEF NoSocketForgotten
<1> QED BY <1>3, <1>4, <1>5, <1>6, <1>7

\* A task connects, or takes the other's connection in progress as made.
LEMMA ConnectStep ==
  ASSUME StreamInv, NEW k \in Tasks, Connect(k)
  PROVE  StreamInv'
<1> USE DEF StreamInv
<1>1. CASE connecting
  <2>1. Moves(k, {"fetching"}, {"connected"})
    BY <1>1 DEF Connect, Moves, socketVars
  <2> QED BY <2>1, <1>1, MovesKeeps
          DEF Connect, Moves, Steps, TypeOK, socketVars, streamVars
<1>2. CASE ~connecting
  <2>1. /\ at[k] = "fetching" /\ Goto(k, "opening")
        /\ connecting' = TRUE /\ isRunning' = FALSE
        /\ UNCHANGED <<ws, listenTask, socketVars, streamVars, closing,
                       attempt, faults>>
    BY <1>2 DEF Connect
  <2>2. /\ at' \in [Tasks -> Steps]
        /\ \A j \in Tasks : closing'[j] # None <=> at'[j] = "closing"
        /\ at'[k] = "opening"
        /\ \A j \in Tasks \ {k} : at'[j] = at[j]
    BY <2>1, GotoType DEF Steps
  <2>3. TypeOK'
    BY <2>1, <2>2 DEF TypeOK, Steps, socketVars, streamVars
  <2>4. ListenerIsCurrent' /\ CurrentIsHeard' /\ NoSocketForgotten'
    BY <2>1 DEF ListenerIsCurrent, CurrentIsHeard, Sendable,
                NoSocketForgotten, socketVars
  <2>5. SingleFlight' /\ OneConnects'
    BY <1>2, <2>1, <2>2 DEF SingleFlight, OneConnects
  <2> QED BY <2>3, <2>4, <2>5
<1> QED BY <1>1, <1>2

\* Whoever leaves "opening" was the only one there.
LEMMA NobodyElseOpens ==
  ASSUME StreamInv, NEW k \in Tasks,
         NEW next \in Steps \ {"closing", "opening"},
         at[k] = "opening", Goto(k, next), UNCHANGED closing, ~connecting'
  PROVE  SingleFlight' /\ OneConnects'
<1>1. /\ at'[k] = next
      /\ \A j \in Tasks \ {k} : at'[j] = at[j]
  BY GotoType DEF StreamInv
<1> QED BY <1>1 DEF StreamInv, SingleFlight, OneConnects

\* A new connection brings its own listener.
LEMMA OpenedStep ==
  ASSUME StreamInv, NEW k \in Tasks, Opened(k)
  PROVE  StreamInv'
<1> USE DEF StreamInv
<1>1. PICK s \in Unused :
        /\ at[k] = "opening" /\ Goto(k, "connected")
        /\ ws' = s /\ listenTask' = s
        /\ live' = live \union {s} /\ listening' = listening \union {s}
        /\ isRunning' = TRUE /\ connecting' = FALSE
        /\ UNCHANGED <<broken, subscribed, streamVars, closing, attempt,
                       faults>>
  BY ChosenIsUnused DEF Opened
<1>2. s \in Sockets /\ s \notin live \union listening
  BY DEF Unused
<1>3. /\ at' \in [Tasks -> Steps]
      /\ \A j \in Tasks : closing'[j] # None <=> at'[j] = "closing"
  BY <1>1, GotoType DEF Steps
<1>4. TypeOK'
  BY <1>1, <1>2, <1>3 DEF TypeOK, Steps, streamVars
<1>5. ListenerIsCurrent' /\ CurrentIsHeard' /\ NoSocketForgotten'
  BY <1>1 DEF ListenerIsCurrent, CurrentIsHeard, NoSocketForgotten
<1>6. SingleFlight' /\ OneConnects'
  BY <1>1, NobodyElseOpens DEF Steps
<1> QED BY <1>4, <1>5, <1>6

\* A connection that fails clears its flag.
LEMMA OpenFailsStep ==
  ASSUME StreamInv, NEW k \in Tasks, OpenFails(k)
  PROVE  StreamInv'
<1> USE DEF StreamInv
<1>1. /\ at[k] = "opening" /\ connecting' = FALSE
      /\ UNCHANGED <<ws, isRunning, listenTask, socketVars, streamVars,
                     closing, faults>>
  BY DEF OpenFails
<1>2. PICK next \in {"idle", "preparing"} : Goto(k, next)
  BY GiveUpGoes DEF OpenFails
<1>3. attempt' \in {"otp", "public", "retry"}
  BY GiveUpGoes DEF OpenFails
<1>4. /\ at' \in [Tasks -> Steps]
      /\ \A j \in Tasks : closing'[j] # None <=> at'[j] = "closing"
  BY <1>1, <1>2, GotoType DEF Steps
<1>5. TypeOK'
  BY <1>1, <1>3, <1>4 DEF TypeOK, Steps, socketVars, streamVars
<1>6. ListenerIsCurrent' /\ CurrentIsHeard' /\ NoSocketForgotten'
  BY <1>1 DEF ListenerIsCurrent, CurrentIsHeard, Sendable,
              NoSocketForgotten, socketVars
<1>7. SingleFlight' /\ OneConnects'
  BY <1>1, <1>2, NobodyElseOpens DEF Steps
<1> QED BY <1>5, <1>6, <1>7

(***************************************************************************)
(* Theorems                                                                *)
(***************************************************************************)

\* The engine starts with one connection, which is listened to.
LEMMA StreamInit == Init => StreamInv
<1> SUFFICES ASSUME Init PROVE StreamInv
  OBVIOUS
<1>1. ws \in Sockets
  BY MarketStreamAssumption DEF Init
<1>2. TypeOK
  <2>1. 0 \in 0 .. MaxFaults
    BY MarketStreamAssumption
  <2>2. /\ at \in [Tasks -> Steps]
        /\ closing \in [Tasks -> Sockets \union {None}]
        /\ \A k \in Tasks : closing[k] # None <=> at[k] = "closing"
    BY DEF Init, Steps
  <2> QED BY <1>1, <2>1, <2>2 DEF Init, TypeOK, Steps
<1>3. ListenerIsCurrent /\ CurrentIsHeard /\ NoSocketForgotten
  BY DEF Init, ListenerIsCurrent, CurrentIsHeard, NoSocketForgotten
<1>4. SingleFlight /\ OneConnects
  BY DEF Init, SingleFlight, OneConnects
<1> QED BY <1>2, <1>3, <1>4 DEF StreamInv

\* Every step keeps the invariant.
LEMMA StreamStep == StreamInv /\ [Next]_vars => StreamInv'
<1> SUFFICES ASSUME StreamInv, [Next]_vars PROVE StreamInv'
  OBVIOUS
<1>1. CASE Next
  BY <1>1, EnvironmentSteps, TaskMoves, CloseStep, ClosedStep, ConnectStep,
     OpenedStep, OpenFailsStep DEF Next
<1>2. CASE UNCHANGED vars
  BY <1>2 DEF vars, connVars, socketVars, streamVars, taskVars, StreamInv,
              TypeOK, ListenerIsCurrent, OneConnects, SingleFlight,
              CurrentIsHeard, NoSocketForgotten, Sendable
<1> QED BY <1>1, <1>2

\* The inductive invariant of the connection (connect, close, _listen): what
\* the two tasks do to ws, to its listener and to the flag of a connection in
\* progress fits together.
THEOREM StreamInvariance == Spec => []StreamInv
BY StreamInit, StreamStep, PTL DEF Spec

\* Every variable keeps its type, and a task that closes knows its socket.
THEOREM StreamTypeCorrect == Spec => []TypeOK
<1>1. StreamInv => TypeOK
  BY DEF StreamInv
<1> QED BY <1>1, StreamInvariance, PTL

\* At most one task opens a connection, and the flag tells whether one does.
THEOREM SingleFlightAlways == Spec => [](SingleFlight /\ OneConnects)
<1>1. StreamInv => SingleFlight /\ OneConnects
  BY DEF StreamInv
<1> QED BY <1>1, StreamInvariance, PTL

\* A connection that can be sent on is listened to, however the main loop and
\* the watchdog replace each other's connection.
THEOREM CurrentIsHeardAlways == Spec => []CurrentIsHeard
<1>1. StreamInv => CurrentIsHeard
  BY DEF StreamInv
<1> QED BY <1>1, StreamInvariance, PTL

\* No open socket is left without a listener unless a task is closing it.
THEOREM NoSocketForgottenEver == Spec => []NoSocketForgotten
<1>1. StreamInv => NoSocketForgotten
  BY DEF StreamInv
<1> QED BY <1>1, StreamInvariance, PTL

-----------------------------------------------------------------------------
(* Requests *)

\* Whoever waits has its callback, or another request removed it.
WaitersAreHeard == waiting \subseteq callbacks \union robbed

RequestInv == RequestTypeOK /\ WaitersAreHeard /\ AnswersAreDelivered

LEMMA RequestInitInv == RequestInit => RequestInv
BY MaxRequestsAssumption
DEF RequestInit, RequestInv, RequestTypeOK, WaitersAreHeard, AnswersAreDelivered

\* A new number is above every number in use.
LEMMA NumbersGrow ==
  ASSUME RequestTypeOK, counter < MaxRequests
  PROVE  /\ NextId \in 1 .. NextId /\ NextId \in 0 .. MaxRequests
         /\ 1 .. counter \subseteq 1 .. NextId
         /\ 0 .. counter \subseteq 0 .. NextId
BY MaxRequestsAssumption DEF RequestTypeOK, NextId

\* Whichever request sends, answers or gives up, the numbers stay in range.
LEMMA RequestTypeStep ==
  ASSUME RequestTypeOK, [RequestNext]_requestVars
  PROVE  RequestTypeOK'
<1> USE MaxRequestsAssumption DEF RequestTypeOK
<1>1. CASE Send
  <2>1. /\ callbacks' \subseteq 1 .. counter' /\ waiting' \subseteq 1 .. counter'
        /\ travelling' \subseteq 1 .. counter' /\ ping' \in 0 .. counter'
    BY <1>1, NumbersGrow DEF Send, RegisterCallback, NextId
  <2> QED BY <2>1, <1>1, NumbersGrow DEF Send
<1>2. CASE SendFails
  <2>1. /\ callbacks' \subseteq 1 .. counter' /\ waiting' \subseteq 1 .. counter'
        /\ travelling' \subseteq 1 .. counter' /\ ping' \in 0 .. counter'
    BY <1>2, NumbersGrow DEF SendFails, RegisterCallback, CloseConnection, NextId
  <2> QED BY <2>1, <1>2, NumbersGrow DEF SendFails, CloseConnection
<1>3. ASSUME NEW n \in RequestIds, Answer(n) PROVE RequestTypeOK'
  <2>1. waiting' \subseteq waiting /\ missed' \subseteq missed \union waiting
    BY <1>3 DEF Answer
  <2> QED BY <2>1, <1>3 DEF Answer
<1>4. ASSUME NEW n \in RequestIds, TimeOut(n) PROVE RequestTypeOK'
  <2>1. /\ robbed' \subseteq 1 .. counter' /\ callbacks' \subseteq 1 .. counter'
        /\ waiting' \subseteq 1 .. counter' /\ missed' \subseteq 1 .. counter'
    BY <1>4 DEF TimeOut
  <2>2. /\ travelling' \subseteq 1 .. counter' /\ ping' \in 0 .. counter'
        /\ linked' \in BOOLEAN
    <3>1. CASE n = ping
      <4>1. ping' = 0 /\ linked' = FALSE /\ travelling' = {} /\ counter' = counter
        BY <3>1, <1>4 DEF TimeOut, CloseConnection
      <4>2. linked' \in BOOLEAN
        BY <4>1, Zenon
      <4> QED BY <4>1, <4>2
    <3>2. CASE n # ping
      BY <3>2, <1>4 DEF TimeOut
    <3> QED BY <3>1, <3>2
  <2>3. counter' \in 0 .. MaxRequests /\ losses' \in 0 .. MaxLosses
    BY <1>4 DEF TimeOut
  <2> QED BY <2>1, <2>2, <2>3, Zenon
<1>5. CASE Unlink
  <2>1. linked' \in BOOLEAN
    BY <1>5, Zenon DEF Unlink, CloseConnection
  <2>2. losses' \in 0 .. MaxLosses /\ travelling' \subseteq 1 .. counter
    BY <1>5 DEF Unlink, CloseConnection
  <2>3. UNCHANGED <<counter, callbacks, waiting, ping, missed, robbed>>
    BY <1>5 DEF Unlink
  <2> QED BY <2>1, <2>2, <2>3
<1>6. CASE Relink
  BY <1>6 DEF Relink
<1>7. CASE UNCHANGED requestVars
  BY <1>7 DEF requestVars
<1> QED BY <1>1, <1>2, <1>3, <1>4, <1>5, <1>6, <1>7 DEF RequestNext

\* A caller loses its callback only with its answer, its own time-out, or to
\* another's time-out, which is then noted.
LEMMA WaitersStep ==
  ASSUME RequestInv, [RequestNext]_requestVars
  PROVE  WaitersAreHeard'
<1> USE DEF RequestInv, WaitersAreHeard
<1>1. CASE Send
  BY <1>1 DEF Send, RegisterCallback
<1>2. CASE SendFails
  BY <1>2 DEF SendFails, RegisterCallback
<1>3. ASSUME NEW n \in RequestIds, Answer(n) PROVE WaitersAreHeard'
  <2>1. CASE n \in callbacks
    BY <1>3, <2>1 DEF Answer
  <2>2. CASE n \notin callbacks
    BY <1>3, <2>2 DEF Answer
  <2> QED BY <2>1, <2>2
<1>4. ASSUME NEW n \in RequestIds, TimeOut(n) PROVE WaitersAreHeard'
  BY <1>4 DEF TimeOut
<1>5. CASE Unlink \/ Relink \/ UNCHANGED requestVars
  BY <1>5 DEF Unlink, Relink, requestVars
<1> QED BY <1>1, <1>2, <1>3, <1>4, <1>5 DEF RequestNext

\* Only an answer can be missed.
LEMMA DeliveryStep ==
  ASSUME RequestInv, [RequestNext]_requestVars
  PROVE  AnswersAreDelivered'
<1> USE DEF RequestInv, AnswersAreDelivered
<1>1. ASSUME NEW n \in RequestIds, Answer(n) PROVE AnswersAreDelivered'
  BY <1>1 DEF Answer, WaitersAreHeard
<1>2. ASSUME NEW n \in RequestIds, TimeOut(n) PROVE AnswersAreDelivered'
  BY <1>2 DEF TimeOut
<1>3. CASE Send \/ SendFails \/ Unlink \/ Relink \/ UNCHANGED requestVars
  BY <1>3 DEF Send, SendFails, Unlink, Relink, requestVars
<1> QED BY <1>1, <1>2, <1>3 DEF RequestNext

LEMMA RequestInvariance == RequestSpec => []RequestInv
<1>1. RequestInv /\ [RequestNext]_requestVars => RequestInv'
  BY RequestTypeStep, WaitersStep, DeliveryStep DEF RequestInv
<1> QED BY <1>1, RequestInitInv, PTL DEF RequestSpec

\* Type correctness of the requests' bookkeeping (WebSocketManager): every
\* callback, waiting caller and ping has the number of a request that was sent.
THEOREM RequestTypeCorrect == RequestSpec => []RequestTypeOK
<1>1. RequestInv => RequestTypeOK
  BY DEF RequestInv
<1> QED BY <1>1, RequestInvariance, PTL

\* An answer that comes while its caller waits reaches it, unless the time-out
\* of another request removed its callback, for any number of requests
\* (WebSocketManager.send and _handle_response).
THEOREM EveryAnswerDelivered == RequestSpec => []AnswersAreDelivered
<1>1. RequestInv => AnswersAreDelivered
  BY DEF RequestInv
<1> QED BY <1>1, RequestInvariance, PTL
=============================================================================
