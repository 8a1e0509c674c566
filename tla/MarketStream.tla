----------------------------- MODULE MarketStream ---------------------------
(***************************************************************************)
(* The connection that brings the market data: the sockets a              *)
(* WebSocketManager opens and listens to, the channels subscribed on them, *)
(* and the two tasks that restore them without knowing of each other: the  *)
(* main loop, when the connection is down, and the watchdog, when it is up *)
(* and no tick arrives.                                                    *)
(*                                                                         *)
(* Every action runs from one suspension point to the next.  Init is the   *)
(* engine as its startup leaves it, after the first tick.  A socket that   *)
(* nothing refers to any more is used again for a new connection.  A       *)
(* listener's first step follows connect with no other task in between.    *)
(***************************************************************************)
EXTENDS Naturals, FiniteSets

CONSTANTS
  MainLoop,        \* run_orchestrator_main_loop
  Watchdog,        \* AetherWatchdog
  Sockets,         \* bound: the connections the broker admits at a time
  None,
  MaxFaults        \* connections lost, pings unanswered, markets gone quiet

Tasks == {MainLoop, Watchdog}

ASSUME MarketStreamAssumption ==
  /\ MainLoop # Watchdog
  /\ None \notin Sockets /\ Sockets # {}
  /\ MaxFaults \in Nat

VARIABLES
  ws,           \* WebSocketManager.ws
  isRunning,    \* WebSocketManager.is_running
  connecting,   \* WebSocketManager._connect_in_progress
  listenTask,   \* the socket of WebSocketManager._listen_task
  listening,    \* sockets whose _listen task is alive
  synchronized, \* StreamHandler.is_synchronized
  stale,        \* no tick for watchdog_stale_tick_seconds
  at,           \* where each task is
  closing,      \* the socket whose close each task awaits
  attempt,      \* which connection of its round the main loop is trying
  live,         \* sockets open at both ends (external)
  broken,       \* sockets that ended without a closing handshake (external)
  subscribed,   \* sockets the broker sends ticks on (external)
  faults

connVars   == <<ws, isRunning, connecting, listenTask>>
socketVars == <<listening, live, broken, subscribed>>
streamVars == <<synchronized, stale>>
taskVars   == <<at, closing, attempt>>
vars == <<connVars, socketVars, streamVars, taskVars, faults>>

TypeOK ==
  /\ ws \in Sockets \union {None} /\ listenTask \in Sockets \union {None}
  /\ isRunning \in BOOLEAN /\ connecting \in BOOLEAN
  /\ listening \subseteq Sockets
  /\ synchronized \in BOOLEAN /\ stale \in BOOLEAN
  /\ at \in [Tasks -> {"idle", "preparing", "closing", "fetching", "opening",
                       "connected", "subscribing", "pausing"}]
  /\ closing \in [Tasks -> Sockets \union {None}]
  /\ \A k \in Tasks : closing[k] # None <=> at[k] = "closing"
  /\ attempt \in {"otp", "public", "retry"}
  /\ live \subseteq Sockets /\ subscribed \subseteq Sockets
  /\ broken \subseteq listening \ live
  /\ faults \in 0 .. MaxFaults

Init ==
  /\ ws = CHOOSE s \in Sockets : TRUE
  /\ listenTask = ws /\ listening = {ws} /\ live = {ws}
  /\ subscribed = {ws} /\ broken = {}
  /\ isRunning = TRUE /\ connecting = FALSE
  /\ synchronized = TRUE /\ stale = FALSE
  /\ at = [k \in Tasks |-> "idle"] /\ closing = [k \in Tasks |-> None]
  /\ attempt = "otp"
  /\ faults = 0

Fault == faults < MaxFaults /\ faults' = faults + 1

Sendable == isRunning /\ ws \in live

-----------------------------------------------------------------------------
(* Ticks and the end of a connection *)

Bringing == live \intersect listening \intersect subscribed

Tick ==
  /\ Bringing # {}
  /\ stale' = FALSE
  /\ UNCHANGED <<connVars, socketVars, synchronized, taskVars, faults>>

\* No tick for watchdog_stale_tick_seconds.
GoStale ==
  /\ ~stale
  /\ Bringing = {}
  /\ stale' = TRUE
  /\ UNCHANGED <<connVars, socketVars, synchronized, taskVars, faults>>

\* The broker or the network ends a socket, with or without a handshake; one
\* that was left behind ends sooner or later.
Lose(s) ==
  /\ IF s = ws THEN Fault ELSE UNCHANGED faults
  /\ s \in live
  /\ live' = live \ {s}
  /\ subscribed' = subscribed \ {s}
  /\ broken' \in {broken, broken \union ({s} \intersect listening)}
  /\ UNCHANGED <<connVars, listening, streamVars, taskVars>>

StopListening(s) ==
  /\ listening' = listening \ {s}
  /\ broken' = broken \ {s}

\* Whichever socket it is of, a listener reports the connection as down; only
\* the end of the messages after a closing handshake reports nothing.
ListenEnds(s) ==
  /\ s \in listening \ live
  /\ StopListening(s)
  /\ isRunning' = (isRunning /\ s \notin broken)
  /\ UNCHANGED <<ws, connecting, listenTask, live, subscribed, streamVars,
                 taskVars, faults>>

\* A ping raises on a dead socket and may go unanswered on a live one.
PingFails ==
  /\ isRunning /\ ws # None
  /\ IF ws \in live THEN Fault ELSE UNCHANGED faults
  /\ isRunning' = FALSE
  /\ live' = live \ {ws}
  /\ subscribed' = subscribed \ {ws}
  /\ UNCHANGED <<ws, connecting, listenTask, listening, broken, streamVars,
                 taskVars>>

\* A poll, an audit or a backfill of settlements met a transient error.
MarkOffline ==
  /\ isRunning
  /\ IF Sendable THEN Fault ELSE UNCHANGED faults
  /\ isRunning' = FALSE
  /\ UNCHANGED <<ws, connecting, listenTask, socketVars, streamVars, taskVars>>

-----------------------------------------------------------------------------
(* Reconnecting: steps of both tasks *)

Goto(k, next) == at' = [at EXCEPT ![k] = next]

Stop(k) ==
  /\ Goto(k, "idle")
  /\ attempt' = IF k = MainLoop THEN "otp" ELSE attempt

\* What a task does when it cannot connect: the main loop goes on to the
\* public gateway once, and otherwise gives up until its next round.
GiveUp(k) ==
  IF k = MainLoop /\ attempt = "otp"
  THEN Goto(k, "preparing") /\ attempt' = "public"
  ELSE Stop(k)

\* The current socket, whoever opened it, is the one to be closed.
Close(k) ==
  /\ at[k] = "preparing"
  /\ IF ws = None
     THEN /\ Goto(k, "fetching")
          /\ UNCHANGED <<isRunning, listening, broken, closing>>
     ELSE /\ Goto(k, "closing")
          /\ closing' = [closing EXCEPT ![k] = ws]
          /\ isRunning' = FALSE
          /\ StopListening(listenTask)
  /\ UNCHANGED <<ws, connecting, listenTask, live, subscribed, streamVars,
                 attempt, faults>>

\* Bug: the socket is dropped, not closed.
ClosedByDropping(s) ==
  LET closers == {k \in Tasks : closing[k] = s} IN
  /\ closers # {}
  /\ ws' = None
  /\ closing' = [k \in Tasks |-> IF k \in closers THEN None ELSE closing[k]]
  /\ at' = [k \in Tasks |-> IF k \in closers THEN "fetching" ELSE at[k]]
  /\ UNCHANGED <<isRunning, connecting, listenTask, socketVars, streamVars,
                 attempt, faults>>

\* Tasks that close the same socket go on together.  A connection made
\* meanwhile is dropped from ws as well.
Closed(s) ==
  LET closers == {k \in Tasks : closing[k] = s} IN
  /\ closers # {}
  /\ ws' = None
  /\ live' = live \ {s}
  /\ subscribed' = subscribed \ {s}
  /\ closing' = [k \in Tasks |-> IF k \in closers THEN None ELSE closing[k]]
  /\ at' = [k \in Tasks |-> IF k \in closers THEN "fetching" ELSE at[k]]
  /\ UNCHANGED <<isRunning, connecting, listenTask, listening, broken,
                 streamVars, attempt, faults>>

FetchFails(k) ==
  /\ at[k] = "fetching"
  /\ GiveUp(k)
  /\ UNCHANGED <<connVars, socketVars, streamVars, closing, faults>>

\* Bug: a task connects whether or not the other one does.
ConnectUnchecked(k) ==
  /\ at[k] = "fetching"
  /\ Goto(k, "opening")
  /\ connecting' = TRUE
  /\ isRunning' = FALSE
  /\ UNCHANGED <<ws, listenTask, socketVars, streamVars, closing, attempt,
                 faults>>

\* Who finds the other task connecting takes the connection as made.
Connect(k) ==
  /\ at[k] = "fetching"
  /\ IF connecting
     THEN /\ Goto(k, "connected")
          /\ UNCHANGED <<isRunning, connecting>>
     ELSE /\ Goto(k, "opening")
          /\ connecting' = TRUE
          /\ isRunning' = FALSE
  /\ UNCHANGED <<ws, listenTask, socketVars, streamVars, closing, attempt,
                 faults>>

Unused ==
  {s \in Sockets :
     /\ s \notin live \union listening \union {ws, listenTask}
     /\ \A k \in Tasks : closing[k] # s}

\* Bug: a listener that is still alive is taken to serve the new socket.
OpenedKeepingListener(k) ==
  LET s == CHOOSE u \in Unused : TRUE IN
  /\ at[k] = "opening"
  /\ Unused # {}
  /\ Goto(k, "connected")
  /\ ws' = s
  /\ live' = live \union {s}
  /\ IF listenTask \in listening
     THEN UNCHANGED <<listening, listenTask>>
     ELSE listening' = listening \union {s} /\ listenTask' = s
  /\ isRunning' = TRUE /\ connecting' = FALSE
  /\ UNCHANGED <<broken, subscribed, streamVars, closing, attempt, faults>>

Opened(k) ==
  LET s == CHOOSE u \in Unused : TRUE IN
  /\ at[k] = "opening"
  /\ Unused # {}
  /\ Goto(k, "connected")
  /\ ws' = s /\ listenTask' = s
  /\ live' = live \union {s} /\ listening' = listening \union {s}
  /\ isRunning' = TRUE /\ connecting' = FALSE
  /\ UNCHANGED <<broken, subscribed, streamVars, closing, attempt, faults>>

\* Bug: the flag of a connection in progress outlives its failure.
OpenFailsConnecting(k) ==
  /\ at[k] = "opening"
  /\ GiveUp(k)
  /\ UNCHANGED <<connVars, socketVars, streamVars, closing, faults>>

OpenFails(k) ==
  /\ at[k] = "opening"
  /\ connecting' = FALSE
  /\ GiveUp(k)
  /\ UNCHANGED <<ws, isRunning, listenTask, socketVars, streamVars, closing,
                 faults>>

-----------------------------------------------------------------------------
(* The main loop: setup_trading_session, then start_orchestrator_streams *)

Begin ==
  /\ at[MainLoop] = "idle"
  /\ ~isRunning
  /\ Goto(MainLoop, "preparing")
  /\ UNCHANGED <<connVars, socketVars, streamVars, closing, attempt, faults>>

\* Services, models, the restored state, the account or its targets.
SetupFails ==
  /\ \/ at[MainLoop] \in {"preparing", "fetching"} /\ attempt = "otp"
     \/ at[MainLoop] = "connected" /\ attempt # "retry"
  /\ Stop(MainLoop)
  /\ UNCHANGED <<connVars, socketVars, streamVars, closing, faults>>

TryAgain ==
  IF attempt = "retry"
  THEN Stop(MainLoop)
  ELSE Goto(MainLoop, "pausing") /\ attempt' = "retry"

\* sync_triple_candle_history; a connection that is down is tried once more.
StartStreams ==
  /\ at[MainLoop] = "connected"
  /\ synchronized' = FALSE
  /\ IF isRunning
     THEN Goto(MainLoop, "subscribing") /\ UNCHANGED attempt
     ELSE TryAgain
  /\ UNCHANGED <<connVars, socketVars, stale, closing, faults>>

\* Every request was answered; that the answer may be a refusal is not looked
\* at.
StreamsStarted ==
  /\ at[MainLoop] = "subscribing"
  /\ Sendable
  /\ subscribed' \in {subscribed, subscribed \union {ws}}
  /\ synchronized' = TRUE
  /\ Stop(MainLoop)
  /\ UNCHANGED <<connVars, listening, live, broken, stale, closing, faults>>

\* Some of the channels may have been subscribed by then.
SyncFails ==
  /\ at[MainLoop] = "subscribing"
  /\ subscribed' \in {subscribed, subscribed \union ({ws} \intersect live)}
  /\ \/ Stop(MainLoop)
     \/ ~(isRunning /\ ws # None) /\ TryAgain
  /\ UNCHANGED <<connVars, listening, live, broken, streamVars, closing,
                 faults>>

\* The second attempt connects first, without a close, if it has to.
Retry ==
  /\ at[MainLoop] = "pausing"
  /\ Goto(MainLoop, IF isRunning THEN "connected" ELSE "fetching")
  /\ UNCHANGED <<connVars, socketVars, streamVars, closing, attempt, faults>>

-----------------------------------------------------------------------------
(* The watchdog: _evaluate, then execute_stream_reconnect *)

\* Of a market that went quiet, or of a connection that brings no ticks.
Evaluate ==
  /\ at[Watchdog] = "idle"
  /\ synchronized /\ isRunning
  /\ IF Bringing = {}
     THEN stale /\ UNCHANGED faults
     ELSE Fault
  /\ Goto(Watchdog, "preparing")
  /\ UNCHANGED <<connVars, socketVars, streamVars, closing, attempt>>

Resubscribed ==
  /\ at[Watchdog] = "connected"
  /\ Sendable
  /\ subscribed' \in {subscribed, subscribed \union {ws}}
  /\ synchronized' = TRUE /\ stale' = FALSE
  /\ Goto(Watchdog, "idle")
  /\ UNCHANGED <<connVars, listening, live, broken, closing, attempt, faults>>

ResubscribeFails ==
  /\ at[Watchdog] = "connected"
  /\ subscribed' \in {subscribed, subscribed \union ({ws} \intersect live)}
  /\ Goto(Watchdog, "idle")
  /\ UNCHANGED <<connVars, listening, live, broken, streamVars, closing,
                 attempt, faults>>

Next ==
  \/ Tick \/ GoStale \/ PingFails \/ MarkOffline
  \/ \E s \in Sockets : Lose(s) \/ ListenEnds(s) \/ Closed(s)
  \/ \E k \in Tasks :
       Close(k) \/ FetchFails(k) \/ Connect(k) \/ Opened(k) \/ OpenFails(k)
  \/ Begin \/ SetupFails \/ StartStreams \/ StreamsStarted \/ SyncFails
  \/ Retry
  \/ Evaluate \/ Resubscribed \/ ResubscribeFails

Spec == Init /\ [][Next]_vars

StepOfMainLoop ==
  \/ Close(MainLoop) \/ FetchFails(MainLoop) \/ Connect(MainLoop)
  \/ Opened(MainLoop) \/ OpenFails(MainLoop)
  \/ Begin \/ SetupFails \/ StartStreams \/ StreamsStarted \/ SyncFails
  \/ Retry

StepOfWatchdog ==
  \/ Close(Watchdog) \/ FetchFails(Watchdog) \/ Connect(Watchdog)
  \/ Opened(Watchdog) \/ OpenFails(Watchdog)
  \/ Evaluate \/ Resubscribed \/ ResubscribeFails

\* The loops poll, pings are sent, tasks go on, what is dead or left behind
\* ends, and the main loop connects if it keeps trying.
MainLoopConnects ==
  /\ WF_vars(PingFails)
  /\ WF_vars(\E s \in Sockets :
               ListenEnds(s) \/ Closed(s) \/ (s # ws /\ Lose(s)))
  /\ WF_vars(StepOfMainLoop) /\ WF_vars(StepOfWatchdog)
  /\ SF_vars(Close(MainLoop)) /\ SF_vars(Connect(MainLoop))
  /\ SF_vars(Opened(MainLoop))

\* Moreover ticks arrive, and whatever else may fail succeeds if it is tried
\* often enough.
RetriesSucceed ==
  /\ WF_vars(Tick \/ GoStale)
  /\ SF_vars(StartStreams) /\ SF_vars(StreamsStarted)
  /\ SF_vars(Connect(Watchdog)) /\ SF_vars(Opened(Watchdog))
  /\ SF_vars(Resubscribed)

PollingSpec == Spec /\ MainLoopConnects

FairSpec == PollingSpec /\ RetriesSucceed

-----------------------------------------------------------------------------
(* Properties *)

\* One task at a time opens a connection, and the flag that says so outlives
\* neither its success nor its failure (connect).
SingleFlight == connecting <=> \E k \in Tasks : at[k] = "opening"

\* However the two tasks replace each other's connection, the one in use is
\* listened to: a request sent on it can be answered (connect, close).
CurrentIsHeard == Sendable => ws \in listening

\* No socket is forgotten while it is open: it is listened to, so that its
\* end is noticed, or a task is closing it (connect, close).
NoSocketForgotten ==
  \A s \in live : s \in listening \/ \E k \in Tasks : closing[k] = s

\* Whatever fails, and whatever the watchdog does meanwhile, a connection is
\* reported up again (run_orchestrator_main_loop).
KeepsReconnecting == []<>isRunning

\* "Reconexao com backoff + jitter e re-subscribe atomico"
\* (docs/engineering-architecture-senior.md): after a connection is lost, the
\* engine has one it can send on again.
ConnectionRestored == []<>Sendable
=============================================================================
