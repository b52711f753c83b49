--------------------------- MODULE ServerLifecycle ---------------------------
(***************************************************************************)
(* A server from start to stop: serve() in src/korvex/_serve.py on the     *)
(* asyncio loop, accept_loop(), serve_connection() and handle() in         *)
(* src/src/server.rs on the Rust thread, and the requests between them.    *)
(*                                                                         *)
(* Requests are numbered as they come.  The queue between the two threads  *)
(* is a reliable channel here (EventQueue shows that it is), what a task   *)
(* does with its request is RequestRun, how a stream flows StreamFlow, and *)
(* WebSockets are WebSocketLink: of a request only the answer's kind is    *)
(* left.                                                                   *)
(***************************************************************************)
EXTENDS Naturals

CONSTANTS Conn,        \* the connections clients make
          MaxRequests  \* bound on their requests, over all connections

ASSUME ServerLifecycleAssumption == MaxRequests \in Nat \ {0}

Request == 1..MaxRequests

VARIABLES py,       \* where serve() is
          asked,    \* its `stopping` event
          grace,    \* grace_ms was stored by stop()
          permit,   \* a notify_one() that accept_loop() has not taken
          rust,     \* where accept_loop() is
          granted,  \* it gives the connections the grace that stop() stored
          gaveUp,   \* it did not wait for the last connection
          cancelled,\* serve() was cancelled: a task raised SystemExit, say
          conn,     \* where each connection is
          requests, \* requests so far
          current,  \* the last one of each connection, 0 if it had none
          told,     \* connections in graceful_shutdown()
          deserted, \* requests whose client left before the answer
          refused,  \* connections whose request had a body that was not read
          task,     \* each request's task in Python
          reply,    \* what it gave its responder
          answered  \* requests whose answer went out whole

serveVars == <<py, asked, cancelled>>
stopVars == <<grace, permit>>
rustVars == <<rust, granted, gaveUp>>
connVars == <<conn, requests, current, told, deserted, refused, answered>>
taskVars == <<task, reply>>
vars == <<serveVars, stopVars, rustVars, connVars, taskVars>>

Open(c) == conn[c] \in {"idle", "body", "wait", "write"}

\* A current-thread runtime: connections only run inside accept_loop().
Runs == rust \in {"accepting", "draining"}

\* The loop runs tasks and callbacks while serve() awaits, not inside
\* Server.stop() or Server.close().
LoopRuns == py \in {"serving", "draining", "hooks"}

Init ==
  /\ py = "startup" /\ asked = FALSE /\ cancelled = FALSE
  /\ grace = FALSE /\ permit = FALSE
  /\ rust = "none" /\ granted = FALSE /\ gaveUp = FALSE
  /\ conn = [c \in Conn |-> "new"] /\ requests = 0 /\ current = [c \in Conn |-> 0]
  /\ told = {} /\ deserted = {} /\ refused = {} /\ answered = {}
  /\ task = [r \in Request |-> "none"] /\ reply = [r \in Request |-> "none"]

-----------------------------------------------------------------------------
(* serve()                                                                 *)

\* A startup hook raises: the socket is closed, nothing is served.
StartupFails ==
  /\ py = "startup"
  /\ py' = "ended"
  /\ UNCHANGED <<asked, cancelled, stopVars, rustVars, connVars, taskVars>>

\* The hooks ran: Server() starts the Rust thread.
StartServer ==
  /\ py = "startup"
  /\ py' = "serving"
  /\ rust' = "accepting"
  /\ UNCHANGED <<asked, cancelled, stopVars, granted, gaveUp, connVars, taskVars>>

\* SIGINT, SIGTERM, or the main thread's stop_all().
AskStop ==
  /\ LoopRuns /\ ~asked
  /\ asked' = TRUE
  /\ UNCHANGED <<py, cancelled, stopVars, rustVars, connVars, taskVars>>

\* Mutant of StopStores: the grace is stored after the notification.
StopStoresLate ==
  /\ py = "serving" /\ asked
  /\ permit' = TRUE
  /\ py' = "storing"
  /\ UNCHANGED <<asked, cancelled, grace, rustVars, connVars, taskVars>>

\* Server.stop(): the grace first ...
StopStores ==
  /\ py = "serving" /\ asked
  /\ grace' = TRUE
  /\ py' = "storing"
  /\ UNCHANGED <<asked, cancelled, permit, rustVars, connVars, taskVars>>

\* ... then the notification.
StopNotifies ==
  /\ py = "storing"
  /\ permit' = TRUE
  /\ py' = "draining"
  /\ UNCHANGED <<asked, cancelled, grace, rustVars, connVars, taskVars>>

\* finished() is true.
SeesFinished ==
  /\ py = "draining" /\ rust \in {"finished", "ended"}
  /\ py' = "closing"
  /\ UNCHANGED <<asked, cancelled, stopVars, rustVars, connVars, taskVars>>

\* serve() is cancelled where it awaits.
Cancelled ==
  /\ py \in {"serving", "draining"}
  /\ cancelled' = TRUE
  /\ py' = "closing"
  /\ UNCHANGED <<asked, stopVars, rustVars, connVars, taskVars>>

\* Mutant of Close: a server that was not stopped is not told.
CloseOnlyJoins ==
  /\ py = "closing"
  /\ py' = "joining"
  /\ UNCHANGED <<asked, cancelled, stopVars, rustVars, connVars, taskVars>>

\* finally: the reader is removed, Server.close() notifies ...
Close ==
  /\ py = "closing"
  /\ permit' = TRUE
  /\ py' = "joining"
  /\ UNCHANGED <<asked, cancelled, grace, rustVars, connVars, taskVars>>

\* ... and waits for the Rust thread.
Join ==
  /\ py = "joining" /\ rust = "ended"
  /\ py' = "hooks"
  /\ UNCHANGED <<asked, cancelled, stopVars, rustVars, connVars, taskVars>>

\* The shutdown hooks, or the one that raised.
HooksEnd ==
  /\ py = "hooks"
  /\ py' = "ended"
  /\ UNCHANGED <<asked, cancelled, stopVars, rustVars, connVars, taskVars>>

-----------------------------------------------------------------------------
(* accept_loop()                                                           *)

Accept(c) ==
  /\ rust = "accepting" /\ conn[c] = "pending"
  /\ conn' = [conn EXCEPT ![c] = "idle"]
  /\ UNCHANGED <<serveVars, stopVars, rustVars, requests, current, told, deserted, refused, answered, taskVars>>

\* stop.notified(): the listener is dropped, with what it had not accepted, and
\* the connections are told.
Notified ==
  /\ rust = "accepting" /\ permit
  /\ permit' = FALSE
  /\ rust' = "draining"
  /\ granted' = grace
  /\ conn' = [c \in Conn |-> IF conn[c] = "pending" THEN "closed" ELSE conn[c]]
  /\ UNCHANGED <<serveVars, grace, gaveUp, requests, current, told, deserted, refused, answered, taskVars>>

\* shutdown.closed(): every connection has dropped its receiver.
AllClosed ==
  /\ rust = "draining" /\ \A c \in Conn : ~Open(c)
  /\ rust' = "finished"
  /\ UNCHANGED <<serveVars, stopVars, granted, gaveUp, connVars, taskVars>>

\* The grace is over, at once if there is none.
GraceOver ==
  /\ rust = "draining" /\ \E c \in Conn : Open(c)
  /\ rust' = "finished"
  /\ gaveUp' = TRUE
  /\ UNCHANGED <<serveVars, stopVars, granted, connVars, taskVars>>

\* The thread ends, and the runtime with the connections it still has.
ThreadEnds ==
  /\ rust = "finished"
  /\ rust' = "ended"
  /\ conn' = [c \in Conn |-> IF Open(c) THEN "closed" ELSE conn[c]]
  /\ UNCHANGED <<serveVars, stopVars, granted, gaveUp, requests, current, told, deserted, refused, answered, taskVars>>

-----------------------------------------------------------------------------
(* A connection: serve_connection() and handle().                          *)

Connects(c) ==
  /\ rust = "accepting" /\ conn[c] = "new"
  /\ conn' = [conn EXCEPT ![c] = "pending"]
  /\ UNCHANGED <<serveVars, stopVars, rustVars, requests, current, told, deserted, refused, answered, taskVars>>

\* A request's headers are in.
ReadHeaders(c) ==
  /\ Runs /\ conn[c] = "idle" /\ c \notin told /\ requests < MaxRequests
  /\ conn' = [conn EXCEPT ![c] = "body"]
  /\ requests' = requests + 1
  /\ current' = [current EXCEPT ![c] = requests + 1]
  /\ UNCHANGED <<serveVars, stopVars, rustVars, told, deserted, refused, answered, taskVars>>

\* The body is read, or is too large, too slow or broken: the app gets the
\* request all the same.
ReadBody(c, ok) ==
  /\ Runs /\ conn[c] = "body"
  /\ conn' = [conn EXCEPT ![c] = "wait"]
  /\ refused' = IF ok THEN refused ELSE refused \union {c}
  /\ task' = [task EXCEPT ![current[c]] = "queued"]
  /\ UNCHANGED <<serveVars, stopVars, rustVars, requests, current, told, deserted, answered, reply>>

\* Python answered, or dropped its responder: a 500.
GetsReply(c) ==
  /\ Runs /\ conn[c] = "wait" /\ reply[current[c]] # "none"
  /\ conn' = [conn EXCEPT ![c] = "write"]
  /\ UNCHANGED <<serveVars, stopVars, rustVars, requests, current, told, deserted, refused, answered, taskVars>>

\* The answer is out: the connection is kept for another request, if it can be.
Written(c) ==
  /\ Runs /\ conn[c] = "write"
  /\ reply[current[c]] = "stream" => task[current[c]] # "streaming"
  /\ conn' = [conn EXCEPT ![c] = IF c \in told \union refused THEN "closed" ELSE "idle"]
  /\ answered' = answered \union {current[c]}
  /\ UNCHANGED <<serveVars, stopVars, rustVars, requests, current, told, deserted, refused, taskVars>>

\* The client leaves, or does not send its next headers in time.
ClientLeaves(c) ==
  /\ Runs /\ conn[c] \in {"pending", "idle", "body", "wait", "write"}
  /\ conn' = [conn EXCEPT ![c] = "closed"]
  /\ deserted' = IF conn[c] \in {"body", "wait", "write"} THEN deserted \union {current[c]} ELSE deserted
  /\ UNCHANGED <<serveVars, stopVars, rustVars, requests, current, told, refused, answered, taskVars>>

\* Mutant of HearsShutdown: the connection is closed whatever it does.
HearsShutdownAndCloses(c) ==
  /\ rust = "draining" /\ Open(c) /\ c \notin told
  /\ told' = told \union {c}
  /\ conn' = [conn EXCEPT ![c] = "closed"]
  /\ UNCHANGED <<serveVars, stopVars, rustVars, requests, current, deserted, refused, answered, taskVars>>

\* graceful_shutdown(): no further request; between two, it closes.
HearsShutdown(c) ==
  /\ rust = "draining" /\ Open(c) /\ c \notin told
  /\ told' = told \union {c}
  /\ conn' = IF conn[c] = "idle" THEN [conn EXCEPT ![c] = "closed"] ELSE conn
  /\ UNCHANGED <<serveVars, stopVars, rustVars, requests, current, deserted, refused, answered, taskVars>>

-----------------------------------------------------------------------------
(* A request's task in Python.                                             *)

\* take_requests() starts it.
Take(r) ==
  /\ py \in {"serving", "draining"} /\ task[r] = "queued"
  /\ task' = [task EXCEPT ![r] = "running"]
  /\ UNCHANGED <<serveVars, stopVars, rustVars, connVars, reply>>

\* A whole answer, or the start of a stream.
Answers(r, kind) ==
  /\ LoopRuns /\ task[r] = "running"
  /\ reply' = [reply EXCEPT ![r] = kind]
  /\ task' = [task EXCEPT ![r] = IF kind = "stream" THEN "streaming" ELSE "after"]
  /\ UNCHANGED <<serveVars, stopVars, rustVars, connVars>>

\* end_stream(), in a finally; teardowns and logs are left.
EndsStream(r) ==
  /\ LoopRuns /\ task[r] = "streaming"
  /\ task' = [task EXCEPT ![r] = "after"]
  /\ UNCHANGED <<serveVars, stopVars, rustVars, connVars, reply>>

TaskEnds(r) ==
  /\ LoopRuns /\ task[r] = "after"
  /\ task' = [task EXCEPT ![r] = "over"]
  /\ UNCHANGED <<serveVars, stopVars, rustVars, connVars, reply>>

\* It ends without an answer, or asyncio.run() cancels what serve() left.
TaskRaises(r) ==
  /\ LoopRuns \/ py = "ended"
  /\ task[r] \in {"running", "streaming", "after"}
  /\ task' = [task EXCEPT ![r] = "over"]
  /\ reply' = IF task[r] = "running" THEN [reply EXCEPT ![r] = "dropped"] ELSE reply
  /\ UNCHANGED <<serveVars, stopVars, rustVars, connVars>>

-----------------------------------------------------------------------------
Serve == StartServer \/ StopStores \/ StopNotifies \/ SeesFinished \/ Close \/ Join \/ HooksEnd

AcceptLoop == Notified \/ AllClosed \/ GraceOver \/ ThreadEnds

Connection(c) == Accept(c) \/ ReadHeaders(c) \/ GetsReply(c) \/ Written(c) \/ HearsShutdown(c)
                   \/ \E ok \in BOOLEAN : ReadBody(c, ok)

Task(r) == Take(r) \/ EndsStream(r) \/ TaskEnds(r) \/ TaskRaises(r)
             \/ \E kind \in {"whole", "stream"} : Answers(r, kind)

Next ==
  \/ Serve \/ AcceptLoop \/ StartupFails \/ AskStop \/ Cancelled
  \/ \E c \in Conn : Connection(c) \/ Connects(c) \/ ClientLeaves(c)
  \/ \E r \in Request : Task(r)

SafeSpec == Init /\ [][Next]_vars

\* Fairness: serve() and the Rust thread run.  Neither clients nor handlers
\* owe anything: the grace bounds them.
Spec == SafeSpec /\ WF_vars(Serve) /\ WF_vars(AcceptLoop)

-----------------------------------------------------------------------------
(* Properties.                                                             *)

\* Every variable keeps its type.
TypeOK ==
  /\ py \in {"startup", "serving", "storing", "draining", "closing", "joining", "hooks", "ended"}
  /\ rust \in {"none", "accepting", "draining", "finished", "ended"}
  /\ asked \in BOOLEAN /\ cancelled \in BOOLEAN /\ grace \in BOOLEAN
  /\ permit \in BOOLEAN /\ granted \in BOOLEAN /\ gaveUp \in BOOLEAN
  /\ conn \in [Conn -> {"new", "pending", "idle", "body", "wait", "write", "closed"}]
  /\ requests \in 0..MaxRequests /\ current \in [Conn -> 0..MaxRequests]
  /\ told \subseteq Conn /\ refused \subseteq Conn
  /\ deserted \subseteq Request /\ answered \subseteq Request
  /\ task \in [Request -> {"none", "queued", "running", "streaming", "after", "over"}]
  /\ reply \in [Request -> {"none", "whole", "stream", "dropped"}]

\* When the shutdown hooks run, every request that reached the app, from a
\* client that stayed, has its answer, unless the grace was over first
\* (docs/deployment.md: requests in progress get "up to 30 seconds to finish").
GracefulDrain ==
  py \in {"hooks", "ended"} /\ ~gaveUp =>
    \A r \in Request : task[r] # "none" /\ r \notin deserted =>
      r \in answered /\ task[r] \notin {"queued", "running", "streaming"}

\* A connection is given up on before its time only if serve() was cancelled:
\* the Rust thread never sees the notification of stop() without its grace.
GraceHonoured == gaveUp /\ ~cancelled => granted

\* Once asked to stop, or cancelled, serve() ends, whatever handlers and
\* clients do.
StopEnds == asked \/ cancelled ~> py = "ended"
=============================================================================
