----------------------------- MODULE TestClient -----------------------------
(***************************************************************************)
(* The test client: requests, streams, WebSockets and the lifespan of an   *)
(* ASGI app, run in the test's own process.                                *)
(*                                                                         *)
(*   src/korvex/testing.py  AsyncTestClient, _Call, _StreamContext,        *)
(*                          AsyncTestWebSocket, _Lifespan, _ErrorCatcher,  *)
(*                          TestClient                                     *)
(*                                                                         *)
(* A block is one use of the client: a request() call, a stream(), a       *)
(* websocket() or the client's own `with`.  Each runs the app in a task of *)
(* its own, which puts messages in a queue; the test waits for these, then *)
(* for the task.  With TestClient the loop runs during the test's calls    *)
(* only, one at a time; with AsyncTestClient blocks run side by side.  The *)
(* app is any ASGI app: it may send anything, log errors, raise, stall and *)
(* put a cancellation off.                                                 *)
(***************************************************************************)
EXTENDS Naturals, Sequences, FiniteSets

CONSTANTS Block,
          Setup,          \* what a test uses: kinds of blocks and options
          MaxRedirects    \* _MAX_REDIRECTS

ASSUME TestClientAssumption ==
  /\ MaxRedirects \in Nat
  /\ \A s \in Setup :
       /\ s.kind \in [Block -> {"request", "stream", "websocket", "lifespan", "unused"}]
       /\ s.maxSends \in Nat   \* bound on the messages of one task
       /\ s.sync \in BOOLEAN /\ s.enabled \in BOOLEAN /\ s.secure \in BOOLEAN
       /\ s.replies \subseteq [cookie : {"keep", "secret", "plain", "expired"}, to : {"none", "http", "https"}]

VARIABLES setup,      \* TestClient or not (sync), raise_server_errors (enabled), https
          pc,         \* where the test is in each block
          entered,    \* __aenter__ has returned
          raising,    \* the exception that waits for finish() or _end()
          outcome,    \* what the block was left with
          told,       \* the exceptions raised in the test (not in the code)
          complete,   \* _Call.complete; _closed of a WebSocket
          gone,       \* _gone
          catcher,    \* _ErrorCatcher._installed
          errors,     \* it has errors
          task,       \* the app's task
          cancelling, \* it was asked to stop
          queue,      \* what it sent, _DONE last
          sends,      \* messages it has sent
          logged,     \* it has logged an error (not in the code)
          reply,      \* the headers it answered with
          hops,       \* redirects followed
          secure,     \* the scheme of the request is https
          sent,       \* the cookie sent with it
          jar,        \* cookies and _secure, for one name
          loop        \* of a TestClient: "open", "closing", "closed"

\* What each block is: request(), stream(), websocket() or the lifespan
kind == setup.kind

\* The test uses TestClient, not AsyncTestClient.
sync == setup.sync

test == <<pc, entered, raising, outcome, told, complete, gone>>
caught == <<catcher, errors>>
app == <<task, cancelling, queue, sends, logged, reply>>
cookies == <<hops, secure, sent, jar>>
vars == <<setup, test, caught, app, cookies, loop>>

\* Per block
All(value) == [b \in Block |-> value]

Init ==
  /\ setup \in Setup
  /\ pc = All("out") /\ entered = All(FALSE) /\ raising = All("none")
  /\ outcome = All("none") /\ told = All({})
  /\ complete = All(FALSE) /\ gone = All(FALSE)
  /\ catcher = All(FALSE) /\ errors = All(FALSE)
  /\ task = All("none") /\ cancelling = All(FALSE) /\ queue = All(<<>>)
  /\ sends = All(0) /\ logged = All(FALSE)
  /\ reply = All([cookie |-> "keep", to |-> "none"])
  /\ hops = All(0) /\ secure = All(setup.secure) /\ sent = All("none")
  /\ jar = [value |-> "none", secure |-> FALSE] /\ loop = "open"

Over(b) == task[b] \in {"ended", "raised", "cancelled"}

InNext(b) == pc[b] \in {"starting", "reading", "stopping"}
Waiting(b) == InNext(b) \/ pc[b] \in {"finishing", "closing"}

\* The test can make a call: a TestClient's are one at a time.
Free == loop = "open" /\ (sync => \A b \in Block : ~Waiting(b))

\* The loop runs: a TestClient's during its calls
LoopRuns == loop # "closed" /\ (sync => loop = "closing" \/ \E b \in Block : Waiting(b))

-----------------------------------------------------------------------------
(* Entering a block.                                                       *)

\* The cookie that _scope() sends: a secure one over https only
Sendable(cookie, overHttps) == IF overHttps \/ ~cookie.secure THEN cookie.value ELSE "none"

\* The app's task starts, with a queue of its own.
Start(b) ==
  /\ pc' = [pc EXCEPT ![b] = "starting"]
  /\ task' = [task EXCEPT ![b] = "running"]
  /\ cancelling' = [cancelling EXCEPT ![b] = FALSE]
  /\ queue' = [queue EXCEPT ![b] = <<>>]
  /\ sends' = [sends EXCEPT ![b] = 0]
  /\ complete' = [complete EXCEPT ![b] = FALSE]
  /\ gone' = [gone EXCEPT ![b] = FALSE]

\* request(), __aenter__ of a stream, a WebSocket or the client
Enter(b) ==
  /\ Free /\ pc[b] = "out" /\ kind[b] # "unused"
  /\ Start(b)
  /\ catcher' = [catcher EXCEPT ![b] = setup.enabled /\ kind[b] # "lifespan"]
  /\ sent' = [sent EXCEPT ![b] = IF kind[b] = "lifespan" THEN "none" ELSE Sendable(jar, secure[b])]
  /\ UNCHANGED <<setup, entered, raising, outcome, told, errors, logged, reply, hops, secure, jar, loop>>

-----------------------------------------------------------------------------
(* The app: its task, its messages, its log.                               *)

Messages(b) ==
  CASE kind[b] = "websocket" -> {"accept", "send", "close"}
    [] kind[b] = "lifespan" -> {"complete", "failed"}
    [] OTHER -> {"start", "more", "last"}

\* send(): a WebSocket's raises once the client is gone.
AppSend(b, message) ==
  /\ LoopRuns /\ task[b] = "running" /\ sends[b] < setup.maxSends
  /\ kind[b] = "websocket" => ~gone[b]
  /\ queue' = [queue EXCEPT ![b] = Append(@, message)]
  /\ sends' = [sends EXCEPT ![b] = @ + 1]
  /\ \E r \in IF message = "start" THEN setup.replies ELSE {reply[b]} : reply' = [reply EXCEPT ![b] = r]
  /\ UNCHANGED <<setup, test, caught, task, cancelling, logged, cookies, loop>>

\* The app logs an error as unhandled: every catcher installed gets it.
AppLog(b) ==
  /\ LoopRuns /\ task[b] = "running" /\ ~logged[b]
  /\ logged' = [logged EXCEPT ![b] = TRUE]
  /\ errors' = [c \in Block |-> errors[c] \/ catcher[c]]
  /\ UNCHANGED <<setup, test, catcher, task, cancelling, queue, sends, reply, cookies, loop>>

\* The task ends, raises, or gives in to a cancellation; its done callback
\* puts _DONE.
AppOver(b, how) ==
  /\ LoopRuns /\ task[b] = "running"
  /\ how = "cancelled" => cancelling[b]
  /\ task' = [task EXCEPT ![b] = how]
  /\ queue' = [queue EXCEPT ![b] = Append(@, "done")]
  /\ UNCHANGED <<setup, test, caught, cancelling, sends, logged, reply, cookies, loop>>

-----------------------------------------------------------------------------
(* Waiting for the app's messages.                                         *)

Http(b) == kind[b] \in {"request", "stream"}

\* The messages that start(), next_chunk(), receive(), __aenter__ and the
\* lifespan's startup() and shutdown() take; the others raise.
Expected(b) ==
  CASE Http(b) -> IF pc[b] = "starting" THEN {"start"} ELSE {"more", "last"}
    [] kind[b] = "websocket" -> IF pc[b] = "starting" THEN {"accept"} ELSE {"send"}
    [] kind[b] = "lifespan" -> {"complete", "done"}

\* The exception for a message that is not expected
Problem(b, message) ==
  CASE message = "done" /\ task[b] = "raised" -> "raised"
    [] message \in {"done", "close"} /\ kind[b] = "websocket" -> "disconnect"
    [] OTHER -> "protocol"

\* finish() cancels an app that has not sent everything; the waits of a
\* WebSocket and of the lifespan do not.
Cancels(b) == Http(b) /\ ~complete[b] /\ task[b] = "running"

\* The test goes on to wait for the task, with an exception to raise then, if any.
Finish(b, exception) ==
  /\ pc' = [pc EXCEPT ![b] = "finishing"]
  /\ raising' = [raising EXCEPT ![b] = exception]

\* _next() returned what is expected.
Proceed(b, message) ==
  /\ complete' = [complete EXCEPT ![b] = @ \/ message = "last"]
  /\ gone' = [gone EXCEPT ![b] = @ \/ (kind[b] = "request" /\ message = "last")]
  /\ IF pc[b] = "stopping" \/ (kind[b] = "request" /\ message = "last")
     THEN Finish(b, "none") /\ UNCHANGED entered
     ELSE /\ pc' = [pc EXCEPT ![b] = IF kind[b] = "request" THEN "reading" ELSE "open"]
          /\ entered' = [entered EXCEPT ![b] = TRUE]
          /\ UNCHANGED raising
  /\ UNCHANGED <<outcome, told, cancelling>>

\* It raised: inside its block the test gets the exception and may go on;
\* a request, or a block that is not entered yet, waits for the task first,
\* and a lifespan that took too long does not.
Fail(b, exception) ==
  /\ told' = [told EXCEPT ![b] = @ \union {exception}]
  /\ complete' = [complete EXCEPT ![b] = @ \/ exception = "disconnect"]
  /\ IF kind[b] \in {"stream", "websocket"} /\ entered[b]
     THEN pc' = [pc EXCEPT ![b] = "open"] /\ UNCHANGED <<raising, outcome, gone, cancelling>>
     ELSE IF kind[b] = "lifespan" /\ exception = "timeout"
     THEN /\ pc' = [pc EXCEPT ![b] = "left"] /\ outcome' = [outcome EXCEPT ![b] = exception]
          /\ UNCHANGED <<raising, gone, cancelling>>
     ELSE /\ Finish(b, exception)
          /\ gone' = [gone EXCEPT ![b] = Http(b)]
          /\ cancelling' = [cancelling EXCEPT ![b] = @ \/ Cancels(b)]
          /\ UNCHANGED outcome
  /\ UNCHANGED entered

\* Mutant of Left: _DONE is taken from a WebSocket's queue as well.
LeftTaken(b, message) == Tail(queue[b])

\* What is in the queue after _next(): a WebSocket's puts _DONE back.
Left(b, message) ==
  Tail(queue[b]) \o (IF message = "done" /\ kind[b] = "websocket" THEN <<"done">> ELSE <<>>)

\* Mutant of Kept: a cookie that is replaced keeps its flag.
KeptFlag(b) ==
  CASE reply[b].cookie = "keep" -> jar
    [] reply[b].cookie = "expired" -> [value |-> "none", secure |-> FALSE]
    [] OTHER -> [value |-> reply[b].cookie,
                 secure |-> IF jar.value = "none" THEN reply[b].cookie = "secret" ELSE jar.secure]

\* _keep_cookies(): a cookie replaces the one before, its flag included.
Kept(b) ==
  CASE reply[b].cookie = "keep" -> jar
    [] reply[b].cookie = "expired" -> [value |-> "none", secure |-> FALSE]
    [] OTHER -> [value |-> reply[b].cookie, secure |-> reply[b].cookie = "secret"]

\* _next() takes a message.  A WebSocket's receive() then raises what was logged,
\* whatever came.
Receive(b) ==
  LET message == Head(queue[b])
      checked == kind[b] = "websocket" /\ pc[b] = "reading" /\ message # "done" /\ errors[b]
  IN /\ LoopRuns /\ InNext(b) /\ queue[b] # <<>>
     /\ queue' = [queue EXCEPT ![b] = Left(b, message)]
     /\ errors' = [errors EXCEPT ![b] = @ /\ ~checked]
     /\ IF checked THEN Fail(b, "logged")
        ELSE IF message \in Expected(b) THEN Proceed(b, message) ELSE Fail(b, Problem(b, message))
     /\ jar' = IF kind[b] = "stream" /\ pc[b] = "starting" /\ message = "start" THEN Kept(b) ELSE jar
     /\ UNCHANGED <<setup, catcher, task, sends, logged, reply, hops, secure, sent, loop>>

\* wait_for() gives up on the queue.
NextTimeout(b) ==
  /\ LoopRuns /\ InNext(b) /\ queue[b] = <<>>
  /\ Fail(b, "timeout")
  /\ UNCHANGED <<setup, caught, task, queue, sends, logged, reply, cookies, loop>>

-----------------------------------------------------------------------------
(* What the test does inside a block, and leaving it.                      *)

\* aiter_bytes() up to the end of the body, or receive()
Read(b) ==
  /\ Free /\ pc[b] = "open" /\ kind[b] \in {"stream", "websocket"} /\ ~complete[b]
  /\ pc' = [pc EXCEPT ![b] = "reading"]
  /\ UNCHANGED <<setup, entered, raising, outcome, told, complete, gone, caught, app, cookies, loop>>

\* close() of a WebSocket: the app is told, unless it has closed.
Disconnect(b) ==
  /\ complete' = [complete EXCEPT ![b] = TRUE]
  /\ gone' = [gone EXCEPT ![b] = @ \/ ~complete[b]]
  /\ UNCHANGED cancelling

\* The test calls it itself.
Close(b) ==
  /\ Free /\ pc[b] = "open" /\ kind[b] = "websocket"
  /\ pc' = [pc EXCEPT ![b] = "closing"]
  /\ Disconnect(b)
  /\ UNCHANGED <<setup, entered, raising, outcome, told, caught, task, queue, sends, logged, reply,
                 cookies, loop>>

\* __aexit__, with the test's exception or none.  A lifespan that the app does
\* not take has no task to stop.
Leave(b, exception) ==
  /\ Free /\ pc[b] = "open"
  /\ CASE kind[b] = "websocket" -> Finish(b, exception) /\ Disconnect(b)
       [] kind[b] = "stream" ->
            /\ Finish(b, exception)
            /\ gone' = [gone EXCEPT ![b] = TRUE]
            /\ cancelling' = [cancelling EXCEPT ![b] = @ \/ Cancels(b)]
            /\ UNCHANGED complete
       [] kind[b] = "lifespan" ->
            /\ pc' = [pc EXCEPT ![b] = IF Over(b) /\ queue[b] = <<>> THEN "left" ELSE "stopping"]
            /\ UNCHANGED <<raising, complete, gone, cancelling>>
  /\ UNCHANGED <<setup, entered, outcome, told, caught, task, queue, sends, logged, reply, cookies, loop>>

-----------------------------------------------------------------------------
(* Waiting for the app's task.                                             *)

\* Mutant of Joined: a task that has sent everything is not waited for.
JoinedSent(b) == Over(b) \/ complete[b]

\* The shielded wait for the task is over.
Joined(b) == Over(b)

\* What awaiting the task raises: finish() takes a cancellation for granted,
\* _end() does not, and the lifespan's _wait() suppresses everything.
TaskRaises(b) ==
  CASE kind[b] = "lifespan" -> "none"
    [] task[b] = "raised" /\ kind[b] # "lifespan" -> "raised"
    [] task[b] = "cancelled" /\ kind[b] = "websocket" -> "cancelled"
    [] OTHER -> "none"

\* Mutant of Result: nobody looks at what was logged.
ResultUnchecked(b) == IF TaskRaises(b) # "none" THEN TaskRaises(b) ELSE raising[b]

\* What the block is left with: the task's exception before the one that
\* waited, before a logged one
Result(b) ==
  CASE TaskRaises(b) # "none" -> TaskRaises(b)
    [] TaskRaises(b) = "none" /\ raising[b] # "none" -> raising[b]
    [] OTHER -> IF errors[b] THEN "logged" ELSE "none"

\* Mutant of Uninstalled: __aexit__ without its finally.
UninstalledAtEnd(b, exception) == exception = "none"

\* Whether the catcher is removed when the wait ends with an exception: not if
\* it was __aenter__ of a stream or a WebSocket that waited
Uninstalled(b, exception) == exception = "none" \/ kind[b] = "request" \/ entered[b]

LeaveWith(b, exception, own) ==
  /\ pc' = [pc EXCEPT ![b] = "left"]
  /\ outcome' = [outcome EXCEPT ![b] = exception]
  /\ told' = [told EXCEPT ![b] = @ \union ({exception} \ {"none"})]
  /\ catcher' = [catcher EXCEPT ![b] = @ /\ ~Uninstalled(b, own)]

\* The task is over: a stream, a WebSocket or the lifespan ends.
Finished(b) ==
  /\ LoopRuns /\ pc[b] = "finishing" /\ kind[b] # "request" /\ Joined(b)
  /\ LeaveWith(b, Result(b), TaskRaises(b))
  /\ UNCHANGED <<setup, entered, raising, complete, gone, errors, app, cookies, loop>>

\* close() returns to the test, or raises there.
Closed(b) ==
  /\ LoopRuns /\ pc[b] = "closing" /\ Joined(b)
  /\ pc' = [pc EXCEPT ![b] = "open"]
  /\ told' = [told EXCEPT ![b] = @ \union ({TaskRaises(b)} \ {"none"})]
  /\ UNCHANGED <<setup, entered, raising, outcome, complete, gone, caught, app, cookies, loop>>

\* request(): an exception, the response, or the next request of a redirect
Responded(b) ==
  LET to == reply[b].to
      https == to = "https"
      answered == Result(b) = "none"
  IN /\ LoopRuns /\ pc[b] = "finishing" /\ kind[b] = "request" /\ Joined(b)
     /\ jar' = IF answered THEN Kept(b) ELSE jar
     /\ IF answered /\ to # "none" /\ hops[b] < MaxRedirects
        THEN /\ Start(b)
             /\ hops' = [hops EXCEPT ![b] = @ + 1]
             /\ secure' = [secure EXCEPT ![b] = https]
             /\ sent' = [sent EXCEPT ![b] = Sendable(Kept(b), https)]
             /\ entered' = [entered EXCEPT ![b] = FALSE]
             /\ UNCHANGED <<outcome, told, catcher>>
        ELSE /\ LeaveWith(b, IF answered /\ to # "none" THEN "protocol" ELSE Result(b), TaskRaises(b))
             /\ UNCHANGED <<entered, complete, gone, task, cancelling, queue, sends, hops, secure, sent>>
     /\ UNCHANGED <<setup, raising, errors, logged, reply, loop>>

\* wait_for() gives up on the task, and cancels it.  The lifespan's wait, which
\* has no shield, goes on until the task has ended.
FinishTimeout(b) ==
  /\ LoopRuns /\ pc[b] \in {"finishing", "closing"} /\ task[b] = "running"
  /\ kind[b] = "lifespan" => ~cancelling[b]
  /\ cancelling' = [cancelling EXCEPT ![b] = TRUE]
  /\ CASE kind[b] = "lifespan" -> UNCHANGED <<pc, outcome, told, catcher>>
       [] pc[b] = "closing" ->
            /\ pc' = [pc EXCEPT ![b] = "open"] /\ told' = [told EXCEPT ![b] = @ \union {"timeout"}]
            /\ UNCHANGED <<outcome, catcher>>
       [] OTHER -> LeaveWith(b, "timeout", "timeout")
  /\ UNCHANGED <<setup, entered, raising, complete, gone, errors, task, queue, sends, logged, reply,
                 cookies, loop>>

\* TestClient.close(): what still runs on the loop is cancelled, and waited for.
CloseLoop ==
  /\ sync /\ Free
  /\ loop' = "closing"
  /\ cancelling' = [b \in Block |-> cancelling[b] \/ task[b] = "running"]
  /\ UNCHANGED <<setup, test, caught, task, queue, sends, logged, reply, cookies>>

LoopClosed ==
  /\ loop = "closing" /\ \A b \in Block : task[b] # "running"
  /\ loop' = "closed"
  /\ UNCHANGED <<setup, test, caught, app, cookies>>

Next ==
  \/ \E b \in Block :
       \/ Enter(b) \/ Receive(b) \/ NextTimeout(b) \/ Read(b) \/ Close(b)
       \/ \E exception \in {"none", "test"} : Leave(b, exception)
       \/ Finished(b) \/ Closed(b) \/ Responded(b) \/ FinishTimeout(b)
       \/ \E message \in Messages(b) : AppSend(b, message)
       \/ AppLog(b)
       \/ \E how \in {"ended", "raised", "cancelled"} : AppOver(b, how)
  \/ CloseLoop \/ LoopClosed

Spec == Init /\ [][Next]_vars

-----------------------------------------------------------------------------
(* Properties.                                                             *)

\* Nothing of the app runs on after a block was left, whatever the app sent,
\* raised or put off, unless the test was told so by a TimeoutError; and
\* nothing at all once a TestClient is closed.
NothingRuns ==
  /\ \A b \in Block : pc[b] = "left" /\ outcome[b] # "timeout" => task[b] # "running"
  /\ loop = "closed" => \A b \in Block : task[b] # "running"

\* An error that the app logged as unhandled is raised in the test itself (or
\* the first one, if blocks side by side logged several), also if it came from
\* a teardown after the response, or while the block was being left ("is
\* raised in the test, with its traceback").  Two cases are excepted, where the
\* catcher is not looked at: the block ends with another exception, whether the
\* test expects that one or not (the task's own, a TimeoutError, what the test
\* raised...); and the app closes a WebSocket, or ends, before it accepts, so
\* that __aenter__ raises WebSocketDisconnect.
ErrorsSurface ==
  \A b \in Block :
    setup.enabled /\ logged[b] /\ pc[b] = "left" /\ kind[b] # "lifespan" =>
      \/ "logged" \in told[b]
      \/ outcome[b] \in {"test", "timeout", "raised", "cancelled", "protocol"}
      \/ outcome[b] = "disconnect" /\ kind[b] = "websocket" /\ ~entered[b]

\* No catcher stays on the logger, where it would collect other tests' errors,
\* once its block was left: except the one of a stream or a WebSocket whose
\* __aenter__ failed and then the wait for its task failed too.
LoggerClean ==
  \A b \in Block : catcher[b] /\ pc[b] = "left" =>
    ~entered[b] /\ kind[b] # "request" /\ outcome[b] \in {"timeout", "raised", "cancelled"}

\* The test never waits for a message of a task that is over, with nothing in
\* the queue to tell it so: except a stream read again after its end.
NoDeafWait ==
  \A b \in Block : InNext(b) /\ Over(b) /\ queue[b] = <<>> => kind[b] = "stream" /\ told[b] # {}

\* A cookie set with Secure is not sent over http, whichever responses and
\* redirects, of whichever blocks, set, replaced or deleted it.
SecureStays == \A b \in Block : ~secure[b] => sent[b] # "secret"
=============================================================================
