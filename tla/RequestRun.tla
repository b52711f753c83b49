----------------------------- MODULE RequestRun -----------------------------
(***************************************************************************)
(* One request, or one WebSocket, through the app: hooks, dependencies,    *)
(* handler, teardown, answer.                                              *)
(*                                                                         *)
(*   src/korvex/_app.py     _respond, _dispatch, _handle_error, _websocket *)
(*                          _websocket_hooks_allow, _finish                *)
(*   src/korvex/_schema.py  Plan.bind, Run.resolve, Run.close              *)
(*   src/korvex/_serve.py   _serve_http                                    *)
(*                                                                         *)
(* Every hook, dependency and handler is the app's own code: it may return *)
(* or raise, and be cancelled where it awaits.  bind() and resolve() call  *)
(* each other down the plan of dependencies; `stack` holds their frames.   *)
(* An exception is known by how the code tells it apart: "invalid" is a    *)
(* ValidationError, "error" any other Exception, "base" what `except       *)
(* Exception` lets through, a cancellation above all.                      *)
(***************************************************************************)
EXTENDS Naturals, Sequences, SequencesExt

CONSTANTS Func,         \* the dependencies' functions
          Handler,      \* stands for the route's handler
          Plans,        \* the plans a route may have: what each function needs
          Yields,       \* the dependencies that are generators
          Picky,        \* functions whose own parameters may not validate
          BeforeHooks, AfterHooks

Need == [func : Func, cache : BOOLEAN]

ASSUME RequestRunAssumption ==
  /\ Handler \notin Func
  /\ \A p \in Plans : DOMAIN p = Func \union {Handler} /\ \A f \in DOMAIN p : p[f] \in Seq(Need)
  /\ Yields \subseteq Func /\ Picky \subseteq Func \union {Handler}
  /\ BeforeHooks \in Nat /\ AfterHooks \in Nat

VARIABLES req,        \* what was asked: kind, HEAD, a status decided by Rust, plan
          pc,         \* where its task is
          hook,       \* hooks of the current list that ran
          stack,      \* frames of bind() and resolve(), the handler's plan first
          values,     \* Run.values: cached functions with a value
          started,    \* generators started, in order
          teardowns,  \* Run.teardowns, each generator as its place in `started`
          closing,    \* what Run.close() has still to tear down, next first
          then,       \* who called Run.close()
          raised,     \* the exception on its way, or "none"
          failed,     \* the route's functions, or their teardown, raised
          broken,     \* the exception that leaves a stream being sent, or "none"
          slip,       \* the way the code lost a run it should have closed, if it did
          torn,       \* what was torn down, and how
          response,   \* the response so far
          answer      \* what Python gave the responder

runVars == <<values, started, teardowns>>
closeVars == <<closing, then, torn>>
vars == <<req, pc, hook, stack, runVars, closeVars, raised, failed, broken, slip, response, answer>>

Slip == {"none",
         "after_hook",  \* an after hook fails on a stream's response
         "after_cancel",\* ... or is cancelled there
         "ws_cancel",   \* a WebSocket's task is cancelled
         "headers",     \* a header that latin-1 cannot encode
         "aclose"}      \* a generator that yielded again fails to close

NoResponse == [stream |-> FALSE, owns |-> FALSE, of |-> "none"]
Response(stream, of) == [stream |-> stream, owns |-> FALSE, of |-> of]

Frame(f) == [func |-> f, next |-> 1, bad |-> FALSE]
Top == stack[Len(stack)]
Below == stack[Len(stack) - 1]
Needs(f) == req.plan[f]

Init ==
  /\ req \in [kind : {"http", "ws"}, head : BOOLEAN, error : BOOLEAN, plan : Plans]
  /\ req.kind = "ws" => ~req.head /\ ~req.error
  /\ pc = "before" /\ hook = 0 /\ stack = <<>>
  /\ values = {} /\ started = <<>> /\ teardowns = <<>>
  /\ closing = <<>> /\ then = "dispatch" /\ torn = <<>>
  /\ raised = "none" /\ failed = FALSE /\ broken = "none" /\ slip = "none"
  /\ response = NoResponse /\ answer = "none"

-----------------------------------------------------------------------------
(* Before hooks and routing.                                               *)

BeforePasses ==
  /\ pc = "before" /\ hook < BeforeHooks
  /\ hook' = hook + 1
  /\ UNCHANGED <<req, pc, stack, runVars, closeVars, raised, failed, broken, slip, response, answer>>

\* A hook answers: the route is not run.  A WebSocket is refused.
BeforeAnswers(stream) ==
  /\ pc = "before" /\ hook < BeforeHooks
  /\ pc' = IF req.kind = "http" THEN "after" ELSE "done"
  /\ hook' = 0
  /\ response' = IF req.kind = "http" THEN Response(stream, "hook") ELSE NoResponse
  /\ UNCHANGED <<req, stack, runVars, closeVars, raised, failed, broken, slip, answer>>

\* An exception before there is a run: an error to answer, or a refusal.
RaisesEarly(e) ==
  /\ raised' = e
  /\ pc' = IF req.kind = "http" /\ e # "base" THEN "error" ELSE "done"

\* A hook raises, or is cancelled.
BeforeRaises(e) ==
  /\ pc = "before" /\ hook < BeforeHooks
  /\ RaisesEarly(e)
  /\ UNCHANGED <<req, hook, stack, runVars, closeVars, failed, broken, slip, response, answer>>

\* The status Rust decided on (413, 408, 400), or no route: 404, 405.
NotRouted ==
  /\ pc = "before" /\ hook = BeforeHooks
  /\ RaisesEarly("error")
  /\ UNCHANGED <<req, hook, stack, runVars, closeVars, failed, broken, slip, response, answer>>

Routed ==
  /\ pc = "before" /\ hook = BeforeHooks /\ ~req.error
  /\ pc' = "bind"
  /\ stack' = <<Frame(Handler)>>
  /\ UNCHANGED <<req, hook, runVars, closeVars, raised, failed, broken, slip, response, answer>>

-----------------------------------------------------------------------------
(* Plan.bind and Run.resolve.                                              *)

\* A frame with one more of its needs resolved.
Resolved(frame, bad) ==
  [func |-> frame.func, next |-> frame.next + 1, bad |-> frame.bad \/ bad]

\* The frames below the top, its caller's need resolved.
Returned(bad) == [Front(stack) EXCEPT ![Len(stack) - 1] = Resolved(Below, bad)]

AllResolved == Top.next > Len(Needs(Top.func))

\* resolve(): the value on record, or the dependency's own bind() first.
Resolve ==
  /\ pc = "bind" /\ ~AllResolved
  /\ LET need == Needs(Top.func)[Top.next] IN
     stack' = IF need.cache /\ need.func \in values
              THEN [stack EXCEPT ![Len(stack)] = Resolved(Top, FALSE)]
              ELSE Append(stack, Frame(need.func))
  /\ UNCHANGED <<req, pc, hook, runVars, closeVars, raised, failed, broken, slip, response, answer>>

\* Mutant of StartClose: first first.
StartCloseForwards(who) ==
  /\ pc' = "close"
  /\ closing' = teardowns
  /\ teardowns' = <<>>
  /\ then' = who

\* Run.close(): takes the list, to go through it last first.
StartClose(who) ==
  /\ pc' = "close"
  /\ closing' = Reverse(teardowns)
  /\ teardowns' = <<>>
  /\ then' = who

\* An exception leaves bind() or the handler.  _dispatch() closes the run
\* whatever it is, _websocket() only for an Exception.
Fails(e) ==
  /\ raised' = e
  /\ failed' = TRUE
  /\ stack' = <<>>
  /\ \/ /\ req.kind = "http" \/ e # "base"
        /\ StartClose(IF req.kind = "http" THEN "dispatch" ELSE "ws")
        /\ UNCHANGED slip
     \/ /\ req.kind = "ws" /\ e = "base"
        /\ pc' = "done"
        /\ slip' = "ws_cancel"
        /\ UNCHANGED <<closing, teardowns, then>>
  /\ UNCHANGED <<req, hook, values, started, torn, broken, response, answer>>

\* A ValidationError, from the parameters of a function, from what it needs or
\* from the function itself: its caller notes it and goes on to the next need.
BindInvalid ==
  /\ pc = "bind" /\ AllResolved
  /\ Top.bad \/ Top.func \in Picky
  /\ IF Len(stack) = 1
     THEN Fails("invalid")
     ELSE /\ stack' = Returned(TRUE)
          /\ UNCHANGED <<req, pc, hook, runVars, closeVars, raised, failed, broken, slip, response, answer>>

\* The dependency is called; a generator runs to its yield.
CallDependency ==
  /\ pc = "bind" /\ AllResolved /\ ~Top.bad /\ Len(stack) > 1
  /\ started' = IF Top.func \in Yields THEN Append(started, Top.func) ELSE started
  /\ teardowns' = IF Top.func \in Yields THEN Append(teardowns, Len(started')) ELSE teardowns
  /\ values' = IF Needs(Below.func)[Below.next].cache THEN values \union {Top.func} ELSE values
  /\ stack' = Returned(FALSE)
  /\ UNCHANGED <<req, pc, hook, closeVars, raised, failed, broken, slip, response, answer>>

\* ... or it raises, does not yield, or is cancelled.
DependencyRaises(e) ==
  /\ pc = "bind" /\ AllResolved /\ ~Top.bad /\ Len(stack) > 1
  /\ Fails(e)

Bound ==
  /\ pc = "bind" /\ AllResolved /\ ~Top.bad /\ Len(stack) = 1
  /\ pc' = "call"
  /\ stack' = <<>>
  /\ UNCHANGED <<req, hook, runVars, closeVars, raised, failed, broken, slip, response, answer>>

-----------------------------------------------------------------------------
(* The handler.                                                            *)

HandlerRaises(e) ==
  /\ pc = "call"
  /\ Fails(e)

\* A whole response, or something that is none: the dependencies are torn down
\* at once.
HandlerReturns ==
  /\ pc = "call" /\ req.kind = "http"
  /\ response' \in {Response(FALSE, "route"), NoResponse}
  /\ StartClose("dispatch")
  /\ UNCHANGED <<req, hook, stack, values, started, torn, raised, failed, broken, slip, answer>>

\* Mutant of HandlerStreams: the dependencies do not wait for the stream.
HandlerStreamsCloses ==
  /\ pc = "call" /\ req.kind = "http"
  /\ response' = [Response(TRUE, "route") EXCEPT !.owns = (teardowns # <<>>)]
  /\ StartClose("dispatch")
  /\ UNCHANGED <<req, hook, stack, values, started, torn, raised, failed, broken, slip, answer>>

\* A stream: run.close() waits in the response's _on_close.
HandlerStreams ==
  /\ pc = "call" /\ req.kind = "http"
  /\ response' = [Response(TRUE, "route") EXCEPT !.owns = (teardowns # <<>>)]
  /\ pc' = "after"
  /\ hook' = 0
  /\ UNCHANGED <<req, stack, runVars, closeVars, raised, failed, broken, slip, answer>>

\* A WebSocket's handler is done with it.
WebSocketDone ==
  /\ pc = "call" /\ req.kind = "ws"
  /\ StartClose("ws")
  /\ UNCHANGED <<req, hook, stack, values, started, torn, raised, failed, broken, slip, response, answer>>

-----------------------------------------------------------------------------
(* Run.close.                                                              *)

\* What of the request has failed so far: the run, or only the stream
Failure == IF failed THEN "run" ELSE IF broken # "none" THEN "stream" ELSE "none"

\* One generator goes on from its yield, `raised` thrown there if there is one.
Torn == /\ torn' = Append(torn, [gen |-> Head(closing), thrown |-> raised # "none", failure |-> Failure])
        /\ closing' = Tail(closing)

\* Mutant of TeardownEnds: a generator that catches the error ends it.
TeardownEndsSwallows ==
  /\ pc = "close" /\ closing # <<>>
  /\ Torn
  /\ raised' = "none"
  /\ UNCHANGED <<req, pc, hook, stack, runVars, then, failed, broken, slip, response, answer>>

\* It ends, whether it caught the error or not: the error stays raised.
TeardownEnds ==
  /\ pc = "close" /\ closing # <<>>
  /\ Torn
  /\ UNCHANGED <<req, pc, hook, stack, runVars, then, raised, failed, broken, slip, response, answer>>

\* Mutant of TeardownRaises: the first failing teardown is the last one.
TeardownRaisesStops(e) ==
  /\ pc = "close" /\ closing # <<>>
  /\ torn' = Append(torn, [gen |-> Head(closing), thrown |-> raised # "none", failure |-> Failure])
  /\ closing' = <<>>
  /\ raised' = e
  /\ failed' = TRUE
  /\ UNCHANGED <<req, pc, hook, stack, runVars, then, broken, slip, response, answer>>

\* It raises another error, yields again or is cancelled: the others go on.
TeardownRaises(e) ==
  /\ pc = "close" /\ closing # <<>>
  /\ Torn
  /\ raised' = e
  /\ failed' = TRUE
  /\ UNCHANGED <<req, pc, hook, stack, runVars, then, broken, slip, response, answer>>

\* Closing a generator that yielded again raises, out of close().
AcloseRaises ==
  /\ pc = "close" /\ closing # <<>>
  /\ torn' = Append(torn, [gen |-> Head(closing), thrown |-> raised # "none", failure |-> Failure])
  /\ closing' = <<>>
  /\ raised' = "error"
  /\ failed' = TRUE
  /\ slip' = "aclose"
  /\ UNCHANGED <<req, pc, hook, stack, runVars, then, broken, response, answer>>

\* Mutant of DispatchEnds: what was raised is over with the teardown.
DispatchEndsQuietly ==
  /\ pc = "close" /\ closing = <<>> /\ then = "dispatch"
  /\ pc' = "after"
  /\ hook' = 0
  /\ response' = IF response.of = "none" THEN Response(FALSE, "route") ELSE response
  /\ raised' = "none"
  /\ UNCHANGED <<req, stack, runVars, closeVars, failed, broken, slip, answer>>

\* close() was called by _dispatch(): what was raised goes on, and what the
\* handler returned has to be a Response.
DispatchEnds ==
  /\ pc = "close" /\ closing = <<>> /\ then = "dispatch"
  /\ raised' = IF raised = "none" /\ response.of = "none" THEN "error" ELSE raised
  /\ failed' = (failed \/ raised' # "none")
  /\ pc' = CASE raised' = "none" -> "after"
             [] raised' = "base" -> "done"
             [] OTHER -> "error"
  /\ hook' = 0
  /\ response' = IF raised' = "none" THEN response ELSE NoResponse
  /\ UNCHANGED <<req, stack, runVars, closeVars, broken, slip, answer>>

\* ... by _finish(), for a stream that was replaced or sent: errors are logged,
\* and what left the stream goes on.
FinishEnds ==
  /\ pc = "close" /\ closing = <<>> /\ then \in {"replaced", "sent"}
  /\ pc' = IF then = "replaced" /\ raised # "base" THEN "after" ELSE "done"
  /\ raised' = IF raised = "base" THEN raised ELSE broken
  /\ UNCHANGED <<req, hook, stack, runVars, closeVars, failed, broken, slip, response, answer>>

\* ... by _websocket(): the connection is closed.
WebSocketEnds ==
  /\ pc = "close" /\ closing = <<>> /\ then = "ws"
  /\ pc' = "done"
  /\ UNCHANGED <<req, hook, stack, runVars, closeVars, raised, failed, broken, slip, response, answer>>

-----------------------------------------------------------------------------
(* Errors and after hooks.                                                 *)

\* _handle_error(): the response of an Abort, of the exception's handler, of
\* the exception itself, or a 500; one of them for whatever it is.
HandleError(stream) ==
  /\ pc = "error"
  /\ response' = Response(stream, "error")
  /\ raised' = "none"
  /\ pc' = "after"
  /\ hook' = 0
  /\ UNCHANGED <<req, stack, runVars, closeVars, failed, broken, slip, answer>>

\* The exception's handler is cancelled.
HandleErrorCancelled ==
  /\ pc = "error"
  /\ raised' = "base"
  /\ pc' = "done"
  /\ UNCHANGED <<req, hook, stack, runVars, closeVars, failed, broken, slip, response, answer>>

AfterKeeps ==
  /\ pc = "after" /\ hook < AfterHooks
  /\ hook' = hook + 1
  /\ UNCHANGED <<req, pc, stack, runVars, closeVars, raised, failed, broken, slip, response, answer>>

\* Another response: _finish() for a stream that will not be sent.
AfterReplaces(stream) ==
  /\ pc = "after" /\ hook < AfterHooks
  /\ hook' = hook + 1
  /\ response' = Response(stream, "hook")
  /\ IF response.owns THEN StartClose("replaced") ELSE UNCHANGED <<pc, closing, teardowns, then>>
  /\ UNCHANGED <<req, stack, values, started, torn, raised, failed, broken, slip, answer>>

\* A run that waited for the stream is nobody's any more.
LosesRun(how) == slip' = IF response.owns THEN how ELSE slip

\* A hook fails: a 500, and no further hook.
AfterRaises ==
  /\ pc = "after" /\ hook < AfterHooks
  /\ LosesRun("after_hook")
  /\ response' = Response(FALSE, "error")
  /\ pc' = "send"
  /\ UNCHANGED <<req, hook, stack, runVars, closeVars, raised, failed, broken, answer>>

AfterCancelled ==
  /\ pc = "after" /\ hook < AfterHooks
  /\ LosesRun("after_cancel")
  /\ raised' = "base"
  /\ pc' = "done"
  /\ UNCHANGED <<req, hook, stack, runVars, closeVars, failed, broken, response, answer>>

AfterDone ==
  /\ pc = "after" /\ hook = AfterHooks
  /\ pc' = "send"
  /\ UNCHANGED <<req, hook, stack, runVars, closeVars, raised, failed, broken, slip, response, answer>>

-----------------------------------------------------------------------------
(* _serve_http: the answer.                                                *)

\* _raw_headers() raises: Rust answers with a 500 of its own.
HeadersRaise ==
  /\ pc = "send"
  /\ raised' = "error"
  /\ slip' = "headers"
  /\ pc' = "done"
  /\ UNCHANGED <<req, hook, stack, runVars, closeVars, failed, broken, response, answer>>

\* A whole body, or the headers alone for HEAD; a stream that is not sent
\* for HEAD is finished all the same.
Respond ==
  /\ pc = "send" /\ (req.head \/ ~response.stream)
  /\ answer' = "whole"
  /\ IF response.owns
     THEN StartClose("sent")
     ELSE /\ pc' = "done"
          /\ UNCHANGED <<closing, teardowns, then>>
  /\ UNCHANGED <<req, hook, stack, values, started, torn, raised, failed, broken, slip, response>>

StartStream ==
  /\ pc = "send" /\ ~req.head /\ response.stream
  /\ answer' = "stream"
  /\ pc' = "stream"
  /\ UNCHANGED <<req, hook, stack, runVars, closeVars, raised, failed, broken, slip, response>>

\* end_stream(), and finally _finish(), if the stream has one
FinishStream ==
  /\ pc = "stream"
  /\ IF response.owns
     THEN StartClose("sent")
     ELSE /\ pc' = "done"
          /\ UNCHANGED <<closing, teardowns, then>>

\* The chunks are sent, or the client left.
StreamOver ==
  /\ FinishStream
  /\ UNCHANGED <<req, hook, stack, values, started, torn, raised, failed, broken, slip, response, answer>>

\* Producing a chunk fails or is cancelled, or waiting for the client is: the
\* finally runs _finish(), which tells Run.close() nothing of it.
StreamFails(e) ==
  /\ FinishStream
  /\ broken' = e
  /\ raised' = IF response.owns THEN raised ELSE e
  /\ UNCHANGED <<req, hook, stack, values, started, torn, failed, slip, response, answer>>

\* The task is over; a responder it did not use answers with a 500.
Over ==
  /\ pc = "done"
  /\ UNCHANGED vars

-----------------------------------------------------------------------------
Next ==
  \/ BeforePasses \/ NotRouted \/ Routed
  \/ Resolve \/ BindInvalid \/ CallDependency \/ Bound
  \/ HandlerReturns \/ HandlerStreams \/ WebSocketDone
  \/ TeardownEnds \/ AcloseRaises \/ DispatchEnds \/ FinishEnds \/ WebSocketEnds
  \/ HandleErrorCancelled \/ AfterKeeps \/ AfterRaises \/ AfterCancelled \/ AfterDone
  \/ HeadersRaise \/ Respond \/ StartStream \/ StreamOver \/ Over
  \/ \E s \in BOOLEAN : BeforeAnswers(s) \/ HandleError(s) \/ AfterReplaces(s)
  \/ \E e \in {"error", "base"} :
       BeforeRaises(e) \/ DependencyRaises(e) \/ HandlerRaises(e) \/ TeardownRaises(e) \/ StreamFails(e)

SafeSpec == Init /\ [][Next]_vars

-----------------------------------------------------------------------------
(* Properties.                                                             *)

Instance == 1..Len(started)
TornDown(i) == \E k \in 1..Len(torn) : torn[k].gen = i

FrameType == [func : Func \union {Handler}, next : Nat \ {0}, bad : BOOLEAN]
TornType == [gen : Nat \ {0}, thrown : BOOLEAN, failure : {"none", "stream", "run"}]
ResponseType == [stream : BOOLEAN, owns : BOOLEAN, of : {"none", "hook", "route", "error"}]

\* Every variable keeps its type.
TypeOK ==
  /\ req \in [kind : {"http", "ws"}, head : BOOLEAN, error : BOOLEAN, plan : Plans]
  /\ pc \in {"before", "bind", "call", "close", "error", "after", "send", "stream", "done"}
  /\ hook \in Nat
  /\ stack \in Seq(FrameType)
  /\ values \subseteq Func
  /\ started \in Seq(Yields)
  /\ teardowns \in Seq(Nat \ {0}) /\ closing \in Seq(Nat \ {0})
  /\ then \in {"dispatch", "replaced", "sent", "ws"}
  /\ raised \in {"none", "invalid", "error", "base"} /\ failed \in BOOLEAN
  /\ broken \in {"none", "error", "base"} /\ slip \in Slip
  /\ torn \in Seq(TornType) /\ response \in ResponseType
  /\ answer \in {"none", "whole", "stream"}

\* The dependencies that yielded are torn down last first, each once
\* (_schema.py, Run.close()): nobody's own dependency goes before it.
TornInReverse ==
  \A k, m \in 1..Len(torn) : k < m => torn[k].gen > torn[m].gen

\* Once a request is over, every dependency that yielded was torn down, but for
\* the ways `slip` names.
AllTornDown ==
  pc = "done" /\ slip = "none" => \A i \in Instance : TornDown(i)

\* No dependency is torn down under the handler that uses it, nor under a
\* stream (docs/dependencies.md: "the teardown waits until the stream is sent").
NoEarlyTeardown ==
  \/ pc \in {"bind", "call"}
  \/ pc \in {"after", "send", "stream"} /\ response.owns
  => torn = <<>>

\* A generator whose request has failed so far finds the error at its yield, and
\* does not go on as after a success (docs/dependencies.md: "An error from the
\* handler is raised at the `yield`"), even if another one swallowed it.  The
\* exception is a failure while the stream is sent: unless a teardown fails
\* too, its generators go on as after a success.
FailureThrown ==
  \A k \in 1..Len(torn) :
    torn[k].failure # "none" => torn[k].thrown \/ torn[k].failure = "stream"

\* The route's own response goes out only if neither it nor a teardown failed
\* (_schema.py, Run.close(): an error "isn't swallowed even if they catch it").
FailureAnswered ==
  pc \in {"after", "send", "stream"} /\ response.of = "route" => ~failed

-----------------------------------------------------------------------------
(* The inductive invariant.                                                *)

\* The run has not been closed: the handler or the stream may still need it.
Open ==
  \/ pc \in {"before", "bind", "call"}
  \/ pc \in {"after", "send", "stream"} /\ response.owns

\* Only the handler's plan is at the bottom of the stack.
StackShape ==
  /\ pc = "bind" => Len(stack) > 0
  /\ \A i \in 1..Len(stack) : i > 1 => stack[i].func \in Func

\* A response that owns its run is on its way out, or finished.
Owner ==
  response.owns =>
    \/ pc \in {"after", "send", "stream", "done"}
    \/ pc = "close" /\ then = "sent"

\* What replaces a response while its run is closed is not the route's.
Replacement ==
  pc = "close" /\ then = "replaced" => response.of # "route"

\* An open run has everything that was started, in order.
OpenRun ==
  Open =>
    /\ Len(teardowns) = Len(started)
    /\ \A i \in 1..Len(teardowns) : teardowns[i] = i
    /\ closing = <<>> /\ torn = <<>> /\ ~failed /\ slip = "none"
    /\ pc = "before" => started = <<>>

\* A run being closed has the rest of it, in reverse.
ClosingRun ==
  pc = "close" =>
    /\ \A i \in 1..Len(closing) : closing[i] = Len(closing) + 1 - i
    /\ slip = "none" => Len(torn) + Len(closing) = Len(started)
    /\ slip # "none" => closing = <<>>
    /\ failed => raised # "none"

ClosedRun ==
  ~Open /\ pc # "close" =>
    /\ closing = <<>>
    /\ slip = "none" => Len(torn) = Len(started)

TornExact ==
  /\ Len(torn) <= Len(started)
  /\ \A k \in 1..Len(torn) : torn[k].gen = Len(started) + 1 - k

IInv ==
  /\ TypeOK /\ StackShape /\ Owner /\ Replacement
  /\ OpenRun /\ ClosingRun /\ ClosedRun /\ TornExact
  /\ FailureThrown /\ FailureAnswered
=============================================================================
