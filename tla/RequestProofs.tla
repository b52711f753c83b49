--------------------------- MODULE RequestProofs ----------------------------
(***************************************************************************)
(* Proofs about a request.                                                 *)
(*                                                                         *)
(* RequestRun, for any plan of dependencies and any number of hooks: what  *)
(* was started is torn down, in reverse, once, with the error of the       *)
(* request, and not before the request is done with it.                    *)
(*                                                                         *)
(* AppRouting, for any declarations in any order: an index of names that   *)
(* is used is the one of now; a request belongs to the host that should    *)
(* own it; a document misses no route that answers; a link leads to its    *)
(* route.                                                                  *)
(*                                                                         *)
(* The two components share no variable: the first half is about Spec, the *)
(* second about RoutingSpec.                                               *)
(***************************************************************************)
EXTENDS RequestRun, AppRouting, FiniteSetTheorems, WellFoundedInduction, TLAPS

-----------------------------------------------------------------------------
(* Run.close(), the stack and the responses.                               *)

\* Reversing teardowns that are numbered 1..n leaves n..1.
LEMMA ReverseType ==
  ASSUME teardowns \in Seq(Nat \ {0})
  PROVE  /\ Reverse(teardowns) \in Seq(Nat \ {0})
         /\ Len(Reverse(teardowns)) = Len(teardowns)
         /\ \A i \in 1..Len(teardowns) : Reverse(teardowns)[i] = teardowns[Len(teardowns) + 1 - i]
<1>1. \A i \in 1..Len(teardowns) : teardowns[(Len(teardowns) - i) + 1] \in Nat \ {0}
  OBVIOUS
<1> QED
  BY <1>1 DEF Reverse

\* The frames of bind() keep their type: pushing one, and returning from one.
LEMMA FrameIsFrame ==
  ASSUME NEW f \in Func \union {Handler} PROVE Frame(f) \in FrameType
  BY DEF Frame, FrameType

\* bind() of a dependency pushes one frame.
LEMMA PushType ==
  ASSUME stack \in Seq(FrameType), NEW f \in Func
  PROVE  Append(stack, Frame(f)) \in Seq(FrameType)
  BY FrameIsFrame

\* A frame keeps its type when what it needed is there.
LEMMA ResolvedType ==
  ASSUME NEW fr \in FrameType, NEW b \in BOOLEAN
  PROVE  Resolved(fr, b) \in FrameType /\ Resolved(fr, b).func = fr.func
<1>1. fr.func \in Func \union {Handler} /\ fr.next + 1 \in Nat \ {0}
  BY DEF FrameType
<1>2. (fr.bad \/ b) \in BOOLEAN
  OBVIOUS
<1> QED
  BY <1>1, <1>2 DEF Resolved, FrameType

\* Resolving the top frame's need keeps the functions of the frames.
LEMMA TopResolved ==
  ASSUME stack \in Seq(FrameType), Len(stack) > 0, NEW b \in BOOLEAN
  PROVE  LET s == [stack EXCEPT ![Len(stack)] = Resolved(Top, b)] IN
         /\ s \in Seq(FrameType) /\ Len(s) = Len(stack)
         /\ \A i \in 1..Len(stack) : s[i].func = stack[i].func
<1>1. stack[Len(stack)] \in FrameType /\ Len(stack) \in 1..Len(stack)
  OBVIOUS
<1>2. Resolved(Top, b) \in FrameType /\ Resolved(Top, b).func = stack[Len(stack)].func
  BY <1>1, ResolvedType, Zenon DEF Top
<1> QED
  BY <1>1, <1>2

\* Returning to the frame below drops the top one and keeps the others' functions.
LEMMA ReturnedType ==
  ASSUME stack \in Seq(FrameType), Len(stack) > 1, NEW b \in BOOLEAN
  PROVE  /\ Returned(b) \in Seq(FrameType) /\ Len(Returned(b)) = Len(stack) - 1
         /\ \A i \in 1..Len(Returned(b)) : Returned(b)[i].func = stack[i].func
<1>1. /\ Front(stack) \in Seq(FrameType) /\ Len(Front(stack)) = Len(stack) - 1
      /\ \A i \in 1..(Len(stack) - 1) : Front(stack)[i] = stack[i]
  BY DEF Front
<1>2. /\ Resolved(Below, b) \in FrameType
      /\ Resolved(Below, b).func = stack[Len(stack) - 1].func
  BY ResolvedType DEF Below
<1> QED
  BY <1>1, <1>2 DEF Returned

\* A response of a handler, a hook or an error handler is one.
LEMMA ResponseIsResponse ==
  ASSUME NEW s \in BOOLEAN, NEW of \in {"none", "hook", "route", "error"}
  PROVE  Response(s, of) \in ResponseType /\ ~Response(s, of).owns /\ Response(s, of).of = of
  BY DEF Response, ResponseType

\* So is the absence of a response.
LEMMA NoResponseIsResponse ==
  NoResponse \in ResponseType /\ ~NoResponse.owns /\ NoResponse.of = "none"
  BY DEF NoResponse, ResponseType

\* What Run.close() notes of a generator that it tears down.
LEMMA TornIsTorn ==
  ASSUME closing \in Seq(Nat \ {0}), closing # <<>>
  PROVE  /\ [gen |-> Head(closing), thrown |-> raised # "none", failure |-> Failure] \in TornType
         /\ Tail(closing) \in Seq(Nat \ {0})
<1>1. Head(closing) \in Nat \ {0} /\ Tail(closing) \in Seq(Nat \ {0})
  OBVIOUS
<1>2. (raised # "none") \in BOOLEAN
  BY Zenon
<1>3. Failure \in {"none", "stream", "run"}
  BY DEF Failure
<1> QED
  BY <1>1, <1>2, <1>3, Zenon DEF TornType

\* What a frame of bind() needs next is a dependency.
LEMMA NeedIsNeed ==
  ASSUME TypeOK, Len(stack) > 0, ~AllResolved
  PROVE  Needs(Top.func)[Top.next] \in Need /\ Needs(Top.func)[Top.next].func \in Func
<1>1. Top \in FrameType
  BY DEF TypeOK, Top
<1>2. Top.func \in Func \union {Handler} /\ Top.next \in Nat \ {0}
  BY <1>1 DEF FrameType
<1>3. req.plan \in Plans
  BY DEF TypeOK
<1>4. Needs(Top.func) \in Seq(Need)
  BY <1>2, <1>3, RequestRunAssumption DEF Needs
<1>5. Top.next \in 1..Len(Needs(Top.func))
  BY <1>2, <1>4 DEF AllResolved
<1>6. Needs(Top.func)[Top.next] \in Need
  BY <1>4, <1>5
<1> QED
  BY <1>6 DEF Need

-----------------------------------------------------------------------------
(* The types.                                                              *)

\* Run.close() starts with its stack of generators reversed.
LEMMA StartCloseTypes ==
  ASSUME TypeOK, NEW who \in {"dispatch", "replaced", "sent", "ws"}, StartClose(who)
  PROVE  /\ pc' = "close" /\ then' = who
         /\ teardowns' \in Seq(Nat \ {0}) /\ closing' \in Seq(Nat \ {0})
  BY ReverseType DEF StartClose, TypeOK

\* Leaving bind() or the handler by an exception keeps the types.
LEMMA FailsTypes ==
  ASSUME TypeOK, NEW e \in {"invalid", "error", "base"}, Fails(e)
  PROVE  TypeOK'
<1>1. /\ pc' \in {"close", "done"} /\ then' \in {"dispatch", "replaced", "sent", "ws"}
      /\ teardowns' \in Seq(Nat \ {0}) /\ closing' \in Seq(Nat \ {0})
  <2>1. CASE req.kind = "http" /\ StartClose("dispatch")
    BY <2>1, StartCloseTypes
  <2>2. CASE req.kind # "http" /\ StartClose("ws")
    BY <2>2, StartCloseTypes
  <2>3. CASE pc' = "done" /\ UNCHANGED <<closing, teardowns, then>>
    BY <2>3 DEF TypeOK
  <2> QED
    BY <2>1, <2>2, <2>3 DEF Fails
<1>2. stack' \in Seq(FrameType) /\ failed' \in BOOLEAN /\ slip' \in Slip
  BY DEF Fails, TypeOK, Slip
<1>3. raised' \in {"none", "invalid", "error", "base"}
  BY DEF Fails
<1>4. UNCHANGED <<req, hook, values, started, torn, broken, response, answer>>
  BY DEF Fails
<1> QED
  BY <1>1, <1>2, <1>3, <1>4, Zenon DEF TypeOK

\* Every action keeps the types.
LEMMA NextTypeOK == IInv /\ [Next]_vars => TypeOK'
<1> SUFFICES ASSUME IInv, [Next]_vars PROVE TypeOK'
  OBVIOUS
<1>0. TypeOK /\ StackShape
  BY DEF IInv
<1> USE <1>0 DEF runVars, closeVars
<1>1. CASE BeforePasses \/ AfterKeeps \/ AfterDone
  BY <1>1 DEF BeforePasses, AfterKeeps, AfterDone, TypeOK
<1>2. ASSUME NEW s \in BOOLEAN, BeforeAnswers(s) PROVE TypeOK'
  BY <1>2, ResponseIsResponse, NoResponseIsResponse DEF BeforeAnswers, TypeOK
<1>3. CASE NotRouted \/ \E e \in {"error", "base"} : BeforeRaises(e)
  BY <1>3 DEF NotRouted, BeforeRaises, RaisesEarly, TypeOK
<1>4. CASE Routed
  <2>1. stack' \in Seq(FrameType)
    BY <1>4, FrameIsFrame DEF Routed
  <2> QED
    BY <1>4, <2>1 DEF Routed, TypeOK
<1>5. CASE Resolve
  <2>1. stack \in Seq(FrameType) /\ Len(stack) > 0
    BY <1>5 DEF Resolve, StackShape, TypeOK
  <2>2. stack' \in Seq(FrameType)
    <3>1. Append(stack, Frame(Needs(Top.func)[Top.next].func)) \in Seq(FrameType)
      BY <1>5, <2>1, NeedIsNeed, PushType DEF Resolve
    <3>2. [stack EXCEPT ![Len(stack)] = Resolved(Top, FALSE)] \in Seq(FrameType)
      BY <2>1, TopResolved, Zenon
    <3> QED
      BY <1>5, <3>1, <3>2, Zenon DEF Resolve
  <2> QED
    <3>1. UNCHANGED <<req, pc, hook, values, started, teardowns, torn, closing, then,
                      raised, failed, broken, slip, response, answer>>
      BY <1>5, Zenon DEF Resolve
    <3> QED
      BY <2>2, <3>1 DEF TypeOK
<1>6. CASE BindInvalid
  <2>1. CASE Len(stack) = 1
    BY <1>6, <2>1, FailsTypes DEF BindInvalid
  <2>2. CASE Len(stack) # 1
    <3>0. pc = "bind"
      BY <1>6, Zenon DEF BindInvalid
    <3>1. Len(stack) > 1
      <4>1. Len(stack) \in Nat /\ Len(stack) > 0
        BY <3>0 DEF StackShape, TypeOK
      <4>2. \A n \in Nat : n > 0 /\ n # 1 => n > 1
        OBVIOUS
      <4> QED
        BY <2>2, <4>1, <4>2, Zenon
    <3>2. Returned(TRUE) \in Seq(FrameType)
      BY <3>1, ReturnedType, Zenon DEF TypeOK
    <3> QED
      BY <1>6, <2>2, <3>2 DEF BindInvalid, TypeOK
  <2> QED
    BY <2>1, <2>2
<1>7. CASE CallDependency
  <2>1. Returned(FALSE) \in Seq(FrameType)
    BY <1>7, ReturnedType, Zenon DEF CallDependency, TypeOK
  <2>0. Len(stack) > 1
    BY <1>7, Zenon DEF CallDependency
  <2>2. Top.func \in Func
    BY <2>0 DEF StackShape, TypeOK, Top
  <2>3. started' \in Seq(Yields) /\ values' \subseteq Func
    BY <1>7, <2>2 DEF CallDependency, TypeOK
  <2>4. teardowns' \in Seq(Nat \ {0})
    <3>1. CASE Top.func \in Yields
      <4>1. Len(started') \in Nat \ {0}
        BY <1>7, <3>1 DEF CallDependency, TypeOK
      <4>2. teardowns' = Append(teardowns, Len(started'))
        BY <1>7, <3>1, Zenon DEF CallDependency
      <4> QED
        BY <4>1, <4>2 DEF TypeOK
    <3>2. CASE Top.func \notin Yields
      BY <1>7, <3>2 DEF CallDependency, TypeOK
    <3> QED
      BY <3>1, <3>2
  <2> QED
    <3>1. UNCHANGED <<req, pc, hook, torn, closing, then, raised, failed, broken, slip, response, answer>>
      BY <1>7, Zenon DEF CallDependency
    <3>2. stack' \in Seq(FrameType)
      BY <1>7, <2>1, Zenon DEF CallDependency
    <3> QED
      BY <2>3, <2>4, <3>1, <3>2 DEF TypeOK
<1>8. CASE \E e \in {"error", "base"} : DependencyRaises(e) \/ HandlerRaises(e)
  BY <1>8, FailsTypes DEF DependencyRaises, HandlerRaises
<1>9. CASE Bound
  BY <1>9 DEF Bound, TypeOK
<1>10. CASE HandlerReturns
  <2>1. response' \in ResponseType
    BY <1>10, ResponseIsResponse, NoResponseIsResponse DEF HandlerReturns
  <2> QED
    BY <1>10, <2>1, StartCloseTypes DEF HandlerReturns, TypeOK
<1>11. CASE HandlerStreams
  <2>1. response' \in ResponseType
    <3>1. (teardowns # <<>>) \in BOOLEAN
      BY Zenon
    <3> QED
      BY <1>11, <3>1 DEF HandlerStreams, Response, ResponseType
  <2> QED
    BY <1>11, <2>1 DEF HandlerStreams, TypeOK
<1>12. CASE WebSocketDone
  BY <1>12, StartCloseTypes DEF WebSocketDone, TypeOK
<1>13. CASE TeardownEnds \/ AcloseRaises \/ \E e \in {"error", "base"} : TeardownRaises(e)
  <2>1. closing # <<>> /\ closing \in Seq(Nat \ {0})
    BY <1>13 DEF TeardownEnds, TeardownRaises, AcloseRaises, TypeOK
  <2>2. torn' = Append(torn, [gen |-> Head(closing), thrown |-> raised # "none", failure |-> Failure])
    BY <1>13, Zenon DEF TeardownEnds, TeardownRaises, AcloseRaises, Torn
  <2>3. torn' \in Seq(TornType)
    BY <2>1, <2>2, TornIsTorn DEF TypeOK
  <2>4. closing' \in Seq(Nat \ {0})
    <3>1. closing' = Tail(closing) \/ closing' = <<>>
      BY <1>13, Zenon DEF TeardownEnds, TeardownRaises, AcloseRaises, Torn
    <3>2. Tail(closing) \in Seq(Nat \ {0}) /\ <<>> \in Seq(Nat \ {0})
      BY <2>1
    <3> QED
      BY <3>1, <3>2, Zenon
  <2>5. CASE TeardownEnds
    BY <2>3, <2>4, <2>5 DEF TeardownEnds, TypeOK
  <2>6. CASE AcloseRaises
    BY <2>3, <2>4, <2>6 DEF AcloseRaises, TypeOK, Slip
  <2>7. ASSUME NEW e \in {"error", "base"}, TeardownRaises(e) PROVE TypeOK'
    BY <2>3, <2>4, <2>7 DEF TeardownRaises, TypeOK
  <2> QED
    BY <1>13, <2>5, <2>6, <2>7
<1>14. CASE DispatchEnds
  <2>1. failed' \in BOOLEAN
    BY <1>14, Zenon DEF DispatchEnds
  <2>2. response' \in ResponseType
    BY <1>14, NoResponseIsResponse DEF DispatchEnds, TypeOK
  <2>3. raised' \in {"none", "invalid", "error", "base"} /\ pc' \in {"after", "done", "error"}
    BY <1>14 DEF DispatchEnds, TypeOK
  <2> QED
    BY <1>14, <2>1, <2>2, <2>3 DEF DispatchEnds, TypeOK
<1>15. CASE FinishEnds \/ WebSocketEnds \/ HandleErrorCancelled
  BY <1>15 DEF FinishEnds, WebSocketEnds, HandleErrorCancelled, TypeOK
<1>16. ASSUME NEW s \in BOOLEAN, HandleError(s) PROVE TypeOK'
  BY <1>16, ResponseIsResponse DEF HandleError, TypeOK
<1>17. ASSUME NEW s \in BOOLEAN, AfterReplaces(s) PROVE TypeOK'
  <2>1. /\ pc' \in {"after", "close"} /\ then' \in {"dispatch", "replaced", "sent", "ws"}
        /\ teardowns' \in Seq(Nat \ {0}) /\ closing' \in Seq(Nat \ {0})
    BY <1>17, StartCloseTypes DEF AfterReplaces, TypeOK
  <2> QED
    BY <1>17, <2>1, ResponseIsResponse DEF AfterReplaces, TypeOK
<1>18. CASE AfterRaises \/ AfterCancelled \/ HeadersRaise
  <2>1. slip' \in Slip
    BY <1>18 DEF AfterRaises, AfterCancelled, HeadersRaise, LosesRun, Slip, TypeOK
  <2>2. CASE AfterRaises
    <3>1. response' \in ResponseType /\ pc' = "send"
      BY <2>2, ResponseIsResponse DEF AfterRaises
    <3>2. UNCHANGED <<req, hook, stack, values, started, teardowns, torn, closing, then,
                      raised, failed, broken, answer>>
      BY <2>2, Zenon DEF AfterRaises
    <3> QED
      BY <2>1, <3>1, <3>2 DEF TypeOK
  <2>3. CASE AfterCancelled
    BY <2>1, <2>3 DEF AfterCancelled, TypeOK
  <2>4. CASE HeadersRaise
    BY <2>1, <2>4 DEF HeadersRaise, TypeOK
  <2> QED
    BY <1>18, <2>2, <2>3, <2>4
<1>19. CASE Respond \/ StreamOver \/ \E e \in {"error", "base"} : StreamFails(e)
  <2>1. /\ pc' \in {"done", "close"} /\ then' \in {"dispatch", "replaced", "sent", "ws"}
        /\ teardowns' \in Seq(Nat \ {0}) /\ closing' \in Seq(Nat \ {0})
    BY <1>19, StartCloseTypes DEF Respond, StreamOver, StreamFails, FinishStream, TypeOK
  <2>2. CASE Respond \/ StreamOver
    BY <2>1, <2>2 DEF Respond, StreamOver, TypeOK
  <2>3. ASSUME NEW e \in {"error", "base"}, StreamFails(e) PROVE TypeOK'
    BY <2>1, <2>3 DEF StreamFails, TypeOK
  <2> QED
    BY <1>19, <2>2, <2>3
<1>20. CASE StartStream
  BY <1>20 DEF StartStream, TypeOK
<1>21. CASE UNCHANGED vars
  BY <1>21 DEF vars, TypeOK
<1> QED
  BY <1>1, <1>2, <1>3, <1>4, <1>5, <1>6, <1>7, <1>8, <1>9, <1>10, <1>11, <1>12, <1>13,
     <1>14, <1>15, <1>16, <1>17, <1>18, <1>19, <1>20, <1>21 DEF Next, Over

-----------------------------------------------------------------------------
(* The run: open, being closed, closed.                                    *)

RunInv == OpenRun /\ ClosingRun /\ ClosedRun /\ TornExact /\ FailureThrown

ClosedVars == <<started, teardowns, closing, torn, failed>>

\* A step that neither starts, closes nor ends the use of a run, but may note
\* that one is lost.
LEMMA RunStays ==
  ASSUME IInv, UNCHANGED ClosedVars, pc # "close", pc' # "close",
         Open' <=> Open, pc' = "before" => pc = "before",
         \/ slip' = slip
         \/ ~Open /\ slip' # "none"
  PROVE  RunInv'
<1> USE DEF ClosedVars
<1>1. OpenRun'
  BY DEF IInv, OpenRun
<1>2. ClosingRun' /\ ClosedRun'
  BY DEF IInv, ClosingRun, ClosedRun
<1>3. TornExact' /\ FailureThrown'
  BY DEF IInv, TornExact, FailureThrown
<1> QED
  BY <1>1, <1>2, <1>3 DEF RunInv

\* A run is over without being closed: it has nothing to close, or is lost.
LEMMA RunLeft ==
  ASSUME IInv, UNCHANGED <<started, closing, torn>>, Open, ~Open', pc' # "close",
         slip' # "none" \/ started = <<>>
  PROVE  RunInv'
<1>1. closing = <<>> /\ torn = <<>>
  BY DEF IInv, OpenRun
<1>2. OpenRun' /\ ClosingRun'
  BY DEF OpenRun, ClosingRun
<1>3. ClosedRun'
  BY <1>1 DEF ClosedRun
<1>4. TornExact'
  <2>1. torn' = <<>> /\ Len(started') \in Nat
    BY <1>1 DEF IInv, TypeOK
  <2> QED
    BY <2>1 DEF TornExact
<1>5. FailureThrown'
  BY <1>1 DEF FailureThrown
<1> QED
  BY <1>2, <1>3, <1>4, <1>5 DEF RunInv

\* Run.close() starts on an open run.
LEMMA CloseStarts ==
  ASSUME IInv, Open, NEW who, StartClose(who), UNCHANGED <<started, torn, slip>>,
         failed' => raised' # "none"
  PROVE  RunInv'
<1> DEFINE n == Len(teardowns)
<1>1. /\ closing = <<>> /\ torn = <<>> /\ slip = "none"
      /\ n = Len(started) /\ \A i \in 1..n : teardowns[i] = i
  BY DEF IInv, OpenRun
<1>2. teardowns \in Seq(Nat \ {0}) /\ n \in Nat
  BY DEF IInv, TypeOK
<1>3. /\ pc' = "close" /\ Len(closing') = n
      /\ \A i \in 1..n : closing'[i] = teardowns[n + 1 - i]
  BY <1>2, ReverseType DEF StartClose
<1>4. \A i \in 1..n : closing'[i] = n + 1 - i
  <2> TAKE i \in 1..n
  <2>1. n + 1 - i \in 1..n
    BY <1>2
  <2> QED
    BY <1>1, <1>3, <2>1
<1>5. ~Open'
  BY <1>3 DEF Open
<1>6. OpenRun' /\ ClosedRun'
  BY <1>3, <1>5 DEF OpenRun, ClosedRun
<1>7. ClosingRun'
  <2>1. Len(torn') + Len(closing') = Len(started')
    BY <1>1, <1>2, <1>3
  <2> QED
    BY <1>1, <1>3, <1>4, <2>1 DEF ClosingRun
<1>8. TornExact' /\ FailureThrown'
  BY <1>1, <1>2 DEF TornExact, FailureThrown
<1> QED
  BY <1>6, <1>7, <1>8 DEF RunInv

\* Run.close() tears one generator down, the rest to follow or to be lost.
LEMMA CloseGoesOn ==
  ASSUME IInv, pc = "close", pc' = "close", closing # <<>>,
         torn' = Append(torn, [gen |-> Head(closing), thrown |-> raised # "none", failure |-> Failure]),
         \/ closing' = Tail(closing) /\ slip' = slip
         \/ closing' = <<>> /\ slip' # "none",
         UNCHANGED started, failed' => raised' # "none"
  PROVE  RunInv'
<1>1. /\ slip = "none" /\ Len(torn) + Len(closing) = Len(started)
      /\ \A i \in 1..Len(closing) : closing[i] = Len(closing) + 1 - i
      /\ failed => raised # "none"
  BY DEF IInv, ClosingRun
<1>2. /\ closing \in Seq(Nat \ {0}) /\ torn \in Seq(TornType) /\ Len(closing) \in Nat \ {0}
      /\ Len(torn) \in Nat /\ Len(started) \in Nat
  BY DEF IInv, TypeOK
<1>3. Head(closing) = Len(closing)
  BY <1>1, <1>2
<1>4. /\ Len(torn') = Len(torn) + 1
      /\ \A k \in 1..Len(torn) : torn'[k] = torn[k]
      /\ torn'[Len(torn) + 1] = [gen |-> Head(closing), thrown |-> raised # "none", failure |-> Failure]
  BY <1>2
<1>5. TornExact'
  <2>1. torn'[Len(torn) + 1].gen = Len(started) + 1 - (Len(torn) + 1)
    BY <1>1, <1>2, <1>3, <1>4
  <2>2. \A k \in 1..Len(torn) : torn'[k].gen = Len(started) + 1 - k
    BY <1>4 DEF IInv, TornExact
  <2>3. Len(torn') <= Len(started)
    BY <1>1, <1>2, <1>4
  <2>4. \A k \in 1..Len(torn') : k \in 1..Len(torn) \/ k = Len(torn) + 1
    BY <1>2, <1>4
  <2>5. \A k \in 1..Len(torn') : torn'[k].gen = Len(started) + 1 - k
    BY <2>1, <2>2, <2>4
  <2>6. started' = started
    OBVIOUS
  <2> QED
    BY <2>3, <2>5, <2>6, Zenon DEF TornExact
<1>6. FailureThrown'
  <2> DEFINE Sound(t) == t.failure # "none" => t.thrown \/ t.failure = "stream"
  <2>1. Sound(torn'[Len(torn) + 1])
    <3>1. torn'[Len(torn) + 1].failure = Failure
      BY <1>4
    <3>2. torn'[Len(torn) + 1].thrown = (raised # "none")
      BY <1>4
    <3>3. Failure # "none" => failed \/ Failure = "stream"
      BY DEF Failure
    <3> QED
      BY <1>1, <3>1, <3>2, <3>3, Zenon
  <2>2. \A k \in 1..Len(torn) : Sound(torn'[k])
    BY <1>4, Zenon DEF IInv, FailureThrown
  <2> SUFFICES ASSUME NEW k \in 1..Len(torn') PROVE Sound(torn'[k])
    BY Zenon DEF FailureThrown
  <2>3. k \in 1..Len(torn) \/ k = Len(torn) + 1
    BY <1>2, <1>4
  <2> QED
    BY <2>1, <2>2, <2>3, Zenon
<1>7. OpenRun' /\ ClosedRun'
  BY DEF OpenRun, ClosedRun, Open
<1>8. ClosingRun'
  <2>1. CASE closing' = Tail(closing) /\ slip' = slip
    <3>1. /\ Len(closing') = Len(closing) - 1
          /\ \A i \in 1..Len(closing') : closing'[i] = closing[i + 1]
      BY <1>2, <2>1
    <3>2. \A i \in 1..Len(closing') : closing'[i] = Len(closing') + 1 - i
      <4> TAKE i \in 1..Len(closing')
      <4>1. i + 1 \in 1..Len(closing) /\ i \in Nat
        BY <1>2, <3>1
      <4>2. closing[i + 1] = Len(closing) + 1 - (i + 1)
        BY <1>1, <4>1
      <4> QED
        BY <1>2, <3>1, <4>1, <4>2
    <3>3. Len(torn') + Len(closing') = Len(started')
      <4>1. Len(started') = Len(started)
        OBVIOUS
      <4>2. Len(closing) \in Nat /\ Len(torn) \in Nat /\ Len(torn) + Len(closing) = Len(started)
        BY <1>1, <1>2
      <4>3. Len(torn') = Len(torn) + 1 /\ Len(closing') = Len(closing) - 1
        BY <1>4, <3>1
      <4> QED
        BY ONLY <4>1, <4>2, <4>3
    <3> QED
      BY <1>1, <2>1, <3>2, <3>3 DEF ClosingRun
  <2>2. CASE closing' = <<>> /\ slip' # "none"
    BY <2>2 DEF ClosingRun
  <2> QED
    BY <2>1, <2>2
<1> QED
  BY <1>5, <1>6, <1>7, <1>8 DEF RunInv

\* Run.close() is over.
LEMMA CloseEnds ==
  ASSUME IInv, pc = "close", closing = <<>>, pc' # "close", ~Open',
         UNCHANGED <<started, torn, closing, slip>>
  PROVE  RunInv'
<1>1. slip = "none" => Len(torn) = Len(started)
  BY DEF IInv, ClosingRun, TypeOK
<1>2. OpenRun' /\ ClosingRun' /\ ClosedRun'
  BY <1>1 DEF OpenRun, ClosingRun, ClosedRun
<1>3. TornExact' /\ FailureThrown'
  BY DEF IInv, TornExact, FailureThrown
<1> QED
  BY <1>2, <1>3 DEF RunInv

\* What fails leaves bind() or the handler with its run open.
LEMMA FailsRun ==
  ASSUME IInv, pc \in {"bind", "call"}, NEW e \in {"invalid", "error", "base"}, Fails(e)
  PROVE  RunInv'
<1>1. Open
  BY DEF Open
<1>2. CASE pc' = "done"
  BY <1>1, <1>2, RunLeft DEF Fails, Open, StartClose
<1>3. CASE pc' # "done"
  <2>1. \E who \in {"dispatch", "ws"} : StartClose(who)
    BY <1>3 DEF Fails
  <2>2. UNCHANGED <<started, torn, slip>> /\ raised' # "none"
    BY <1>3 DEF Fails
  <2> QED
    BY <1>1, <2>1, <2>2, CloseStarts
<1> QED
  BY <1>2, <1>3

\* Every action keeps the run's invariant.
LEMMA NextRunInv == IInv /\ [Next]_vars => RunInv'
<1> SUFFICES ASSUME IInv, [Next]_vars PROVE RunInv'
  OBVIOUS
<1> USE DEF runVars, closeVars, ClosedVars
<1>0. Open => ~failed /\ (pc = "before" => started = <<>>) /\ Len(teardowns) = Len(started)
  BY DEF IInv, OpenRun
<1>1. CASE BeforePasses \/ AfterKeeps \/ AfterDone \/ StartStream
  BY <1>1, RunStays DEF BeforePasses, AfterKeeps, AfterDone, StartStream, Open
<1>2. ASSUME NEW s \in BOOLEAN, BeforeAnswers(s) PROVE RunInv'
  <2>1. ~response'.owns
    BY <1>2, ResponseIsResponse, NoResponseIsResponse DEF BeforeAnswers
  <2> QED
    BY <1>0, <1>2, <2>1, RunLeft DEF BeforeAnswers, Open
<1>3. CASE NotRouted \/ \E e \in {"error", "base"} : BeforeRaises(e)
  BY <1>0, <1>3, RunLeft DEF NotRouted, BeforeRaises, RaisesEarly, Open
<1>4. CASE Routed \/ Resolve \/ Bound
  BY <1>4, RunStays DEF Routed, Resolve, Bound, Open
<1>5. CASE BindInvalid
  <2>1. CASE Len(stack) = 1
    BY <1>5, <2>1, FailsRun DEF BindInvalid
  <2>2. CASE Len(stack) # 1
    BY <1>5, <2>2, RunStays DEF BindInvalid, Open
  <2> QED
    BY <2>1, <2>2
<1>6. CASE CallDependency
  <2>1. /\ Open /\ Open' /\ pc = "bind" /\ pc' = "bind"
        /\ UNCHANGED <<closing, torn, failed, slip>>
    BY <1>6 DEF CallDependency, Open
  <2>2. /\ Len(teardowns) = Len(started) /\ \A i \in 1..Len(teardowns) : teardowns[i] = i
        /\ closing = <<>> /\ torn = <<>> /\ ~failed /\ slip = "none"
    BY <2>1 DEF IInv, OpenRun
  <2>3. /\ teardowns \in Seq(Nat \ {0}) /\ started \in Seq(Yields) /\ Len(started) \in Nat
    BY DEF IInv, TypeOK
  <2>4. /\ Len(teardowns') = Len(started') /\ Len(started') \in Nat
        /\ \A i \in 1..Len(teardowns') : teardowns'[i] = i
    <3>1. CASE Top.func \in Yields
      <4>1. /\ started' = Append(started, Top.func)
            /\ teardowns' = Append(teardowns, Len(started'))
        BY <1>6, <3>1, Zenon DEF CallDependency
      <4>2. Len(started') = Len(started) + 1
        BY <2>3, <3>1, <4>1
      <4> QED
        BY <2>2, <2>3, <4>1, <4>2
    <3>2. CASE Top.func \notin Yields
      BY <1>6, <2>2, <2>3, <3>2 DEF CallDependency
    <3> QED
      BY <3>1, <3>2
  <2>5. OpenRun'
    BY <2>1, <2>2, <2>4 DEF OpenRun
  <2>6. ClosingRun' /\ ClosedRun' /\ TornExact' /\ FailureThrown'
    BY <2>1, <2>2, <2>4 DEF ClosingRun, ClosedRun, TornExact, FailureThrown
  <2> QED
    BY <2>5, <2>6 DEF RunInv
<1>7. ASSUME NEW e \in {"error", "base"}, DependencyRaises(e) \/ HandlerRaises(e) PROVE RunInv'
  BY <1>7, FailsRun DEF DependencyRaises, HandlerRaises
<1>8. CASE HandlerReturns \/ WebSocketDone
  <2>1. Open /\ UNCHANGED <<started, torn, slip, failed>> /\ \E who \in {"dispatch", "ws"} : StartClose(who)
    BY <1>8 DEF HandlerReturns, WebSocketDone, Open
  <2> QED
    BY <1>0, <2>1, CloseStarts
<1>9. CASE HandlerStreams
  <2>1. /\ Open /\ pc # "close" /\ pc' = "after" /\ UNCHANGED <<ClosedVars, slip>>
        /\ response'.owns = (teardowns # <<>>)
    BY <1>9 DEF HandlerStreams, Open, Response
  <2>2. CASE teardowns # <<>>
    BY <2>1, <2>2, RunStays DEF Open
  <2>3. CASE teardowns = <<>>
    <3>1. started = <<>>
      BY <1>0, <2>1, <2>3 DEF IInv, TypeOK
    <3> QED
      BY <2>1, <2>3, <3>1, RunLeft DEF Open
  <2> QED
    BY <2>2, <2>3
<1>10. CASE TeardownEnds \/ AcloseRaises \/ \E e \in {"error", "base"} : TeardownRaises(e)
  <2>1. failed => raised # "none"
    BY <1>10 DEF TeardownEnds, AcloseRaises, TeardownRaises, IInv, ClosingRun
  <2> QED
    BY <1>10, <2>1, CloseGoesOn DEF TeardownEnds, AcloseRaises, TeardownRaises, Torn
<1>11. CASE DispatchEnds \/ FinishEnds \/ WebSocketEnds
  <2>1. /\ pc = "close" /\ closing = <<>> /\ UNCHANGED <<started, torn, closing, slip>>
        /\ pc' \in {"after", "done", "error"}
    BY <1>11 DEF DispatchEnds, FinishEnds, WebSocketEnds
  <2>2. pc' = "after" => ~response'.owns
    BY <1>11, NoResponseIsResponse DEF DispatchEnds, FinishEnds, WebSocketEnds, IInv, Owner
  <2> QED
    BY <2>1, <2>2, CloseEnds DEF Open
<1>12. ASSUME NEW s \in BOOLEAN, HandleError(s) PROVE RunInv'
  <2>1. ~response'.owns
    BY <1>12, ResponseIsResponse DEF HandleError
  <2> QED
    BY <1>12, <2>1, RunStays DEF HandleError, Open
<1>13. CASE HandleErrorCancelled
  BY <1>13, RunStays DEF HandleErrorCancelled, Open
<1>14. ASSUME NEW s \in BOOLEAN, AfterReplaces(s) PROVE RunInv'
  <2>1. ~response'.owns
    BY <1>14, ResponseIsResponse DEF AfterReplaces
  <2>2. CASE response.owns
    BY <1>0, <1>14, <2>2, CloseStarts DEF AfterReplaces, Open
  <2>3. CASE ~response.owns
    BY <1>14, <2>1, <2>3, RunStays DEF AfterReplaces, Open
  <2> QED
    BY <2>2, <2>3
<1>15. CASE AfterRaises \/ AfterCancelled \/ HeadersRaise
  <2>1. ~Open'
    BY <1>15, ResponseIsResponse DEF AfterRaises, AfterCancelled, HeadersRaise, Open
  <2>2. CASE response.owns
    BY <1>15, <2>1, <2>2, RunLeft DEF AfterRaises, AfterCancelled, HeadersRaise, LosesRun, Open
  <2>3. CASE ~response.owns
    BY <1>15, <2>1, <2>3, RunStays DEF AfterRaises, AfterCancelled, HeadersRaise, LosesRun, Open
  <2> QED
    BY <2>2, <2>3
<1>16. CASE Respond \/ StreamOver \/ \E e \in {"error", "base"} : StreamFails(e)
  <2>1. CASE response.owns
    BY <1>0, <1>16, <2>1, CloseStarts DEF Respond, StreamOver, StreamFails, FinishStream, Open
  <2>2. CASE ~response.owns
    BY <1>16, <2>2, RunStays DEF Respond, StreamOver, StreamFails, FinishStream, Open
  <2> QED
    BY <2>1, <2>2
<1>17. CASE UNCHANGED vars
  <2>1. RunInv
    BY DEF IInv, RunInv
  <2> QED
    BY <1>17, <2>1 DEF vars, RunInv, OpenRun, ClosingRun, ClosedRun, TornExact, FailureThrown, Open
<1> QED
  BY <1>1, <1>2, <1>3, <1>4, <1>5, <1>6, <1>7, <1>8, <1>9, <1>10, <1>11, <1>12, <1>13,
     <1>14, <1>15, <1>16, <1>17 DEF Next, Over

-----------------------------------------------------------------------------
(* The stack, the response and the answer.                                 *)

\* A step that leaves the stack empty or alone, or only shorter.
LEMMA ShapeOfStack ==
  ASSUME StackShape, pc' # "bind" \/ pc = "bind", stack' = stack \/ (stack' = <<>> /\ pc' # "bind")
  PROVE  StackShape'
  BY DEF StackShape

\* Every action keeps the shape of the stack.
LEMMA NextStackShape == IInv /\ [Next]_vars => StackShape'
<1> SUFFICES ASSUME IInv, [Next]_vars PROVE StackShape'
  OBVIOUS
<1>0. TypeOK /\ StackShape /\ stack \in Seq(FrameType)
  BY DEF IInv, TypeOK
<1> USE <1>0 DEF runVars, closeVars
<1>1. CASE Routed
  BY <1>1 DEF Routed, StackShape, Frame
<1>2. CASE Resolve
  <2>1. Len(stack) > 0
    BY <1>2 DEF Resolve, StackShape
  <2>2. CASE stack' = [stack EXCEPT ![Len(stack)] = Resolved(Top, FALSE)]
    <3>1. Len(stack') = Len(stack) /\ \A i \in 1..Len(stack) : stack'[i].func = stack[i].func
      BY <2>1, <2>2, TopResolved, Zenon
    <3> QED
      BY <2>1, <3>1 DEF StackShape
  <2>3. CASE stack' = Append(stack, Frame(Needs(Top.func)[Top.next].func))
    <3>1. Needs(Top.func)[Top.next].func \in Func
      BY <1>2, <2>1, NeedIsNeed DEF Resolve
    <3>2. /\ Len(stack') = Len(stack) + 1
          /\ \A i \in 1..Len(stack) : stack'[i] = stack[i]
          /\ stack'[Len(stack) + 1].func \in Func
      BY <2>3, <3>1 DEF Frame
    <3>3. \A i \in 1..Len(stack') : i \in 1..Len(stack) \/ i = Len(stack) + 1
      BY <3>2
    <3> QED
      BY <2>1, <3>2, <3>3 DEF StackShape
  <2> QED
    BY <1>2, <2>2, <2>3, Zenon DEF Resolve
<1>3. ASSUME Len(stack) > 1, NEW b \in BOOLEAN, stack' = Returned(b) PROVE StackShape'
  <2>1. /\ Len(stack') = Len(stack) - 1
        /\ \A i \in 1..Len(stack') : stack'[i].func = stack[i].func
    BY <1>3, ReturnedType, Zenon
  <2>2. \A i \in 1..Len(stack') : i \in 1..Len(stack)
    BY <1>3, <2>1
  <2>3. Len(stack') > 0
    BY <1>3, <2>1
  <2> QED
    BY <2>1, <2>2, <2>3 DEF StackShape
<1>4. CASE BindInvalid
  <2>1. CASE Len(stack) = 1
    BY <1>4, <2>1, ShapeOfStack DEF BindInvalid, Fails, StartClose
  <2>2. CASE Len(stack) # 1
    <3>1. pc = "bind" /\ stack' = Returned(TRUE)
      BY <1>4, <2>2, Zenon DEF BindInvalid
    <3>2. Len(stack) \in Nat
      OBVIOUS
    <3>3. Len(stack) > 0
      BY <3>1, Zenon DEF StackShape
    <3>4. \A n \in Nat : n > 0 /\ n # 1 => n > 1
      OBVIOUS
    <3>5. Len(stack) > 1
      BY <2>2, <3>2, <3>3, <3>4, Zenon
    <3> QED
      BY <1>3, <3>1, <3>5, Zenon
  <2> QED
    BY <2>1, <2>2
<1>5. CASE CallDependency
  BY <1>3, <1>5, Zenon DEF CallDependency
<1>6. CASE Next /\ ~(Routed \/ Resolve \/ BindInvalid \/ CallDependency)
  BY <1>6, ShapeOfStack
     DEF Next, BeforePasses, NotRouted, RaisesEarly, Bound, HandlerReturns, HandlerStreams,
         WebSocketDone, TeardownEnds, AcloseRaises, DispatchEnds, FinishEnds, WebSocketEnds,
         HandleErrorCancelled, AfterKeeps, AfterRaises, AfterCancelled, AfterDone, HeadersRaise,
         Respond, StartStream, StreamOver, StreamFails, FinishStream, Over, BeforeAnswers, HandleError, AfterReplaces,
         BeforeRaises, DependencyRaises, HandlerRaises, TeardownRaises, Fails, StartClose, vars
<1>7. CASE UNCHANGED vars
  BY <1>7, ShapeOfStack DEF vars
<1> QED
  BY <1>1, <1>2, <1>4, <1>5, <1>6, <1>7

\* Every action keeps who owns the run and what is answered.
LEMMA NextAnswer == IInv /\ [Next]_vars => Owner' /\ Replacement' /\ FailureAnswered'
<1> SUFFICES ASSUME IInv, [Next]_vars PROVE Owner' /\ Replacement' /\ FailureAnswered'
  OBVIOUS
<1>0. /\ Owner /\ Replacement /\ FailureAnswered /\ TypeOK
      /\ Open => ~failed
      /\ pc = "close" /\ failed => raised # "none"
  BY DEF IInv, OpenRun, ClosingRun
<1> USE <1>0 DEF runVars, closeVars, Owner, Replacement, FailureAnswered
<1>1. CASE /\ UNCHANGED <<response, failed>>
           /\ pc' \in {"before", "bind", "call", "error", "after", "send", "stream", "done"}
           /\ pc' \in {"before", "bind", "call"} => pc \in {"before", "bind", "call"}
           /\ pc' \in {"after", "send", "stream"} => pc \in {"after", "send", "stream"}
           /\ pc' = "error" => pc \in {"before", "error"}
  BY <1>1
<1>2. ASSUME NEW s \in BOOLEAN, BeforeAnswers(s) \/ HandleError(s) \/ AfterReplaces(s)
      PROVE  Owner' /\ Replacement' /\ FailureAnswered'
  <2>1. ~response'.owns /\ response'.of # "route"
    BY <1>2, ResponseIsResponse, NoResponseIsResponse DEF BeforeAnswers, HandleError, AfterReplaces
  <2> QED
    BY <2>1
<1>3. CASE BeforePasses \/ NotRouted \/ Routed \/ Resolve \/ Bound \/ AfterKeeps \/ AfterDone
           \/ HandleErrorCancelled \/ AfterCancelled \/ HeadersRaise \/ StartStream
           \/ \E e \in {"error", "base"} : BeforeRaises(e)
  BY <1>1, <1>3 DEF BeforePasses, NotRouted, RaisesEarly, Routed, Resolve, Bound, AfterKeeps,
     AfterDone, HandleErrorCancelled, AfterCancelled, HeadersRaise, StartStream, BeforeRaises
<1>4. CASE BindInvalid \/ CallDependency \/ WebSocketDone
           \/ \E e \in {"error", "base"} : DependencyRaises(e) \/ HandlerRaises(e)
  <2>1. pc \in {"bind", "call"} /\ ~response.owns /\ response' = response
    BY <1>4 DEF BindInvalid, CallDependency, WebSocketDone, DependencyRaises, HandlerRaises, Fails
  <2>2. pc' \in {"bind", "done"} \/ (pc' = "close" /\ then' \in {"dispatch", "ws"})
    BY <1>4 DEF BindInvalid, CallDependency, WebSocketDone, DependencyRaises, HandlerRaises,
       Fails, StartClose
  <2> QED
    BY <2>1, <2>2
<1>5. CASE HandlerReturns
  <2>1. ~response'.owns
    BY <1>5, ResponseIsResponse, NoResponseIsResponse DEF HandlerReturns
  <2> QED
    BY <1>5, <2>1 DEF HandlerReturns, StartClose
<1>6. CASE HandlerStreams
  BY <1>6 DEF HandlerStreams, Open
<1>7. CASE TeardownEnds \/ AcloseRaises \/ \E e \in {"error", "base"} : TeardownRaises(e)
  BY <1>7 DEF TeardownEnds, AcloseRaises, TeardownRaises
<1>8. CASE DispatchEnds
  <2>1. ~response'.owns
    BY <1>8, NoResponseIsResponse DEF DispatchEnds
  <2>2. pc' = "after" => ~failed'
    BY <1>8 DEF DispatchEnds
  <2> QED
    BY <1>8, <2>1, <2>2 DEF DispatchEnds
<1>9. CASE FinishEnds \/ WebSocketEnds
  BY <1>9 DEF FinishEnds, WebSocketEnds
<1>10. CASE AfterRaises
  BY <1>10, ResponseIsResponse DEF AfterRaises
<1>11. CASE Respond \/ StreamOver \/ \E e \in {"error", "base"} : StreamFails(e)
  BY <1>11 DEF Respond, StreamOver, StreamFails, FinishStream, StartClose
<1>12. CASE UNCHANGED vars
  BY <1>12 DEF vars
<1> QED
  BY <1>2, <1>3, <1>4, <1>5, <1>6, <1>7, <1>8, <1>9, <1>10, <1>11, <1>12 DEF Next, Over

-----------------------------------------------------------------------------
(* The theorems.                                                           *)

\* A request starts with no run, no frame and no response.
LEMMA InitIInv == Init => IInv
<1> SUFFICES ASSUME Init PROVE IInv
  OBVIOUS
<1> USE RequestRunAssumption DEF Init
<1>1. TypeOK
  <2>1. /\ stack \in Seq(FrameType) /\ started \in Seq(Yields)
        /\ teardowns \in Seq(Nat \ {0}) /\ closing \in Seq(Nat \ {0}) /\ torn \in Seq(TornType)
    OBVIOUS
  <2>2. failed \in BOOLEAN /\ broken \in {"none", "error", "base"} /\ values \subseteq Func /\ hook \in Nat
    OBVIOUS
  <2>3. response \in ResponseType
    BY NoResponseIsResponse
  <2>4. /\ then \in {"dispatch", "replaced", "sent", "ws"} /\ answer \in {"none", "whole", "stream"}
        /\ raised \in {"none", "invalid", "error", "base"} /\ slip \in Slip
        /\ pc \in {"before", "bind", "call", "close", "error", "after", "send", "stream", "done"}
    BY DEF Slip
  <2>5. req \in [kind : {"http", "ws"}, head : BOOLEAN, error : BOOLEAN, plan : Plans]
    BY Zenon
  <2> QED
    BY <2>1, <2>2, <2>3, <2>4, <2>5, Zenon DEF TypeOK
<1>2. StackShape /\ Owner /\ Replacement /\ FailureAnswered
  BY NoResponseIsResponse DEF StackShape, Owner, Replacement, FailureAnswered
<1>3. OpenRun /\ ClosingRun /\ ClosedRun /\ TornExact /\ FailureThrown
  BY DEF OpenRun, Open, ClosingRun, ClosedRun, TornExact, FailureThrown
<1> QED
  BY <1>1, <1>2, <1>3 DEF IInv

\* The inductive invariant holds of every request.
THEOREM Invariance == SafeSpec => []IInv
<1>1. Init => IInv
  BY InitIInv
<1>2. IInv /\ [Next]_vars => IInv'
  BY NextTypeOK, NextStackShape, NextAnswer, NextRunInv DEF IInv, RunInv
<1> QED
  BY <1>1, <1>2, PTL DEF SafeSpec

\* The variables keep their types, for any plan and any number of hooks.
THEOREM TypeCorrect == SafeSpec => []TypeOK
<1>1. IInv => TypeOK
  BY DEF IInv
<1> QED
  BY <1>1, Invariance, PTL

\* Run.close() tears down last first, each once.
THEOREM Reversed == SafeSpec => []TornInReverse
<1>1. IInv => TornInReverse
  <2> SUFFICES ASSUME IInv, NEW k \in 1..Len(torn), NEW m \in 1..Len(torn), k < m
               PROVE  torn[k].gen > torn[m].gen
    BY DEF TornInReverse
  <2>1. /\ torn[k].gen = Len(started) + 1 - k /\ torn[m].gen = Len(started) + 1 - m
        /\ Len(started) \in Nat
    BY DEF IInv, TornExact, TypeOK
  <2> QED
    BY <2>1
<1> QED
  BY <1>1, Invariance, PTL

\* A request that is over has torn down everything it started, if it lost no run.
THEOREM Complete == SafeSpec => []AllTornDown
<1>1. IInv => AllTornDown
  <2> SUFFICES ASSUME IInv, pc = "done", slip = "none", NEW i \in Instance
               PROVE  TornDown(i)
    BY DEF AllTornDown
  <2>1. Len(torn) = Len(started) /\ Len(started) \in Nat
    BY DEF IInv, ClosedRun, Open, TypeOK
  <2> DEFINE k == Len(started) + 1 - i
  <2>2. k \in 1..Len(torn) /\ Len(started) + 1 - k = i
    BY <2>1 DEF Instance
  <2>3. torn[k].gen = i
    BY <2>2 DEF IInv, TornExact
  <2> QED
    BY <2>2, <2>3 DEF TornDown
<1> QED
  BY <1>1, Invariance, PTL

\* Nothing is torn down under the handler or under its stream.
THEOREM NotEarly == SafeSpec => []NoEarlyTeardown
<1>1. IInv => NoEarlyTeardown
  BY DEF IInv, OpenRun, Open, NoEarlyTeardown
<1> QED
  BY <1>1, Invariance, PTL

\* A generator of a request whose dependencies, handler or teardown failed finds
\* the error at its yield; one whose stream alone failed need not.
THEOREM Thrown == SafeSpec => []FailureThrown
<1>1. IInv => FailureThrown
  BY DEF IInv
<1> QED
  BY <1>1, Invariance, PTL

\* The route's response goes out only if nothing failed.
THEOREM NoFalseSuccess == SafeSpec => []FailureAnswered
<1>1. IInv => FailureAnswered
  BY DEF IInv
<1> QED
  BY <1>1, Invariance, PTL

-----------------------------------------------------------------------------
(* AppRouting: patterns, and the best of the routes that reach a path.     *)

\* No pattern is tried before itself, nor round in a circle.
LEMMA BeforeOrder ==
  ASSUME NEW p, NEW q, NEW r, IsPattern(p), IsPattern(q), IsPattern(r)
  PROVE  ~Before(p, p) /\ (Before(p, q) /\ Before(q, r) => Before(p, r))
<1>1. \A s : Rank(s) \in Nat
  BY DEF Rank
<1>2. ~Before(p, p)
  BY <1>1 DEF Before
<1>3. ASSUME Before(p, q), Before(q, r) PROVE Before(p, r)
  <2>1. DOMAIN p = 1..Len(p) /\ DOMAIN q = 1..Len(q) /\ DOMAIN r = 1..Len(r)
    BY DEF IsPattern
  <2>2. Len(p) \in Nat /\ Len(q) \in Nat /\ Len(r) \in Nat
    BY DEF IsPattern
  <2>3. PICK i \in DOMAIN p \intersect DOMAIN q :
          Rank(p[i]) < Rank(q[i]) /\ \A k \in 1..(i - 1) : p[k] = q[k]
    BY <1>3 DEF Before
  <2>4. PICK j \in DOMAIN q \intersect DOMAIN r :
          Rank(q[j]) < Rank(r[j]) /\ \A k \in 1..(j - 1) : q[k] = r[k]
    BY <1>3 DEF Before
  <2>5. i \in Nat /\ j \in Nat
    BY <2>1
  <2>6. CASE i < j
    <3>1. i \in DOMAIN p \intersect DOMAIN r /\ q[i] = r[i]
      BY <2>1, <2>2, <2>4, <2>5, <2>6
    <3>2. \A k \in 1..(i - 1) : p[k] = r[k]
      BY <2>3, <2>4, <2>5, <2>6
    <3> QED
      BY <2>3, <3>1, <3>2 DEF Before
  <2>7. CASE j < i
    <3>1. j \in DOMAIN p \intersect DOMAIN r /\ p[j] = q[j]
      BY <2>1, <2>2, <2>3, <2>5, <2>7
    <3>2. \A k \in 1..(j - 1) : p[k] = r[k]
      BY <2>3, <2>4, <2>5, <2>7
    <3> QED
      BY <2>4, <3>1, <3>2 DEF Before
  <2>8. CASE i = j
    <3>1. Rank(p[i]) < Rank(r[i])
      BY <1>1, <2>3, <2>4, <2>8
    <3>2. \A k \in 1..(i - 1) : p[k] = r[k]
      BY <2>3, <2>4, <2>8
    <3> QED
      BY <2>3, <2>4, <2>8, <3>1, <3>2 DEF Before
  <2> QED
    BY <2>5, <2>6, <2>7, <2>8
<1> QED
  BY <1>2, <1>3

\* A set of natural numbers has a least one.
LEMMA LeastNat ==
  ASSUME NEW T \in SUBSET Nat, T # {}
  PROVE  \E n \in T : \A m \in T : n <= m
<1>1. PICK n \in T : \A m \in T : ~(<<m, n>> \in OpToRel(<, Nat))
  BY NatLessThanWellFounded, WFMin
<1>2. \A m \in T : ~(m < n)
  BY <1>1 DEF OpToRel
<1> QED
  BY <1>2

\* Min of numbers is the least of them.
LEMMA MinIsLeast ==
  ASSUME NEW T \in SUBSET Nat, T # {}
  PROVE  Min(T) \in T /\ \A m \in T : Min(T) <= m
BY LeastNat DEF Min

\* Of finitely many routes, some are preceded by none: the best is among them.
LEMMA BestIsOne ==
  ASSUME NEW S, IsFiniteSet(S), S # {}, \A e \in S : IsPattern(e.pattern)
  PROVE  (CHOOSE e \in S : \A u \in S : ~Before(u.pattern, e.pattern)) \in S
<1> DEFINE Ahead(e) == {u \in S : Before(u.pattern, e.pattern)}
           N == {Cardinality(Ahead(e)) : e \in S}
<1>1. ASSUME NEW e \in S PROVE IsFiniteSet(Ahead(e)) /\ Cardinality(Ahead(e)) \in Nat
  <2>1. Ahead(e) \in SUBSET S
    OBVIOUS
  <2>2. IsFiniteSet(Ahead(e))
    BY <2>1, FS_Subset
  <2> QED
    BY <2>2, FS_CardinalityType
<1>2. N \in SUBSET Nat /\ N # {}
  BY <1>1
<1>3. PICK n \in N : \A m \in N : n <= m
  BY <1>2, LeastNat
<1>4. PICK e \in S : n = Cardinality(Ahead(e))
  OBVIOUS
<1>5. ASSUME NEW u \in S, Before(u.pattern, e.pattern) PROVE FALSE
  <2>1. Ahead(u) \in SUBSET Ahead(e)
    <3>1. ASSUME NEW x \in S, Before(x.pattern, u.pattern) PROVE Before(x.pattern, e.pattern)
      BY <1>5, <3>1, BeforeOrder
    <3> QED
      BY <3>1
  <2>2. u \in Ahead(e) /\ u \notin Ahead(u)
    BY <1>5, BeforeOrder
  <2>3. Cardinality(Ahead(u)) \in N
    OBVIOUS
  <2>4. Cardinality(Ahead(e)) <= Cardinality(Ahead(u))
    BY <1>3, <1>4, <2>3
  <2>5. Cardinality(Ahead(u)) <= Cardinality(Ahead(e))
    BY <1>1, <2>1, FS_Subset
  <2>6. Cardinality(Ahead(e)) = Cardinality(Ahead(u))
    <3>1. Cardinality(Ahead(e)) \in Nat /\ Cardinality(Ahead(u)) \in Nat
      BY <1>1
    <3> HIDE DEF Ahead
    <3> QED
      BY <2>4, <2>5, <3>1
  <2>7. Ahead(e) = Ahead(u)
    BY <1>1, <2>1, <2>6, FS_Subset
  <2> QED
    BY <2>2, <2>7
<1>6. \E f \in S : \A u \in S : ~Before(u.pattern, f.pattern)
  BY <1>5
<1> QED
  BY <1>6

\* A router's table: finitely many routes, each with a sequence for pattern.
IsTable(table) == IsFiniteSet(table) /\ \A e \in table : IsPattern(e.pattern)

\* What a lookup finds is a route of the table that reaches the path; when it
\* finds nothing, none does.
LEMMA MatchSound ==
  ASSUME NEW rt, IsTable(rt.table), NEW path, NEW method
  PROVE  LET found == RouterMatch(rt, path, method)
         IN /\ found.kind = "found" =>
                 \E e \in rt.table : e.key = found.key /\ Reaches(e.pattern, path) /\ e.method = method
            /\ found.kind = "none" => \A e \in rt.table : ~Reaches(e.pattern, path)
            /\ found.kind \in {"found", "405", "none"}
<1> DEFINE reach == {e \in rt.table : Reaches(e.pattern, path)}
           mine == {e \in reach : e.method = method}
           best == CHOOSE e \in mine : \A u \in mine : ~Before(u.pattern, e.pattern)
<1>1. CASE mine # {}
  <2>1. mine \in SUBSET rt.table
    OBVIOUS
  <2>2. IsFiniteSet(mine) /\ \A e \in mine : IsPattern(e.pattern)
    BY <2>1, FS_Subset DEF IsTable
  <2>3. best \in mine
    BY <1>1, <2>2, BestIsOne
  <2>4. RouterMatch(rt, path, method) = [kind |-> "found", key |-> best.key, allowed |-> {}]
    BY <1>1 DEF RouterMatch
  <2>5. best \in rt.table /\ Reaches(best.pattern, path) /\ best.method = method
    BY <2>3
  <2> HIDE DEF best
  <2> QED
    BY <2>4, <2>5
<1>2. CASE mine = {} /\ reach # {}
  <2>1. RouterMatch(rt, path, method).kind = "405"
    BY <1>2 DEF RouterMatch
  <2> QED
    BY <2>1
<1>3. CASE mine = {} /\ reach = {}
  <2>1. RouterMatch(rt, path, method).kind = "none"
    BY <1>3 DEF RouterMatch
  <2> QED
    BY <1>3, <2>1
<1> QED
  BY <1>1, <1>2, <1>3

\* The same with HEAD answered by GET.
LEMMA RequestSound ==
  ASSUME NEW rt, IsTable(rt.table), NEW path, NEW method
  PROVE  LET found == MatchRequest(rt, path, method)
         IN /\ found.kind = "found" => \E e \in rt.table : e.key = found.key /\ Reaches(e.pattern, path)
            /\ found.kind = "none" => \A e \in rt.table : ~Reaches(e.pattern, path)
            /\ found.kind \in {"found", "405", "none"}
  BY MatchSound DEF MatchRequest

-----------------------------------------------------------------------------
(* What a registration does to a router, and the types.                    *)

IsRouter(rt) ==
  /\ rt = [nodes |-> rt.nodes, table |-> rt.table, version |-> rt.version, constraints |-> rt.constraints]
  /\ rt.version \in Nat /\ IsTable(rt.table)

\* Two functions from keys: of the HTTP routes and of the WebSockets
IsRoutes(rs) == rs = [websocket \in BOOLEAN |-> [k \in DOMAIN rs[websocket] |-> rs[websocket][k]]]

RoutingTypes ==
  /\ IsRoutes(routes)
  /\ router = [r \in RouterId |-> router[r]]
  /\ \A r \in RouterId : IsRouter(router[r])
  /\ hosts \in Seq(HostPattern)

\* Any sequence is a pattern.
LEMMA SeqIsPattern ==
  ASSUME NEW S, NEW s \in Seq(S)
  PROVE  IsPattern(s)
<1>1. Len(s) \in Nat /\ DOMAIN s = 1..Len(s)
  OBVIOUS
<1>2. \A i \in 1..Len(s) : s[i] \in Range(s)
  BY <1>1 DEF Range
<1> HIDE DEF Range
<1> QED
  BY <1>1, <1>2 DEF IsPattern

\* A sequence stays one when its segments are rewritten ...
LEMMA CanonicalPattern ==
  ASSUME NEW p, IsPattern(p)
  PROVE  IsPattern(Canonical(p))
<1>1. DOMAIN p = 1..Len(p) /\ Len(p) \in Nat
  BY DEF IsPattern
<1>2. Canonical(p) \in [1..Len(p) -> Range(Canonical(p))]
  BY <1>1 DEF Canonical, Range
<1> QED
  BY <1>1, <1>2 DEF IsPattern

\* ... or put after a group's prefix.
LEMMA FullPattern ==
  ASSUME NEW p, NEW q, IsPattern(p), IsPattern(q)
  PROVE  IsPattern(FullPath(p, q))
<1>1. /\ DOMAIN p = 1..Len(p) /\ Len(p) \in Nat /\ DOMAIN q = 1..Len(q) /\ Len(q) \in Nat
      /\ p \in Seq(Range(p)) /\ q \in Seq(Range(q))
  BY DEF IsPattern
<1>2. p \in Seq(Range(p) \union Range(q)) /\ q \in Seq(Range(p) \union Range(q))
  BY <1>1
<1>3. p \o q \in Seq(Range(p) \union Range(q))
  BY <1>2
<1> QED
  BY <1>3, SeqIsPattern DEF FullPath

\* An accepted pattern is a new version; a refused one leaves table and version.
LEMMA RouteSound ==
  ASSUME NEW rt, IsRouter(rt), NEW pattern, IsPattern(pattern), NEW method, NEW key
  PROVE  /\ IsRouter(RouterRoute(rt, pattern, method, key))
         /\ Accepts(rt, pattern) =>
              RouterRoute(rt, pattern, method, key).version = rt.version + 1
         /\ ~Accepts(rt, pattern) =>
              /\ RouterRoute(rt, pattern, method, key).version = rt.version
              /\ RouterRoute(rt, pattern, method, key).table = rt.table
<1> DEFINE entry == [pattern |-> pattern, method |-> method, key |-> key]
           kept == {SubSeq(pattern, 1, k) : k \in {n \in DOMAIN pattern : \A i \in 1..n : ~Refused(rt, pattern, i)}}
           table == {e \in rt.table : ~(e.pattern = pattern /\ e.method = method)} \union {entry}
<1>1. PICK nodes, old, version, constraints :
        rt = [nodes |-> nodes, table |-> old, version |-> version, constraints |-> constraints]
  BY DEF IsRouter
<1>2. version \in Nat /\ IsTable(old) /\ rt.table = old /\ rt.version = version
  BY <1>1 DEF IsRouter
<1>3. IsTable(table)
  <2>1. {e \in rt.table : ~(e.pattern = pattern /\ e.method = method)} \in SUBSET rt.table
    OBVIOUS
  <2>2. IsFiniteSet({e \in rt.table : ~(e.pattern = pattern /\ e.method = method)})
    BY <1>2, <2>1, FS_Subset DEF IsTable
  <2>3. IsFiniteSet({e \in rt.table : ~(e.pattern = pattern /\ e.method = method)} \union {entry})
    BY <2>2, FS_AddElement
  <2>4. \A e \in table : IsPattern(e.pattern)
    BY <1>2 DEF IsTable
  <2> QED
    BY <2>3, <2>4 DEF IsTable
<1>4. CASE Accepts(rt, pattern)
  <2>1. RouterRoute(rt, pattern, method, key)
          = [nodes |-> nodes \union kept, table |-> table, version |-> version + 1, constraints |-> constraints]
    BY <1>1, <1>4 DEF RouterRoute
  <2> HIDE DEF table, kept
  <2> QED
    BY <1>2, <1>3, <1>4, <2>1 DEF IsRouter
<1>5. CASE ~Accepts(rt, pattern)
  <2>1. RouterRoute(rt, pattern, method, key)
          = [nodes |-> nodes \union kept, table |-> old, version |-> version, constraints |-> constraints]
    BY <1>1, <1>5 DEF RouterRoute
  <2> HIDE DEF kept
  <2> QED
    BY <1>2, <1>5, <2>1 DEF IsRouter
<1> QED
  BY <1>4, <1>5

\* A step of the declarations, as the index sees it: nothing it is made of
\* changes; or some router it looks at has a new version; or there is one
\* more host.
Quiet ==
  /\ UNCHANGED <<hosts, routes, cache>>
  /\ \A r \in RouterId : router'[r].table = router[r].table /\ router'[r].version = router[r].version

Newer ==
  /\ UNCHANGED <<hosts, cache>>
  /\ \A r \in RouterId : router'[r].version >= router[r].version
  /\ \E h \in {Root} \union ToSet(hosts), websocket \in BOOLEAN :
       router'[<<h, websocket>>].version > router[<<h, websocket>>].version

Grown == UNCHANGED cache /\ Len(hosts') = Len(hosts) + 1

\* Putting other routes in one of the two dicts leaves two dicts.
LEMMA RoutesPut ==
  ASSUME NEW rs, IsRoutes(rs), NEW websocket \in BOOLEAN, NEW D, NEW f
  PROVE  IsRoutes([rs EXCEPT ![websocket] = [k \in D |-> f[k]]])
<1> DEFINE new == [rs EXCEPT ![websocket] = [k \in D |-> f[k]]]
<1>1. new = [b \in BOOLEAN |-> new[b]]
  BY DEF IsRoutes
<1>2. ASSUME NEW b \in BOOLEAN PROVE new[b] = [k \in DOMAIN new[b] |-> new[b][k]]
  <2>1. CASE b = websocket
    <3>1. new[b] = [k \in D |-> f[k]]
      BY <2>1 DEF IsRoutes
    <3> QED
      BY <3>1
  <2>2. CASE b # websocket
    <3>1. new[b] = rs[b]
      BY <2>2 DEF IsRoutes
    <3>2. rs[b] = [k \in DOMAIN rs[b] |-> rs[b][k]]
      BY DEF IsRoutes
    <3> QED
      BY <3>1, <3>2
  <2> QED
    BY <2>1, <2>2
<1> HIDE DEF new
<1>3. IsRoutes(new)
  BY <1>1, <1>2 DEF IsRoutes
<1> QED
  BY <1>3 DEF new

\* _add_route() puts one route in one of the two.
LEMMA AddRouteKeeps ==
  ASSUME IsRoutes(routes), NEW websocket \in BOOLEAN, NEW key, NEW route, NEW where,
         AddRoute(websocket, key, route, where)
  PROVE  IsRoutes(routes')
<1> DEFINE D == DOMAIN routes[websocket] \union {key}
           f == [k \in D |-> IF k = key THEN route ELSE routes[websocket][k]]
<1>1. routes' = [routes EXCEPT ![websocket] = f]
  BY DEF AddRoute
<1>2. f = [k \in D |-> f[k]]
  OBVIOUS
<1> HIDE DEF f, D
<1>3. routes' = [routes EXCEPT ![websocket] = [k \in D |-> f[k]]]
  BY <1>1, <1>2
<1> QED
  BY <1>3, RoutesPut

\* A new App has empty routers and no routes.
LEMMA InitRouting == RoutingInit => RoutingTypes
<1> SUFFICES ASSUME RoutingInit PROVE RoutingTypes
  OBVIOUS
<1>1. IsRouter(EmptyRouter)
  BY FS_EmptySet DEF IsRouter, EmptyRouter, IsTable
<1> QED
  BY <1>1 DEF RoutingInit, RoutingTypes, IsRoutes

\* What each declaration does, of the three.
LEMMA ConstraintStep ==
  ASSUME RoutingTypes, NEW c \in Custom, Constraint(c)
  PROVE  RoutingTypes' /\ Quiet
<1>1. ASSUME NEW r \in RouterId
      PROVE  IsRouter(router'[r]) /\ router'[r].table = router[r].table
             /\ router'[r].version = router[r].version
  <2>1. PICK nodes, table, version, constraints :
          router[r] = [nodes |-> nodes, table |-> table, version |-> version, constraints |-> constraints]
    BY DEF RoutingTypes, IsRouter
  <2>2. \/ router'[r] = router[r]
        \/ router'[r] = [nodes |-> nodes, table |-> table, version |-> version, constraints |-> constraints \union {c}]
    <3>1. router'[r] = IF r = <<Root, FALSE>> \/ r[1] \in ToSet(hosts)
                       THEN [router[r] EXCEPT !.constraints = @ \union {c}] ELSE router[r]
      BY DEF Constraint
    <3>2. [router[r] EXCEPT !.constraints = @ \union {c}]
            = [nodes |-> nodes, table |-> table, version |-> version, constraints |-> constraints \union {c}]
      BY <2>1
    <3> QED
      BY <3>1, <3>2
  <2>3. version \in Nat /\ IsTable(table)
    BY <2>1 DEF RoutingTypes, IsRouter
  <2> QED
    BY <2>1, <2>2, <2>3 DEF IsRouter
<1> QED
  BY <1>1 DEF Constraint, RoutingTypes, Quiet

\* One router is another: of a new version, or with nothing in it that counts.
LEMMA OneRouter ==
  ASSUME RoutingTypes, NEW h \in {Root} \union ToSet(hosts), NEW websocket \in BOOLEAN,
         NEW rt, IsRouter(rt), router' = [router EXCEPT ![<<h, websocket>>] = rt],
         UNCHANGED <<hosts, cache>>, IsRoutes(routes'),
         \/ rt.version > router[<<h, websocket>>].version
         \/ /\ rt.version = router[<<h, websocket>>].version
            /\ rt.table = router[<<h, websocket>>].table
            /\ UNCHANGED routes
  PROVE  RoutingTypes' /\ (Quiet \/ Newer)
<1> DEFINE r == <<h, websocket>>
<1>1. r \in RouterId
  BY DEF RoutingTypes, RouterId, ToSet
<1>2. router'[r] = rt /\ \A s \in RouterId \ {r} : router'[s] = router[s]
  BY <1>1 DEF RoutingTypes
<1>3. \A s \in RouterId : router[s].version \in Nat
  BY DEF RoutingTypes, IsRouter
<1>4. router' = [s \in RouterId |-> router'[s]]
  BY <1>1 DEF RoutingTypes
<1> HIDE DEF r
<1>5. RoutingTypes'
  BY <1>2, <1>4 DEF RoutingTypes
<1>6. CASE rt.version > router[r].version
  <2>1. \A s \in RouterId : router'[s].version >= router[s].version
    BY <1>1, <1>2, <1>3, <1>6 DEF IsRouter
  <2>2. router'[r].version > router[r].version
    BY <1>2, <1>6
  <2> QED
    BY <1>5, <2>1, <2>2 DEF Newer, r
<1>7. CASE rt.version = router[r].version /\ rt.table = router[r].table /\ UNCHANGED routes
  BY <1>2, <1>5, <1>7 DEF Quiet
<1> QED
  BY <1>6, <1>7 DEF r

\* A call of route() or websocket(), static() or docs() that is refused, or not
LEMMA RegisterStep ==
  ASSUME RoutingTypes, NEW d \in Declaration, Register(d)
  PROVE  RoutingTypes' /\ (Quiet \/ Newer)
<1> DEFINE pattern == Canonical(FullPath(d.group.prefix, d.path))
           r == <<d.group.host, d.websocket>>
           key == RouteName(d.func, routes[d.websocket])
<1>1. IsPattern(pattern)
  BY AppRoutingAssumption, FullPattern, CanonicalPattern
<1>2. router' = [router EXCEPT ![r] = RouterRoute(router[r], pattern, d.method, key)]
  BY DEF Register
<1>3. UNCHANGED <<hosts, cache>> /\ d.group.host \in {Root} \union ToSet(hosts)
  BY DEF Register
<1>4. d.websocket \in BOOLEAN
  BY AppRoutingAssumption
<1>5. r \in RouterId
  BY <1>3, <1>4 DEF RouterId, RoutingTypes, ToSet
<1>6. ~Accepts(router[r], pattern) => UNCHANGED routes
  BY DEF Register
<1> DEFINE where == [websocket |-> d.websocket, host |-> d.group.host, path |-> FullPath(d.group.prefix, d.path)]
           route == NewRoute(d.name, d.func, Included(d.group.include, d.include), d.limit, r, pattern, d.method)
<1>10. Accepts(router[r], pattern) => AddRoute(d.websocket, key, route, where)
  BY DEF Register
<1> HIDE DEF pattern, key, where, route
<1>11. IsRoutes(routes')
  BY <1>4, <1>6, <1>10, AddRouteKeeps DEF RoutingTypes
<1>7. IsRouter(router[r]) /\ router[r].version \in Nat
  BY <1>5 DEF RoutingTypes, IsRouter
<1> DEFINE rt == RouterRoute(router[r], pattern, d.method, key)
<1>8. IsRouter(rt)
  BY <1>1, <1>7, RouteSound
<1>9. \/ rt.version > router[r].version
      \/ rt.version = router[r].version /\ rt.table = router[r].table /\ UNCHANGED routes
  BY <1>1, <1>6, <1>7, RouteSound
<1> HIDE DEF rt
<1> QED
  BY <1>2, <1>3, <1>4, <1>8, <1>9, <1>11, OneRouter DEF rt

\* static(): the router without a host has a newer version, or nothing changed.
LEMMA StaticStep ==
  ASSUME RoutingTypes, NEW s \in Static, StaticRoute(s)
  PROVE  RoutingTypes' /\ (Quiet \/ Newer)
<1> DEFINE pattern == <<Literal(s.prefix), Wildcard("path")>>
           r == <<Root, FALSE>>
           key == <<"static", s.prefix, 1>>
<1>1. IsPattern(pattern)
  <2>1. pattern \in Seq({Literal(s.prefix), Wildcard("path")})
    OBVIOUS
  <2> QED
    BY <2>1, SeqIsPattern
<1>2. router' = [router EXCEPT ![r] = RouterRoute(router[r], pattern, "GET", key)]
  BY DEF StaticRoute
<1>3. UNCHANGED <<hosts, cache>>
  BY DEF StaticRoute
<1>5. r \in RouterId
  BY DEF RouterId
<1>6. ~Accepts(router[r], pattern) => UNCHANGED routes
  BY DEF StaticRoute
<1> DEFINE where == [websocket |-> FALSE, host |-> Root, path |-> pattern]
           route == NewRoute(s.name, "static", FALSE, NoLimit, r, pattern, "GET")
<1>10. Accepts(router[r], pattern) => AddRoute(FALSE, key, route, where)
  BY DEF StaticRoute
<1> HIDE DEF pattern, key, where, route
<1>11. IsRoutes(routes')
  BY <1>6, <1>10, AddRouteKeeps DEF RoutingTypes
<1>7. IsRouter(router[r]) /\ router[r].version \in Nat
  BY <1>5 DEF RoutingTypes, IsRouter
<1> DEFINE rt == RouterRoute(router[r], pattern, "GET", key)
<1>8. IsRouter(rt)
  BY <1>1, <1>7, RouteSound
<1>9. \/ rt.version > router[r].version
      \/ rt.version = router[r].version /\ rt.table = router[r].table /\ UNCHANGED routes
  BY <1>1, <1>6, <1>7, RouteSound
<1> HIDE DEF rt
<1> QED
  BY <1>2, <1>3, <1>8, <1>9, <1>11, OneRouter DEF rt

\* The document's path may be accepted and the page's refused.
LEMMA DocsStep ==
  ASSUME RoutingTypes, NEW d \in Documented, Docs(d)
  PROVE  RoutingTypes' /\ (Quiet \/ Newer)
<1> DEFINE r == <<Root, FALSE>>
           first == RouterRoute(router[r], d.openapi, "GET", <<"korvex", "openapi", 1>>)
           second == RouterRoute(first, d.page, "GET", <<"korvex", "docs", 1>>)
<1>1. IsPattern(d.openapi) /\ IsPattern(d.page)
  BY AppRoutingAssumption
<1>2. IsRouter(router[r]) /\ router[r].version \in Nat
  BY DEF RoutingTypes, IsRouter, RouterId
<1>3. IsRouter(first) /\ first.version \in Nat
  BY <1>1, <1>2, RouteSound DEF IsRouter
<1>4. IsRouter(second)
  <2> HIDE DEF first
  <2> QED
    BY <1>1, <1>3, RouteSound
<1>5. UNCHANGED <<hosts, cache>>
  BY DEF Docs
<1> DEFINE added == {w \in {"openapi", "docs"} :
                       Accepts(router[r], d.openapi) /\ (w = "docs" => Accepts(first, d.page))}
           keys == {<<"korvex", w, 1>> : w \in added}
<1>8. PICK f : routes' = [routes EXCEPT ![FALSE] =
                            [k \in DOMAIN routes[FALSE] \union keys |->
                               IF k \in keys THEN f[k] ELSE routes[FALSE][k]]]
  <2> DEFINE path(w) == IF w = "openapi" THEN d.openapi ELSE d.page
             g == [k \in keys |-> NewRoute(NoName, NoName, FALSE, NoLimit, r, path(k[2]), "GET")]
  <2>1. routes' = [routes EXCEPT ![FALSE] =
                     [k \in DOMAIN routes[FALSE] \union keys |->
                        IF k \in keys THEN NewRoute(NoName, NoName, FALSE, NoLimit, r, path(k[2]), "GET")
                        ELSE routes[FALSE][k]]]
    BY DEF Docs
  <2> HIDE DEF keys
  <2>2. routes' = [routes EXCEPT ![FALSE] =
                     [k \in DOMAIN routes[FALSE] \union keys |->
                        IF k \in keys THEN g[k] ELSE routes[FALSE][k]]]
    BY <2>1
  <2> HIDE DEF g
  <2> QED
    BY <2>2
<1>9. IsRoutes(routes')
  <2> DEFINE D == DOMAIN routes[FALSE] \union keys
             h == [k \in D |-> IF k \in keys THEN f[k] ELSE routes[FALSE][k]]
  <2>1. h = [k \in D |-> h[k]] /\ routes' = [routes EXCEPT ![FALSE] = h]
    BY <1>8
  <2> HIDE DEF h, D
  <2>2. routes' = [routes EXCEPT ![FALSE] = [k \in D |-> h[k]]]
    BY <2>1
  <2>3. IsRoutes([routes EXCEPT ![FALSE] = [k \in D |-> h[k]]])
    BY RoutesPut DEF RoutingTypes
  <2> QED
    BY <2>2, <2>3
<1>6. CASE Accepts(router[r], d.openapi)
  <2>1. router' = [router EXCEPT ![r] = second]
    BY <1>6 DEF Docs
  <2>2. first.version = router[r].version + 1
    BY <1>1, <1>2, <1>6, RouteSound
  <2> HIDE DEF first
  <2>3. second.version > router[r].version
    BY <1>1, <1>2, <1>3, <2>2, RouteSound
  <2> HIDE DEF second
  <2> QED
    BY <1>4, <1>5, <1>9, <2>1, <2>3, OneRouter
<1>7. CASE ~Accepts(router[r], d.openapi)
  <2>1. router' = [router EXCEPT ![r] = first]
    BY <1>7 DEF Docs
  <2>2. first.version = router[r].version /\ first.table = router[r].table
    BY <1>1, <1>2, <1>7, RouteSound
  <2>3. UNCHANGED routes
    <3>1. keys = {}
      BY <1>7
    <3> HIDE DEF keys
    <3>2. routes' = [routes EXCEPT ![FALSE] = [k \in DOMAIN routes[FALSE] |-> routes[FALSE][k]]]
      BY <1>8, <3>1
    <3> QED
      BY <3>2 DEF RoutingTypes, IsRoutes
  <2> HIDE DEF first
  <2> QED
    BY <1>3, <1>5, <1>9, <2>1, <2>2, <2>3, OneRouter
<1> QED
  BY <1>6, <1>7

-----------------------------------------------------------------------------
(* The index of names and its signature.                                   *)

HostAt(i) == IF i = 0 THEN Root ELSE hosts[i]
VersionAt(i, websocket) == router[<<HostAt(i), websocket>>].version

\* A signature is of fewer hosts than there are now, or of the same number and
\* of versions that were not later.
Behind(signature) ==
  \E n \in Nat : \E f, g \in [0..n -> Nat] :
    /\ signature[3] = [i \in 0..n |-> <<f[i], g[i]>>]
    /\ n <= Len(hosts)
    /\ n = Len(hosts) => \A i \in 0..n : f[i] <= VersionAt(i, FALSE) /\ g[i] <= VersionAt(i, TRUE)

IndexInv == IndexFresh /\ \A c \in cache : Behind(c.signature)

\* What the signature and the places of the hosts are made of
LEMMA SignatureIs ==
  ASSUME RoutingTypes
  PROVE  /\ Signature[3] = [i \in 0..Len(hosts) |-> <<VersionAt(i, FALSE), VersionAt(i, TRUE)>>]
         /\ Len(hosts) \in Nat
         /\ \A i \in 0..Len(hosts), websocket \in BOOLEAN :
              <<HostAt(i), websocket>> \in RouterId /\ VersionAt(i, websocket) \in Nat
         /\ \A h \in {Root} \union ToSet(hosts) : \E i \in 0..Len(hosts) : HostAt(i) = h
<1>1. Len(hosts) \in Nat /\ \A i \in 1..Len(hosts) : hosts[i] \in HostPattern
  BY DEF RoutingTypes
<1>2. Signature[3] = [i \in 0..Len(hosts) |-> <<VersionAt(i, FALSE), VersionAt(i, TRUE)>>]
  BY DEF Signature, VersionAt, HostAt
<1>3. \A i \in 0..Len(hosts) : HostAt(i) \in {Root} \union HostPattern
  BY <1>1 DEF HostAt
<1>4. \A i \in 0..Len(hosts), websocket \in BOOLEAN :
        <<HostAt(i), websocket>> \in RouterId /\ VersionAt(i, websocket) \in Nat
  BY <1>3 DEF RouterId, VersionAt, RoutingTypes, IsRouter
<1>5. ASSUME NEW h \in {Root} \union ToSet(hosts) PROVE \E i \in 0..Len(hosts) : HostAt(i) = h
  <2>1. CASE h = Root
    BY <1>1, <2>1 DEF HostAt
  <2>2. ASSUME NEW i \in 1..Len(hosts), hosts[i] = h PROVE \E j \in 0..Len(hosts) : HostAt(j) = h
    BY <1>1, <2>2 DEF HostAt
  <2> QED
    BY <1>1, <2>1, <2>2 DEF ToSet
<1> QED
  BY <1>1, <1>2, <1>4, <1>5

\* The index now is fresh: it was just built.
LEMMA UrlForIndex ==
  ASSUME RoutingTypes, IndexInv, UrlFor
  PROVE  IndexInv'
<1> DEFINE f == [i \in 0..Len(hosts) |-> VersionAt(i, FALSE)]
           g == [i \in 0..Len(hosts) |-> VersionAt(i, TRUE)]
<1>1. cache' = {[signature |-> Signature, index |-> BuildIndex]} /\ UNCHANGED <<hosts, router, routes>>
  BY DEF UrlFor
<1>2. Signature' = Signature /\ BuildIndex' = BuildIndex
  BY <1>1 DEF Signature, BuildIndex
<1>3. Behind(Signature)
  <2>1. f \in [0..Len(hosts) -> Nat] /\ g \in [0..Len(hosts) -> Nat]
    BY SignatureIs
  <2>2. Signature[3] = [i \in 0..Len(hosts) |-> <<f[i], g[i]>>]
    BY SignatureIs
  <2>3. \A i \in 0..Len(hosts) : f[i] <= VersionAt(i, FALSE) /\ g[i] <= VersionAt(i, TRUE)
    BY SignatureIs
  <2> HIDE DEF f, g
  <2>4. Len(hosts) \in Nat /\ Len(hosts) <= Len(hosts)
    BY SignatureIs
  <2>5. \E f1, g1 \in [0..Len(hosts) -> Nat] :
          /\ Signature[3] = [i \in 0..Len(hosts) |-> <<f1[i], g1[i]>>]
          /\ \A i \in 0..Len(hosts) : f1[i] <= VersionAt(i, FALSE) /\ g1[i] <= VersionAt(i, TRUE)
    BY <2>1, <2>2, <2>3
  <2> QED
    BY <2>4, <2>5 DEF Behind
<1>4. \A s : Behind(s)' <=> Behind(s)
  BY <1>1 DEF Behind, VersionAt, HostAt
<1> QED
  BY <1>1, <1>2, <1>3, <1>4 DEF IndexInv, IndexFresh

\* Where no table and no version changes, the index stays as good as it was.
LEMMA QuietIndex ==
  ASSUME RoutingTypes, IndexInv, Quiet
  PROVE  IndexInv'
<1>1. UNCHANGED <<hosts, routes, cache>>
      /\ \A r \in RouterId : router'[r].table = router[r].table /\ router'[r].version = router[r].version
  BY DEF Quiet
<1>2. \A i \in 0..Len(hosts), websocket \in BOOLEAN : VersionAt(i, websocket)' = VersionAt(i, websocket)
  BY <1>1, SignatureIs DEF VersionAt, HostAt
<1>3. Signature' = Signature
  <2>1. \A i \in 0..Len(hosts) :
          LET h == IF i = 0 THEN Root ELSE hosts[i]
          IN router'[<<h, FALSE>>].version = router[<<h, FALSE>>].version
             /\ router'[<<h, TRUE>>].version = router[<<h, TRUE>>].version
    BY <1>1, SignatureIs DEF HostAt
  <2> QED
    BY <1>1, <2>1 DEF Signature
<1>4. BuildIndex' = BuildIndex
  BY <1>1 DEF BuildIndex
<1>5. ASSUME NEW s, Behind(s) PROVE Behind(s)'
  <2>1. PICK n \in Nat : \E f, g \in [0..n -> Nat] :
          /\ s[3] = [i \in 0..n |-> <<f[i], g[i]>>]
          /\ n <= Len(hosts)
          /\ n = Len(hosts) => \A i \in 0..n : f[i] <= VersionAt(i, FALSE) /\ g[i] <= VersionAt(i, TRUE)
    BY <1>5 DEF Behind
  <2>2. PICK f, g \in [0..n -> Nat] :
          /\ s[3] = [i \in 0..n |-> <<f[i], g[i]>>]
          /\ n <= Len(hosts)
          /\ n = Len(hosts) => \A i \in 0..n : f[i] <= VersionAt(i, FALSE) /\ g[i] <= VersionAt(i, TRUE)
    BY <2>1
  <2>3. n = Len(hosts) => \A i \in 0..n : f[i] <= VersionAt(i, FALSE)' /\ g[i] <= VersionAt(i, TRUE)'
    BY <1>2, <2>2
  <2> QED
    BY <1>1, <2>2, <2>3 DEF Behind
<1> QED
  BY <1>1, <1>3, <1>4, <1>5 DEF IndexInv, IndexFresh

\* What was not later than a number is not a later one.
LEMMA NotLater ==
  ASSUME NEW x, NEW y \in Nat, NEW z \in Nat, x <= y, z > y
  PROVE  x # z
  OBVIOUS

\* A version that grew, or one more host, leaves every cached signature behind.
LEMMA NewerIndex ==
  ASSUME RoutingTypes, RoutingTypes', IndexInv, Newer
  PROVE  IndexInv'
<1>1. UNCHANGED <<hosts, cache>> /\ \A r \in RouterId : router'[r].version >= router[r].version
  BY DEF Newer
<1>2. PICK h \in {Root} \union ToSet(hosts), w \in BOOLEAN :
        router'[<<h, w>>].version > router[<<h, w>>].version
  BY DEF Newer
<1>3. PICK k \in 0..Len(hosts) : HostAt(k) = h
  BY SignatureIs
<1>4. \A i \in 0..Len(hosts), b \in BOOLEAN :
        /\ VersionAt(i, b) \in Nat /\ VersionAt(i, b)' \in Nat
        /\ VersionAt(i, b)' >= VersionAt(i, b)
  <2>1. \A i \in 0..Len(hosts) : HostAt(i)' = HostAt(i)
    BY <1>1 DEF HostAt
  <2> QED
    BY <1>1, <2>1, SignatureIs DEF VersionAt, RoutingTypes, IsRouter
<1>5. VersionAt(k, w)' > VersionAt(k, w)
  BY <1>1, <1>2, <1>3 DEF VersionAt, HostAt
<1>6. Signature[3]' = [i \in 0..Len(hosts) |-> <<VersionAt(i, FALSE)', VersionAt(i, TRUE)'>>]
  BY <1>1 DEF Signature, VersionAt, HostAt
<1>7. ASSUME NEW s, Behind(s) PROVE Behind(s)' /\ s # Signature'
  <2>1. PICK n \in Nat : \E f, g \in [0..n -> Nat] :
          /\ s[3] = [i \in 0..n |-> <<f[i], g[i]>>]
          /\ n <= Len(hosts)
          /\ n = Len(hosts) => \A i \in 0..n : f[i] <= VersionAt(i, FALSE) /\ g[i] <= VersionAt(i, TRUE)
    BY <1>7 DEF Behind
  <2>2. PICK f, g \in [0..n -> Nat] :
          /\ s[3] = [i \in 0..n |-> <<f[i], g[i]>>]
          /\ n <= Len(hosts)
          /\ n = Len(hosts) => \A i \in 0..n : f[i] <= VersionAt(i, FALSE) /\ g[i] <= VersionAt(i, TRUE)
    BY <2>1
  <2>3. n = Len(hosts) =>
          \A i \in 0..n : f[i] <= VersionAt(i, FALSE)' /\ g[i] <= VersionAt(i, TRUE)'
    <3> SUFFICES ASSUME n = Len(hosts), NEW i \in 0..n
                 PROVE  f[i] <= VersionAt(i, FALSE)' /\ g[i] <= VersionAt(i, TRUE)'
      OBVIOUS
    <3>1. f[i] \in Nat /\ g[i] \in Nat
      OBVIOUS
    <3>2. f[i] <= VersionAt(i, FALSE) /\ g[i] <= VersionAt(i, TRUE)
      BY <2>2
    <3>3. /\ VersionAt(i, FALSE) \in Nat /\ VersionAt(i, FALSE)' \in Nat
          /\ VersionAt(i, FALSE)' >= VersionAt(i, FALSE)
      BY <1>4
    <3>4. /\ VersionAt(i, TRUE) \in Nat /\ VersionAt(i, TRUE)' \in Nat
          /\ VersionAt(i, TRUE)' >= VersionAt(i, TRUE)
      BY <1>4
    <3> QED
      BY <3>1, <3>2, <3>3, <3>4
  <2>4. Behind(s)'
    BY <1>1, <2>2, <2>3 DEF Behind
  <2>5. ASSUME s = Signature' PROVE FALSE
    <3>1. [i \in 0..n |-> <<f[i], g[i]>>] = [i \in 0..Len(hosts) |-> <<VersionAt(i, FALSE)', VersionAt(i, TRUE)'>>]
      BY <1>6, <2>2, <2>5
    <3>2. n = Len(hosts)
      <4>1. 0..n = 0..Len(hosts)
        BY <3>1
      <4>2. Len(hosts) \in Nat
        BY SignatureIs
      <4> QED
        BY <4>1, <4>2
    <3>3. <<f[k], g[k]>> = <<VersionAt(k, FALSE)', VersionAt(k, TRUE)'>>
      BY <3>1, <3>2
    <3>4. f[k] <= VersionAt(k, FALSE) /\ g[k] <= VersionAt(k, TRUE)
      BY <2>2, <3>2
    <3>5. /\ VersionAt(k, FALSE) \in Nat /\ VersionAt(k, FALSE)' \in Nat
          /\ VersionAt(k, TRUE) \in Nat /\ VersionAt(k, TRUE)' \in Nat
      BY <1>4
    <3>6. f[k] = VersionAt(k, FALSE)' /\ g[k] = VersionAt(k, TRUE)'
      BY <3>3
    <3>7. w = FALSE \/ w = TRUE
      OBVIOUS
    <3>8. CASE w = FALSE
      <4>1. VersionAt(k, FALSE)' > VersionAt(k, FALSE)
        BY <1>5, <3>8
      <4> QED
        BY <3>4, <3>5, <3>6, <4>1, NotLater, Zenon
    <3>9. CASE w = TRUE
      <4>1. VersionAt(k, TRUE)' > VersionAt(k, TRUE)
        BY <1>5, <3>9
      <4> QED
        BY <3>4, <3>5, <3>6, <4>1, NotLater, Zenon
    <3> QED
      BY <3>7, <3>8, <3>9
  <2> QED
    BY <2>4, <2>5
<1> QED
  BY <1>1, <1>7 DEF IndexInv, IndexFresh

\* A host more makes the signature longer than any that was kept.
LEMMA GrownIndex ==
  ASSUME RoutingTypes, IndexInv, Grown
  PROVE  IndexInv'
<1>1. Len(hosts) \in Nat /\ Len(hosts') = Len(hosts) + 1 /\ UNCHANGED cache
  BY SignatureIs DEF Grown
<1>2. DOMAIN Signature[3]' = 0..(Len(hosts) + 1)
  BY <1>1 DEF Signature
<1>3. ASSUME NEW s, Behind(s) PROVE Behind(s)' /\ s # Signature'
  <2>1. PICK n \in Nat : \E f, g \in [0..n -> Nat] :
          s[3] = [i \in 0..n |-> <<f[i], g[i]>>] /\ n <= Len(hosts)
    BY <1>3 DEF Behind
  <2>2. DOMAIN s[3] = 0..n
    BY <2>1
  <2>3. 0..n # 0..(Len(hosts) + 1)
    BY <1>1, <2>1
  <2>4. Behind(s)'
    <3>1. n <= Len(hosts') /\ n # Len(hosts')
      BY <1>1, <2>1
    <3>2. \E f, g \in [0..n -> Nat] :
            /\ s[3] = [i \in 0..n |-> <<f[i], g[i]>>]
            /\ n <= Len(hosts')
            /\ n = Len(hosts') => \A i \in 0..n : f[i] <= VersionAt(i, FALSE)' /\ g[i] <= VersionAt(i, TRUE)'
      BY <2>1, <3>1
    <3> QED
      BY <3>2 DEF Behind
  <2> QED
    BY <1>2, <2>2, <2>3, <2>4
<1> QED
  BY <1>1, <1>3 DEF IndexInv, IndexFresh

-----------------------------------------------------------------------------
(* The hosts.                                                              *)

\* The sort keeps the number of hosts, and puts one in each place.
Order(hs, j, i) == IF HasParams(hs[j]) = HasParams(hs[i]) THEN j <= i ELSE HasParams(hs[i])
Place(hs, i) == Cardinality({j \in DOMAIN hs : Order(hs, j, i)})

\* The places are 1 to n, one for each host, in the order of the sort.
LEMMA Places ==
  ASSUME NEW n \in Nat, NEW hs, DOMAIN hs = 1..n
  PROVE  /\ \A i \in 1..n : Place(hs, i) \in 1..n
         /\ \A k \in 1..n : \E i \in 1..n : Place(hs, i) = k
         /\ \A i, j \in 1..n : Place(hs, i) = Place(hs, j) => i = j
         /\ \A i, j \in 1..n : Place(hs, i) < Place(hs, j) => Order(hs, i, j) /\ i # j
<1> DEFINE Upto(i) == {j \in 1..n : Order(hs, j, i)}
           N == {Place(hs, i) : i \in 1..n}
<1>0. \A h : HasParams(h) \in BOOLEAN
  BY DEF HasParams
<1>1. IsFiniteSet(1..n) /\ Cardinality(1..n) = n
  BY FS_Interval
<1>2. ASSUME NEW i \in 1..n
      PROVE  IsFiniteSet(Upto(i)) /\ Place(hs, i) = Cardinality(Upto(i)) /\ Place(hs, i) \in 1..n
  <2>1. Upto(i) \in SUBSET (1..n)
    OBVIOUS
  <2>2. IsFiniteSet(Upto(i)) /\ Cardinality(Upto(i)) <= n
    BY <1>1, <2>1, FS_Subset
  <2>3. Cardinality(Upto(i)) \in Nat
    BY <2>2, FS_CardinalityType
  <2>4. i \in Upto(i)
    BY DEF Order
  <2>5. Cardinality(Upto(i)) # 0
    BY <2>2, <2>4, FS_EmptySet
  <2> HIDE DEF Upto
  <2>6. Cardinality(Upto(i)) \in 1..n
    BY <2>2, <2>3, <2>5
  <2>7. Place(hs, i) = Cardinality(Upto(i))
    BY DEF Place, Upto
  <2> QED
    BY <2>2, <2>6, <2>7
<1>3. \A i, j \in 1..n : Order(hs, i, j) \/ Order(hs, j, i)
  BY <1>0 DEF Order
<1>4. \A i, j \in 1..n : Order(hs, i, j) /\ Order(hs, j, i) => i = j
  BY <1>0 DEF Order
<1>5. ASSUME NEW i \in 1..n, NEW j \in 1..n, Order(hs, i, j)
      PROVE  Upto(i) \in SUBSET Upto(j)
  <2>1. \A k \in 1..n : Order(hs, k, i) => Order(hs, k, j)
    BY <1>0, <1>5 DEF Order
  <2> QED
    BY <2>1
<1>6. ASSUME NEW i \in 1..n, NEW j \in 1..n, Order(hs, i, j)
      PROVE  /\ Place(hs, i) <= Place(hs, j)
             /\ Place(hs, i) = Place(hs, j) => i = j
  <2>1. Cardinality(Upto(i)) <= Cardinality(Upto(j))
        /\ (Cardinality(Upto(j)) = Cardinality(Upto(i)) => Upto(j) = Upto(i))
    BY <1>2, <1>5, <1>6, FS_Subset
  <2>2. j \in Upto(j)
    BY DEF Order
  <2>3. Upto(j) = Upto(i) => Order(hs, j, i)
    BY <2>2
  <2> HIDE DEF Upto
  <2> QED
    BY <1>2, <1>4, <1>6, <2>1, <2>3
<1>7. \A i, j \in 1..n : Place(hs, i) = Place(hs, j) => i = j
  BY <1>3, <1>6
<1>8. \A i, j \in 1..n : Place(hs, i) < Place(hs, j) => Order(hs, i, j) /\ i # j
  <2> SUFFICES ASSUME NEW i \in 1..n, NEW j \in 1..n, Place(hs, i) < Place(hs, j)
               PROVE  Order(hs, i, j) /\ i # j
    OBVIOUS
  <2>1. Place(hs, i) \in Nat /\ Place(hs, j) \in Nat
    <3>1. Place(hs, i) \in 1..n /\ Place(hs, j) \in 1..n
      BY <1>2, Zenon
    <3> QED
      BY <3>1
  <2>2. ~Order(hs, j, i)
    BY <1>6, <2>1
  <2> QED
    BY <1>3, <2>1, <2>2
<1>9. \A i \in 1..n : Place(hs, i) \in 1..n
  <2> HIDE DEF Upto, N
  <2> QED
    BY <1>2
<1>10. N = 1..n
  <2>1. N \in SUBSET (1..n)
    BY <1>9
  <2>2. ExistsBijection(1..n, N)
    <3> DEFINE f == [i \in 1..n |-> Place(hs, i)]
    <3>1. f \in Bijection(1..n, N)
      BY <1>7 DEF Bijection, Injection, Surjection, IsInjective
    <3> QED
      BY <3>1 DEF ExistsBijection
  <2>3. IsFiniteSet(N) /\ Cardinality(N) = n
    BY <1>1, <2>2, FS_Bijection
  <2> QED
    BY <1>1, <2>1, <2>3, FS_Subset
<1>11. \A k \in 1..n : \E i \in 1..n : Place(hs, i) = k
  <2> TAKE k \in 1..n
  <2>1. k \in N
    BY <1>10
  <2> QED
    BY <2>1
<1> QED
  BY <1>7, <1>8, <1>9, <1>11

\* The k-th of the sorted hosts is the one whose place is k.
LEMMA SortedIs ==
  ASSUME NEW n \in Nat, NEW hs, DOMAIN hs = 1..n
  PROVE  \E from \in [1..n -> 1..n] :
           /\ SortedHosts(hs) = [k \in 1..n |-> hs[from[k]]]
           /\ \A k \in 1..n : Place(hs, from[k]) = k
           /\ \A i \in 1..n : \E k \in 1..n : from[k] = i
<1> DEFINE from == [k \in 1..n |-> CHOOSE i \in 1..n : Place(hs, i) = k]
<1>1. \A k \in 1..n : from[k] \in 1..n /\ Place(hs, from[k]) = k
  <2> TAKE k \in 1..n
  <2>1. \E i \in 1..n : Place(hs, i) = k
    BY Places
  <2> QED
    BY <2>1
<1>2. SortedHosts(hs) = [k \in 1..n |-> hs[from[k]]]
  <2>1. SortedHosts(hs) = [k \in 1..n |-> hs[CHOOSE i \in 1..n : Place(hs, i) = k]]
    BY DEF SortedHosts, Place, Order
  <2> QED
    BY <2>1
<1>3. from \in [1..n -> 1..n]
  BY <1>1
<1> HIDE DEF from
<1>4. ASSUME NEW i \in 1..n PROVE \E k \in 1..n : from[k] = i
  <2>1. Place(hs, i) \in 1..n
    BY Places
  <2>2. from[Place(hs, i)] = i
    BY <1>1, <2>1, Places
  <2> QED
    BY <2>1, <2>2
<1> QED
  BY <1>1, <1>2, <1>3, <1>4

\* The hosts are those declared, once each, in the order of the sort.
HostsInv ==
  /\ declared \in Seq(HostPattern)
  /\ \A a, b \in DOMAIN declared : declared[a] = declared[b] => a = b
  /\ \A i \in DOMAIN hosts : \E a \in DOMAIN declared : declared[a] = hosts[i]
  /\ \A a \in DOMAIN declared : \E i \in DOMAIN hosts : hosts[i] = declared[a]
  /\ \A i, j \in DOMAIN hosts, a, b \in DOMAIN declared :
       i < j /\ hosts[i] = declared[a] /\ hosts[j] = declared[b] => Order(declared, a, b) /\ a # b

\* A host is declared: the sort puts it behind those of its kind.
LEMMA HostSorted ==
  ASSUME RoutingTypes, HostsInv, NEW h \in HostPattern, Host(h)
  PROVE  hosts' \in Seq(HostPattern) /\ Len(hosts') = Len(hosts) + 1 /\ HostsInv'
<1> DEFINE s == Append(hosts, h)
           n == Len(hosts) + 1
           m == Len(declared) + 1
<1>1. /\ hosts \in Seq(HostPattern) /\ declared \in Seq(HostPattern)
      /\ Len(hosts) \in Nat /\ Len(declared) \in Nat /\ n \in Nat /\ m \in Nat
      /\ DOMAIN hosts = 1..Len(hosts) /\ DOMAIN declared = 1..Len(declared)
  BY DEF RoutingTypes, HostsInv
<1>2. /\ DOMAIN s = 1..n /\ s[n] = h /\ \A i \in 1..Len(hosts) : s[i] = hosts[i]
      /\ \A i \in 1..n : s[i] \in HostPattern
  BY <1>1
<1>3. /\ declared' \in Seq(HostPattern) /\ DOMAIN declared' = 1..m /\ declared'[m] = h
      /\ \A a \in 1..Len(declared) : declared'[a] = declared[a]
  BY <1>1 DEF Host
<1>4. \A i \in 1..Len(hosts) : hosts[i] # h
  BY <1>1 DEF Host, ToSet
<1>5. \A a \in 1..Len(declared) : declared[a] # h
  BY <1>1, <1>4 DEF HostsInv
<1>6. hosts' = SortedHosts(s)
  BY DEF Host
<1> HIDE DEF s, n, m
<1>7. PICK from \in [1..n -> 1..n] :
        /\ SortedHosts(s) = [k \in 1..n |-> s[from[k]]]
        /\ \A k \in 1..n : Place(s, from[k]) = k
        /\ \A i \in 1..n : \E k \in 1..n : from[k] = i
  <2>1. n \in Nat /\ DOMAIN s = 1..n
    BY <1>1, <1>2
  <2> QED
    BY <2>1, SortedIs
<1>8. /\ hosts' \in Seq(HostPattern) /\ Len(hosts') = n /\ DOMAIN hosts' = 1..n
      /\ \A k \in 1..n : hosts'[k] = s[from[k]]
  <2>1. hosts' = [k \in 1..n |-> s[from[k]]]
    BY <1>6, <1>7
  <2>2. \A k \in 1..n : s[from[k]] \in HostPattern
    BY <1>2
  <2>3. hosts' \in [1..n -> HostPattern] /\ n \in Nat
    BY <1>1, <2>1, <2>2
  <2> QED
    BY <2>1, <2>3
<1>9. /\ \A i \in 1..n : i \in 1..Len(hosts) \/ i = n
      /\ \A a \in 1..m : a \in 1..Len(declared) \/ a = m
      /\ n \in 1..n /\ m \in 1..m
      /\ 1..Len(hosts) \subseteq 1..n /\ 1..Len(declared) \subseteq 1..m
  BY <1>1 DEF n, m
<1>10. \A a, b \in 1..m : declared'[a] = declared'[b] => a = b
  BY <1>1, <1>3, <1>5, <1>9 DEF HostsInv
<1>11. ASSUME NEW i \in 1..n PROVE \E a \in 1..m : declared'[a] = s[i]
  <2>1. CASE i = n
    BY <1>2, <1>3, <1>9, <2>1
  <2>2. CASE i \in 1..Len(hosts)
    <3>1. PICK a \in 1..Len(declared) : declared[a] = hosts[i]
      BY <1>1, <2>2 DEF HostsInv
    <3> QED
      BY <1>2, <1>3, <1>9, <2>2, <3>1
  <2> QED
    BY <1>9, <2>1, <2>2
<1>12. ASSUME NEW a \in 1..m PROVE \E i \in 1..n : s[i] = declared'[a]
  <2>1. CASE a = m
    BY <1>2, <1>3, <1>9, <2>1
  <2>2. CASE a \in 1..Len(declared)
    <3>1. PICK i \in 1..Len(hosts) : hosts[i] = declared[a]
      BY <1>1, <2>2 DEF HostsInv
    <3> QED
      BY <1>2, <1>3, <1>9, <2>2, <3>1
  <2> QED
    BY <1>9, <2>1, <2>2
<1>13. ASSUME NEW x \in 1..n, NEW y \in 1..n, NEW a \in 1..m, NEW b \in 1..m,
              Order(s, x, y), x # y, s[x] = declared'[a], s[y] = declared'[b]
       PROVE  Order(declared', a, b) /\ a # b
  <2>1. CASE HasParams(s[x]) # HasParams(s[y])
    BY <1>13, <2>1 DEF Order
  <2>2. CASE HasParams(s[x]) = HasParams(s[y])
    <3>1. x < y /\ x \in 1..Len(hosts) /\ a # m
      BY <1>1, <1>2, <1>3, <1>4, <1>13, <2>2 DEF Order, n
    <3>2. a \in 1..Len(declared)
      BY <1>9, <3>1
    <3>3. CASE y = n
      <4>1. b = m
        BY <1>2, <1>3, <1>10, <1>13, <1>9, <3>3
      <4>2. a <= b /\ a # b
        BY <1>1, <3>2, <4>1 DEF m
      <4> QED
        BY <1>13, <2>2, <4>2 DEF Order
    <3>4. CASE y # n
      <4>1. y \in 1..Len(hosts)
        BY <1>9, <3>4
      <4>2. b # m
        BY <1>2, <1>3, <1>4, <1>13, <4>1
      <4>3. b \in 1..Len(declared)
        BY <1>9, <4>2
      <4>4. hosts[x] = declared[a] /\ hosts[y] = declared[b]
        BY <1>2, <1>3, <1>13, <3>1, <3>2, <4>1, <4>3
      <4>5. Order(declared, a, b) /\ a # b
        <5>1. x \in DOMAIN hosts /\ y \in DOMAIN hosts /\ a \in DOMAIN declared /\ b \in DOMAIN declared
          BY <1>1, <3>1, <3>2, <4>1, <4>3
        <5> QED
          BY <3>1, <4>4, <5>1 DEF HostsInv
      <4> QED
        BY <1>3, <3>2, <4>3, <4>5 DEF Order
    <3> QED
      BY <3>3, <3>4
  <2> QED
    BY <2>1, <2>2
<1>14. ASSUME NEW i \in 1..n, NEW j \in 1..n, NEW a \in 1..m, NEW b \in 1..m,
              i < j, hosts'[i] = declared'[a], hosts'[j] = declared'[b]
       PROVE  Order(declared', a, b) /\ a # b
  <2>1. from[i] \in 1..n /\ from[j] \in 1..n
    BY <1>7
  <2>2. Place(s, from[i]) < Place(s, from[j])
    BY <1>7, <1>14
  <2>3. Order(s, from[i], from[j]) /\ from[i] # from[j]
    BY <1>1, <1>2, <2>1, <2>2, Places
  <2> QED
    BY <1>8, <1>13, <1>14, <2>1, <2>3
<1>15. \A i \in 1..n : \E a \in 1..m : declared'[a] = hosts'[i]
  <2> TAKE i \in 1..n
  <2>1. from[i] \in 1..n /\ hosts'[i] = s[from[i]]
    BY <1>7, <1>8
  <2> QED
    BY <1>11, <2>1
<1>16. \A a \in 1..m : \E k \in 1..n : hosts'[k] = declared'[a]
  <2> TAKE a \in 1..m
  <2>1. PICK i \in 1..n : s[i] = declared'[a]
    BY <1>12
  <2>2. PICK k \in 1..n : from[k] = i
    BY <1>7
  <2> QED
    BY <1>8, <2>1, <2>2
<1>17. HostsInv'
  <2>1. \A i, j \in DOMAIN hosts', a, b \in DOMAIN declared' :
          i < j /\ hosts'[i] = declared'[a] /\ hosts'[j] = declared'[b] => Order(declared', a, b) /\ a # b
    BY <1>3, <1>8, <1>14
  <2>2. /\ \A i \in DOMAIN hosts' : \E a \in DOMAIN declared' : declared'[a] = hosts'[i]
        /\ \A a \in DOMAIN declared' : \E i \in DOMAIN hosts' : hosts'[i] = declared'[a]
    BY <1>3, <1>8, <1>15, <1>16
  <2>3. \A a, b \in DOMAIN declared' : declared'[a] = declared'[b] => a = b
    BY <1>3, <1>10
  <2>4. declared' \in Seq(HostPattern)
    BY <1>3
  <2> QED
    BY <2>1, <2>2, <2>3, <2>4 DEF HostsInv, Order
<1> QED
  BY <1>8, <1>17 DEF n

\* A host that is declared leaves the other routers, and the routes, alone.
LEMMA HostStep ==
  ASSUME RoutingTypes, HostsInv, NEW h \in HostPattern, Host(h)
  PROVE  RoutingTypes' /\ HostsInv' /\ Grown
<1>1. hosts' \in Seq(HostPattern) /\ Len(hosts') = Len(hosts) + 1 /\ HostsInv'
  BY HostSorted
<1>2. IsRouter(EmptyRouter)
  BY FS_EmptySet DEF EmptyRouter, IsRouter, IsTable
<1>3. IsRouter([EmptyRouter EXCEPT !.constraints = router[<<Root, FALSE>>].constraints])
  BY <1>2 DEF EmptyRouter, IsRouter, IsTable
<1>4. \A r \in RouterId : IsRouter(router'[r])
  BY <1>3 DEF RoutingTypes, Host
<1>5. router' = [r \in RouterId |-> router'[r]]
  BY DEF Host
<1>6. IsRoutes(routes')
  BY DEF RoutingTypes, Host
<1> QED
  BY <1>1, <1>4, <1>5, <1>6 DEF RoutingTypes, Grown, Host

-----------------------------------------------------------------------------
(* The invariant.                                                          *)

RoutingInv == RoutingTypes /\ HostsInv /\ IndexInv

\* What declares no host leaves the hosts as they are.
LEMMA HostsKept ==
  ASSUME HostsInv, UNCHANGED <<hosts, declared>>
  PROVE  HostsInv'
BY DEF HostsInv, Order

\* A new App has no hosts and no index.
LEMMA RoutingInvInit == RoutingInit => RoutingInv
<1> SUFFICES ASSUME RoutingInit PROVE RoutingInv
  OBVIOUS
<1>1. HostsInv
  BY DEF RoutingInit, HostsInv
<1>2. IndexInv
  BY DEF RoutingInit, IndexInv, IndexFresh
<1> QED
  BY <1>1, <1>2, InitRouting DEF RoutingInv

\* Declarations of routes keep the index good, or make its signature old.
LEMMA IndexKept ==
  ASSUME RoutingTypes, RoutingTypes', IndexInv, Quiet \/ Newer
  PROVE  IndexInv'
BY QuietIndex, NewerIndex

\* Every call on the App keeps the invariant.
LEMMA RoutingInvNext == RoutingInv /\ [RoutingNext]_routingVars => RoutingInv'
<1> SUFFICES ASSUME RoutingInv, [RoutingNext]_routingVars PROVE RoutingInv'
  OBVIOUS
<1> USE DEF RoutingInv
<1>1. ASSUME NEW c \in Custom, Constraint(c) PROVE RoutingInv'
  <2>1. UNCHANGED <<hosts, declared>>
    BY <1>1 DEF Constraint
  <2> QED
    BY <1>1, <2>1, ConstraintStep, HostsKept, IndexKept
<1>2. ASSUME NEW h \in HostPattern, Host(h) PROVE RoutingInv'
  BY <1>2, HostStep, GrownIndex
<1>3. ASSUME NEW d \in Declaration, Register(d) PROVE RoutingInv'
  <2>1. UNCHANGED <<hosts, declared>>
    BY <1>3 DEF Register
  <2> QED
    BY <1>3, <2>1, RegisterStep, HostsKept, IndexKept
<1>4. ASSUME NEW s \in Static, StaticRoute(s) PROVE RoutingInv'
  <2>1. UNCHANGED <<hosts, declared>>
    BY <1>4 DEF StaticRoute
  <2> QED
    BY <1>4, <2>1, StaticStep, HostsKept, IndexKept
<1>5. ASSUME NEW d \in Documented, Docs(d) PROVE RoutingInv'
  <2>1. UNCHANGED <<hosts, declared>>
    BY <1>5 DEF Docs
  <2> QED
    BY <1>5, <2>1, DocsStep, HostsKept, IndexKept
<1>6. CASE UrlFor
  <2>1. UNCHANGED <<hosts, declared, router, routes>>
    BY <1>6 DEF UrlFor
  <2>2. RoutingTypes'
    BY <2>1 DEF RoutingTypes, IsRoutes, IsRouter, IsTable
  <2> QED
    BY <1>6, <2>1, <2>2, HostsKept, UrlForIndex
<1>7. CASE UNCHANGED routingVars
  <2>1. UNCHANGED <<hosts, declared, router, routes, cache>>
    BY <1>7 DEF routingVars
  <2>2. RoutingTypes' /\ Quiet
    BY <2>1 DEF RoutingTypes, IsRoutes, IsRouter, IsTable, Quiet
  <2> QED
    BY <2>1, <2>2, HostsKept, IndexKept
<1> QED
  BY <1>1, <1>2, <1>3, <1>4, <1>5, <1>6, <1>7 DEF RoutingNext, Route, WebSocket

\* So it always holds.
LEMMA RoutingHolds == RoutingSpec => []RoutingInv
BY RoutingInvInit, RoutingInvNext, PTL DEF RoutingSpec

\* An index kept from an earlier url_for() is used only while it is the one
\* that would be built now.
THEOREM Index == RoutingSpec => []IndexFresh
<1>1. RoutingInv => IndexFresh
  BY DEF RoutingInv, IndexInv
<1> QED
  BY <1>1, RoutingHolds, PTL

-----------------------------------------------------------------------------
(* Requests.                                                               *)

\* A request is dispatched to its owner, unless no route of the owner reaches
\* the path.
LEMMA DispatchSound ==
  ASSUME RoutingTypes, NEW labels, NEW websocket, NEW path, NEW method,
         <<Root, websocket>> \in RouterId, <<HostFor(labels), websocket>> \in RouterId
  PROVE  LET found == Dispatch(labels, websocket, path, method)
             owner == HostFor(labels)
         IN /\ found.host \in {owner, Root}
            /\ found.host # owner => \A e \in router[<<owner, websocket>>].table : ~Reaches(e.pattern, path)
            /\ found.kind = "found" =>
                 \E e \in router[<<found.host, websocket>>].table : e.key = found.key /\ Reaches(e.pattern, path)
<1> DEFINE owner == HostFor(labels)
           Found(h) == MatchRequest(router[<<h, websocket>>], path, method)
           found == Dispatch(labels, websocket, path, method)
<1>1. ASSUME NEW h, <<h, websocket>> \in RouterId
      PROVE  /\ Found(h).kind = "found" =>
                  \E e \in router[<<h, websocket>>].table : e.key = Found(h).key /\ Reaches(e.pattern, path)
             /\ Found(h).kind = "none" => \A e \in router[<<h, websocket>>].table : ~Reaches(e.pattern, path)
  <2>1. IsTable(router[<<h, websocket>>].table)
    BY <1>1 DEF RoutingTypes, IsRouter
  <2> QED
    BY <2>1, RequestSound
<1> HIDE DEF Found
<1>2. found = IF Found(owner).kind # "none"
              THEN [kind |-> Found(owner).kind, key |-> Found(owner).key, host |-> owner]
              ELSE [kind |-> Found(Root).kind, key |-> Found(Root).key, host |-> Root]
  BY DEF Dispatch, Found
<1>3. <<Root, websocket>> \in RouterId /\ <<owner, websocket>> \in RouterId
  OBVIOUS
<1> HIDE DEF owner, found
<1>4. CASE Found(owner).kind # "none"
  <2>1. found.kind = Found(owner).kind /\ found.key = Found(owner).key /\ found.host = owner
    BY <1>2, <1>4
  <2> QED
    BY <1>1, <1>3, <2>1 DEF owner, found
<1>5. CASE Found(owner).kind = "none"
  <2>1. found.kind = Found(Root).kind /\ found.key = Found(Root).key /\ found.host = Root
    BY <1>2, <1>5
  <2> QED
    BY <1>1, <1>3, <1>5, <2>1 DEF owner, found
<1> QED
  BY <1>4, <1>5

\* The first host that fits is the owner: the literal one that was declared,
\* or else the first declared of those that fit.
LEMMA OwnerFirst ==
  ASSUME RoutingTypes, HostsInv, NEW labels
  PROVE  LET fits == {i \in DOMAIN declared : HostMatch(declared[i], labels)}
             literal == {i \in fits : HostParams(declared[i]) = {}}
         IN /\ HostFor(labels) = IF fits = {} THEN Root
                                 ELSE declared[Min(IF literal # {} THEN literal ELSE fits)]
            /\ HostFor(labels) \in {Root} \union HostPattern
<1> DEFINE tried == {i \in DOMAIN hosts : HostMatch(hosts[i], labels)}
           fits == {i \in DOMAIN declared : HostMatch(declared[i], labels)}
           literal == {i \in fits : HostParams(declared[i]) = {}}
           chosen == IF literal # {} THEN literal ELSE fits
<1>1. /\ hosts \in Seq(HostPattern) /\ declared \in Seq(HostPattern)
      /\ Len(hosts) \in Nat /\ Len(declared) \in Nat
      /\ DOMAIN hosts = 1..Len(hosts) /\ DOMAIN declared = 1..Len(declared)
  BY DEF RoutingTypes, HostsInv
<1>2. HostFor(labels) = IF tried = {} THEN Root ELSE hosts[Min(tried)]
  BY DEF HostFor
<1>3. tried \in SUBSET Nat /\ fits \in SUBSET Nat /\ literal \in SUBSET fits /\ chosen \in SUBSET fits
  BY <1>1
<1>4. fits = {} => tried = {}
  BY DEF HostsInv
<1>5. tried = {} => fits = {}
  BY DEF HostsInv
<1>6. ASSUME fits # {}
      PROVE  /\ hosts[Min(tried)] = declared[Min(chosen)]
             /\ hosts[Min(tried)] \in HostPattern
  <2> DEFINE i == Min(tried)
             b == Min(chosen)
  <2>1. chosen # {} /\ tried # {} /\ chosen \in SUBSET Nat
    BY <1>3, <1>4, <1>5, <1>6
  <2>2. i \in tried /\ \A j \in tried : i <= j
    BY <1>3, <2>1, MinIsLeast
  <2>3. b \in chosen /\ \A a \in chosen : b <= a
    BY <2>1, MinIsLeast
  <2>4. i \in DOMAIN hosts /\ HostMatch(hosts[i], labels) /\ b \in fits
    BY <1>3, <2>2, <2>3
  <2>5. b \in DOMAIN declared /\ HostMatch(declared[b], labels)
    BY <2>4
  <2>6. PICK a \in DOMAIN declared : declared[a] = hosts[i]
    BY <2>4 DEF HostsInv
  <2>7. PICK j \in DOMAIN hosts : hosts[j] = declared[b]
    BY <2>5 DEF HostsInv
  <2>8. a \in fits
    BY <2>4, <2>6
  <2>9. j \in tried
    BY <2>5, <2>7
  <2>10. \A c : c \in literal <=> c \in fits /\ ~HasParams(declared[c])
    BY DEF HasParams
  <2> HIDE DEF tried, fits, i, b, literal
  <2>11. i \in Nat /\ j \in Nat /\ a \in Nat /\ b \in Nat
    BY <1>1, <2>4, <2>5, <2>6, <2>7
  <2>12. i <= j
    BY <2>2, <2>9
  <2>13. CASE i = j
    BY <1>1, <2>4, <2>7, <2>13 DEF i, b
  <2>14. CASE i # j
    <3>1. i < j
      BY <2>11, <2>12, <2>14
    <3>2. Order(declared, a, b) /\ a # b
      BY <2>4, <2>5, <2>6, <2>7, <3>1 DEF HostsInv
    <3>3. a \in chosen
      BY <2>3, <2>8, <2>10, <3>2 DEF Order
    <3>4. b <= a
      BY <2>3, <3>3
    <3>5. ~(a <= b)
      BY <2>11, <3>2, <3>4
    <3>6. HasParams(declared[a]) # HasParams(declared[b]) /\ HasParams(declared[b])
      BY <3>2, <3>5 DEF Order, HasParams
    <3> QED
      BY <2>3, <2>8, <2>10, <3>3, <3>6
  <2> QED
    BY <2>13, <2>14
<1>7. CASE fits = {}
  BY <1>2, <1>4, <1>7
<1>8. CASE fits # {}
  <2>1. HostFor(labels) = hosts[Min(tried)]
    BY <1>2, <1>5, <1>8
  <2> QED
    BY <1>6, <1>8, <2>1
<1> QED
  BY <1>7, <1>8

\* A request belongs to the literal host it fits, or to the first declared of
\* the others; routes without a host answer only what the owner does not have.
THEOREM Owners == RoutingSpec => []OwnerAnswers
<1>1. RoutingInv => OwnerAnswers
  <2> SUFFICES ASSUME RoutingInv, NEW labels \in HostName, NEW websocket \in BOOLEAN,
                      NEW path \in Path, NEW method \in Method
               PROVE  LET fits == {i \in DOMAIN declared : HostMatch(declared[i], labels)}
                          literal == {i \in fits : HostParams(declared[i]) = {}}
                          owner == IF fits = {} THEN Root ELSE declared[Min(IF literal # {} THEN literal ELSE fits)]
                          found == Dispatch(labels, websocket, path, method)
                      IN \/ found.host = owner
                         \/ /\ found.host = Root
                            /\ \A e \in router[<<owner, websocket>>].table : ~Reaches(e.pattern, path)
    BY DEF OwnerAnswers
  <2> DEFINE fits == {i \in DOMAIN declared : HostMatch(declared[i], labels)}
             literal == {i \in fits : HostParams(declared[i]) = {}}
             owner == IF fits = {} THEN Root ELSE declared[Min(IF literal # {} THEN literal ELSE fits)]
             found == Dispatch(labels, websocket, path, method)
  <2>1. HostFor(labels) = owner /\ HostFor(labels) \in {Root} \union HostPattern
    BY OwnerFirst DEF RoutingInv
  <2> HIDE DEF fits, literal, owner
  <2>2. /\ found.host \in {HostFor(labels), Root}
        /\ found.host # HostFor(labels) =>
             \A e \in router[<<HostFor(labels), websocket>>].table : ~Reaches(e.pattern, path)
        /\ found.kind = "found" =>
             \E e \in router[<<found.host, websocket>>].table : e.key = found.key /\ Reaches(e.pattern, path)
    <3>1. RoutingTypes
      BY DEF RoutingInv
    <3>2. <<Root, websocket>> \in RouterId /\ <<HostFor(labels), websocket>> \in RouterId
      BY <2>1 DEF RouterId
    <3> QED
      BY <3>1, <3>2, DispatchSound
  <2> HIDE DEF found
  <2>3. \/ found.host = owner
        \/ /\ found.host = Root
           /\ \A e \in router[<<owner, websocket>>].table : ~Reaches(e.pattern, path)
    BY <2>1, <2>2
  <2> QED
    BY <2>3 DEF fits, literal, owner, found
<1> QED
  BY <1>1, RoutingHolds, PTL

\* Every described route that answers on a host is in that host's document,
\* unless another one that is shown there overwrites it.
THEOREM Documents == RoutingSpec => []DocsComplete
<1>1. RoutingInv => DocsComplete
  <2> SUFFICES ASSUME RoutingInv, NEW labels \in HostName, NEW path \in Path, NEW method \in Method,
                      Dispatch(labels, FALSE, path, method).kind = "found",
                      Dispatch(labels, FALSE, path, method).key[1] = "func",
                      routes[FALSE][Dispatch(labels, FALSE, path, method).key].include
               PROVE  \E e \in Shown(labels) :
                        /\ e.key = Dispatch(labels, FALSE, path, method).key
                        /\ e \in Described(labels) \/ \E u \in Shown(labels) : Overwrites(labels, u, e)
    BY DEF DocsComplete
  <2> DEFINE found == Dispatch(labels, FALSE, path, method)
             owner == HostFor(labels)
  <2>1. owner \in {Root} \union HostPattern
    BY OwnerFirst DEF RoutingInv
  <2>2. /\ found.host \in {owner, Root}
        /\ found.host # owner => \A e \in router[<<owner, FALSE>>].table : ~Reaches(e.pattern, path)
        /\ found.kind = "found" =>
             \E e \in router[<<found.host, FALSE>>].table : e.key = found.key /\ Reaches(e.pattern, path)
    <3>1. RoutingTypes
      BY DEF RoutingInv
    <3>2. PICK http : http = FALSE
      OBVIOUS
    <3>3. <<Root, http>> \in RouterId /\ <<HostFor(labels), http>> \in RouterId
      BY <2>1, <3>2 DEF RouterId
    <3>4. LET here == Dispatch(labels, http, path, method)
          IN /\ here.host \in {owner, Root}
             /\ here.host # owner => \A e \in router[<<owner, http>>].table : ~Reaches(e.pattern, path)
             /\ here.kind = "found" =>
                  \E e \in router[<<here.host, http>>].table : e.key = here.key /\ Reaches(e.pattern, path)
      BY <3>1, <3>3, DispatchSound
    <3> QED
      BY <3>2, <3>4
  <2>3. PICK e \in router[<<found.host, FALSE>>].table : e.key = found.key /\ Reaches(e.pattern, path)
    BY <2>2
  <2>4. e \in RoutesFor(labels)
    <3>1. CASE found.host = owner
      BY <2>3, <3>1 DEF RoutesFor
    <3>2. CASE found.host # owner
      <4>1. e \in router[<<Root, FALSE>>].table
        BY <2>2, <2>3, <3>2
      <4>2. \A u \in router[<<owner, FALSE>>].table : u.pattern # e.pattern
        BY <2>2, <2>3, <3>2
      <4>3. <<e.pattern, e.method>> \notin {<<u.pattern, u.method>> : u \in router[<<owner, FALSE>>].table}
        BY <4>2
      <4> QED
        BY <4>1, <4>3 DEF RoutesFor
    <3> QED
      BY <3>1, <3>2
  <2>5. e \in Shown(labels)
    BY <2>3, <2>4 DEF Shown
  <2>6. e \in Described(labels) \/ \E u \in Shown(labels) : Overwrites(labels, u, e)
    BY <2>5 DEF Described
  <2> QED
    BY <2>3, <2>5, <2>6
<1> QED
  BY <1>1, RoutingHolds, PTL

\* A link leads to the route its name points to.
THEOREM Links == RoutingSpec => []LinkReaches
<1>1. RoutingInv => LinkReaches
  <2> SUFFICES ASSUME RoutingInv, NEW name \in {u.name : u \in BuildIndex},
                      NEW t \in Lookup(BuildIndex, name), NEW value \in Value, NEW asked \in HostName,
                      NEW path \in PathFor(t, value)
               PROVE  LET labels == NetLoc(t, "acme", asked)
                          found == Dispatch(labels, t.websocket, path, t.method)
                          owner == HostFor(labels)
                          elsewhere == t.host # Root /\ owner # t.host
                          shadowed == t.host = Root /\ RouterMatch(router[<<owner, t.websocket>>], path, t.method).kind # "none"
                      IN elsewhere \/ (shadowed /\ owner # Root) \/ (found.kind = "found" /\ found.key = t.key)
    BY DEF LinkReaches
  <2> DEFINE labels == NetLoc(t, "acme", asked)
             owner == HostFor(labels)
             On(h) == RouterMatch(router[<<h, t.websocket>>], path, t.method)
             Asked(h) == MatchRequest(router[<<h, t.websocket>>], path, t.method)
             found == Dispatch(labels, t.websocket, path, t.method)
  <2>1. On(t.host).kind = "found" /\ On(t.host).key = t.key
    BY DEF PathFor, Reached
  <2>2. Asked(t.host) = On(t.host)
    BY <2>1 DEF MatchRequest
  <2>3. On(owner).kind = "none" => Asked(owner).kind = "none"
    BY DEF MatchRequest
  <2>4. found = IF Asked(owner).kind # "none"
                THEN [kind |-> Asked(owner).kind, key |-> Asked(owner).key, host |-> owner]
                ELSE [kind |-> Asked(Root).kind, key |-> Asked(Root).key, host |-> Root]
    BY DEF Dispatch
  <2> HIDE DEF labels, owner, On, Asked, found
  <2>5. Asked(owner).kind # "none" => found.kind = Asked(owner).kind /\ found.key = Asked(owner).key
    BY <2>4
  <2>6. Asked(owner).kind = "none" => found.kind = Asked(Root).kind /\ found.key = Asked(Root).key
    BY <2>4
  <2>7. ASSUME owner = t.host PROVE found.kind = "found" /\ found.key = t.key
    <3>1. Asked(owner) = On(t.host)
      BY <2>2, <2>7
    <3> QED
      BY <2>1, <2>5, <3>1
  <2>8. ASSUME owner # t.host, t.host = Root, On(owner).kind = "none"
        PROVE  found.kind = "found" /\ found.key = t.key
    <3>1. Asked(Root) = On(t.host)
      BY <2>2, <2>8
    <3> QED
      BY <2>1, <2>3, <2>6, <2>8, <3>1
  <2>9. \/ t.host # Root /\ owner # t.host
        \/ owner # Root /\ t.host = Root /\ On(owner).kind # "none"
        \/ found.kind = "found" /\ found.key = t.key
    BY <2>7, <2>8
  <2> QED
    BY <2>9 DEF labels, owner, On, found
<1> QED
  BY <1>1, RoutingHolds, PTL
=============================================================================
