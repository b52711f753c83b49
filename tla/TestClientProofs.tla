-------------------------- MODULE TestClientProofs --------------------------
(***************************************************************************)
(* For any number of blocks, of any kind: nothing of the app runs on after *)
(* a block, errors that it logged reach the test, no wait is for a message *)
(* that cannot come, and secure cookies stay on https.                     *)
(*                                                                         *)
(* The inductive invariant says where each kind of block can be (Places),  *)
(* that _DONE is the last message of a task that is over, and who may have *)
(* taken it (DoneLast, DoneKept), that a catcher is installed while its    *)
(* block is on (Listening) and has what was logged (Collected), that a     *)
(* WebSocketDisconnect ends a block only on its way in (Refused), and that *)
(* the jar keeps the flag of its cookie (Flagged).                         *)
(***************************************************************************)
EXTENDS TestClient, SequenceTheorems, TLAPS

Message == {"start", "more", "last", "accept", "send", "close", "complete", "failed", "done"}
Exception == {"none", "test", "timeout", "raised", "cancelled", "disconnect", "protocol", "logged"}

TestTypeOK ==
  /\ pc \in [Block -> {"out", "starting", "reading", "open", "stopping", "closing", "finishing", "left"}]
  /\ raising \in [Block -> Exception] /\ outcome \in [Block -> Exception]
  /\ entered \in [Block -> BOOLEAN] /\ told \in [Block -> SUBSET Exception]
  /\ complete \in [Block -> BOOLEAN] /\ gone \in [Block -> BOOLEAN]

AppTypeOK ==
  /\ task \in [Block -> {"none", "running", "ended", "raised", "cancelled"}]
  /\ queue \in [Block -> Seq(Message)] /\ sends \in [Block -> Nat]
  /\ cancelling \in [Block -> BOOLEAN] /\ logged \in [Block -> BOOLEAN]
  /\ catcher \in [Block -> BOOLEAN] /\ errors \in [Block -> BOOLEAN]

CookieTypeOK ==
  /\ reply \in [Block -> [cookie : {"keep", "secret", "plain", "expired"}, to : {"none", "http", "https"}]]
  /\ hops \in [Block -> 0..MaxRedirects] /\ secure \in [Block -> BOOLEAN]
  /\ sent \in [Block -> {"none", "secret", "plain"}]
  /\ jar \in [value : {"none", "secret", "plain"}, secure : BOOLEAN]

\* The types of the variables
TypeOK ==
  /\ setup \in Setup /\ loop \in {"open", "closing", "closed"}
  /\ TestTypeOK /\ AppTypeOK /\ CookieTypeOK

\* Where a block of each kind can be
Places ==
  \A b \in Block :
    /\ pc[b] = "out" => task[b] = "none"
    /\ pc[b] # "out" => kind[b] # "unused"
    /\ pc[b] = "open" => kind[b] # "request"
    /\ pc[b] = "reading" => kind[b] # "lifespan"
    /\ pc[b] = "closing" => kind[b] = "websocket"
    /\ pc[b] = "stopping" => kind[b] = "lifespan"
    /\ pc[b] # "left" => outcome[b] = "none"

\* _DONE is put once, after everything else, when the task is over.
DoneLast ==
  \A b \in Block :
    /\ \A i \in 1..Len(queue[b]) : queue[b][i] = "done" => Over(b) /\ i = Len(queue[b])
    /\ Over(b) /\ queue[b] # <<>> => queue[b][Len(queue[b])] = "done"

\* It is still in the queue, unless a wait that ends with it took it.
DoneKept ==
  \A b \in Block : Over(b) /\ queue[b] = <<>> =>
    /\ kind[b] # "websocket"
    /\ kind[b] = "stream" /\ pc[b] \in {"starting", "open", "reading"} => told[b] # {}
    /\ kind[b] \in {"request", "lifespan"} => ~InNext(b)

\* A block that is on has its catcher.
Listening ==
  \A b \in Block :
    /\ kind[b] = "lifespan" => ~catcher[b]
    /\ setup.enabled /\ kind[b] # "lifespan" /\ pc[b] \notin {"out", "left"} => catcher[b]

\* What the app logged is collected as long as its block is on, unless it was
\* raised in the test.
Collected ==
  \A b \in Block : setup.enabled /\ kind[b] # "lifespan" /\ logged[b] /\ pc[b] # "left" =>
    errors[b] \/ "logged" \in told[b]

\* A WebSocketDisconnect waits for the task only where __aenter__ raises it.
Refused ==
  \A b \in Block : pc[b] = "finishing" /\ raising[b] = "disconnect" => kind[b] = "websocket" /\ ~entered[b]

\* The jar's cookie has the flag it came with.
Flagged == jar.value = "secret" => jar.secure

IInv ==
  /\ TypeOK /\ Places /\ NothingRuns /\ DoneLast /\ DoneKept
  /\ Listening /\ LoggerClean /\ Refused /\ Collected /\ ErrorsSurface /\ Flagged /\ SecureStays

-----------------------------------------------------------------------------
(* A step is of one block, or of TestClient.close().                       *)

AppStep(b) ==
  \/ \E message \in Messages(b) : AppSend(b, message)
  \/ AppLog(b)
  \/ \E how \in {"ended", "raised", "cancelled"} : AppOver(b, how)

TestStep(b) ==
  \/ Enter(b) \/ Receive(b) \/ NextTimeout(b) \/ Read(b) \/ Close(b)
  \/ \E exception \in {"none", "test"} : Leave(b, exception)
  \/ Finished(b) \/ Closed(b) \/ Responded(b) \/ FinishTimeout(b)

\* The kinds of steps.
LEMMA Steps ==
  ASSUME [Next]_vars
  PROVE  \/ \E b \in Block : AppStep(b) \/ TestStep(b)
         \/ CloseLoop \/ LoopClosed \/ UNCHANGED vars
  BY DEF Next, AppStep, TestStep

\* A step of the app leaves the test, the catchers and the cookies alone.
LEMMA AppKeeps ==
  ASSUME NEW b \in Block, AppStep(b)
  PROVE  UNCHANGED <<setup, test, catcher, cancelling, cookies, loop>>
  BY DEF AppStep, AppSend, AppLog, AppOver, test, caught, cookies

\* A step of the test logs and sends nothing.
LEMMA TestKeeps ==
  ASSUME NEW b \in Block, TestStep(b)
  PROVE  UNCHANGED <<setup, logged, reply, loop>>
  BY DEF TestStep, Enter, Receive, NextTimeout, Read, Close, Leave, Finished, Closed, Responded, FinishTimeout,
         app

-----------------------------------------------------------------------------
(* The types.                                                              *)

\* The options of a test have the types that the module assumes.
LEMMA SetupType ==
  ASSUME TypeOK
  PROVE  /\ kind \in [Block -> {"request", "stream", "websocket", "lifespan", "unused"}]
         /\ sync \in BOOLEAN /\ setup.enabled \in BOOLEAN /\ setup.secure \in BOOLEAN
         /\ setup.replies \subseteq [cookie : {"keep", "secret", "plain", "expired"}, to : {"none", "http", "https"}]
  BY TestClientAssumption DEF TypeOK, kind, sync

\* The first state has its types.
LEMMA InitTypeOK == Init => TypeOK
<1> SUFFICES ASSUME Init PROVE TypeOK
  OBVIOUS
<1>1. TestTypeOK
  BY DEF Init, TestTypeOK, All, Exception
<1>2. AppTypeOK
  BY DEF Init, AppTypeOK, All
<1>3. CookieTypeOK
  BY TestClientAssumption DEF Init, CookieTypeOK, All
<1> QED
  BY <1>1, <1>2, <1>3 DEF Init, TypeOK

\* Every step of the app keeps them.
LEMMA AppTypes ==
  ASSUME TypeOK, NEW b \in Block, AppStep(b)
  PROVE  TypeOK'
<1>1. setup' \in Setup /\ loop' \in {"open", "closing", "closed"} /\ TestTypeOK'
  BY AppKeeps DEF TypeOK, TestTypeOK, test
<1>2. CookieTypeOK'
  <2>1. reply' \in [Block -> [cookie : {"keep", "secret", "plain", "expired"}, to : {"none", "http", "https"}]]
    <3>1. CASE AppLog(b) \/ \E how \in {"ended", "raised", "cancelled"} : AppOver(b, how)
      BY <3>1 DEF AppLog, AppOver, TypeOK, CookieTypeOK
    <3>2. ASSUME NEW message, AppSend(b, message)
          PROVE  reply' \in [Block -> [cookie : {"keep", "secret", "plain", "expired"}, to : {"none", "http", "https"}]]
      <4>1. PICK r \in IF message = "start" THEN setup.replies ELSE {reply[b]} : reply' = [reply EXCEPT ![b] = r]
        BY <3>2 DEF AppSend
      <4> QED
        BY <4>1, SetupType DEF TypeOK, CookieTypeOK
    <3> QED
      BY <3>1, <3>2 DEF AppStep
  <2> QED
    BY <2>1, AppKeeps DEF TypeOK, CookieTypeOK, cookies
<1>3. AppTypeOK'
  <2>1. CASE \E message \in Messages(b) : AppSend(b, message)
    <3>1. PICK message \in Messages(b) : AppSend(b, message)
      BY <2>1
    <3>2. message \in Message
      BY DEF Messages, Message
    <3>3. queue' \in [Block -> Seq(Message)] /\ sends' \in [Block -> Nat]
      BY <3>1, <3>2 DEF AppSend, TypeOK, AppTypeOK
    <3> QED
      BY <3>1, <3>3 DEF AppSend, TypeOK, AppTypeOK, caught
  <2>2. CASE AppLog(b)
    BY <2>2 DEF AppLog, TypeOK, AppTypeOK
  <2>3. CASE \E how \in {"ended", "raised", "cancelled"} : AppOver(b, how)
    <3>1. "done" \in Message
      BY DEF Message
    <3>2. queue' \in [Block -> Seq(Message)]
      BY <2>3, <3>1 DEF AppOver, TypeOK, AppTypeOK
    <3> QED
      BY <2>3, <3>2 DEF AppOver, TypeOK, AppTypeOK, caught
  <2> QED
    BY <2>1, <2>2, <2>3 DEF AppStep
<1> QED
  BY <1>1, <1>2, <1>3 DEF TypeOK

\* Going on after a message keeps the types of what it changes.
LEMMA ProceedTypes ==
  ASSUME TypeOK, NEW b \in Block, NEW message, Proceed(b, message)
  PROVE  TestTypeOK' /\ cancelling' \in [Block -> BOOLEAN]
<1> USE DEF TypeOK, TestTypeOK
<1>1. UNCHANGED <<outcome, told, cancelling>>
  BY DEF Proceed
<1>2. complete' \in [Block -> BOOLEAN] /\ gone' \in [Block -> BOOLEAN]
  BY DEF Proceed
<1>3. pc' \in [Block -> {"out", "starting", "reading", "open", "stopping", "closing", "finishing", "left"}]
  BY DEF Proceed, Finish
<1>4. raising' \in [Block -> Exception] /\ entered' \in [Block -> BOOLEAN]
  BY DEF Proceed, Finish, Exception
<1> QED
  BY <1>1, <1>2, <1>3, <1>4 DEF AppTypeOK

\* So does an exception.
LEMMA FailTypes ==
  ASSUME TypeOK, NEW b \in Block, NEW exception \in Exception, Fail(b, exception)
  PROVE  TestTypeOK' /\ cancelling' \in [Block -> BOOLEAN]
<1> USE DEF TypeOK, TestTypeOK
<1>1. UNCHANGED entered
  BY DEF Fail
<1>2. complete' \in [Block -> BOOLEAN] /\ told' \in [Block -> SUBSET Exception]
  BY DEF Fail
<1>3. gone' \in [Block -> BOOLEAN]
  <2>1. Http(b) \in BOOLEAN
    BY DEF Http
  <2>2. gone' = gone \/ gone' = [gone EXCEPT ![b] = Http(b)]
    BY DEF Fail
  <2> QED
    BY <2>1, <2>2
<1>4. pc' \in [Block -> {"out", "starting", "reading", "open", "stopping", "closing", "finishing", "left"}]
  BY DEF Fail, Finish
<1>5. raising' \in [Block -> Exception] /\ outcome' \in [Block -> Exception]
  BY DEF Fail, Finish
<1>6. cancelling' \in [Block -> BOOLEAN]
  BY DEF Fail, AppTypeOK
<1> QED
  BY <1>1, <1>2, <1>3, <1>4, <1>5, <1>6

\* A queue keeps its type when _next() takes its first message.
LEMMA LeftTypes ==
  ASSUME TypeOK, NEW b \in Block, queue[b] # <<>>
  PROVE  Head(queue[b]) \in Message /\ Left(b, Head(queue[b])) \in Seq(Message)
<1>1. queue[b] \in Seq(Message)
  BY DEF TypeOK, AppTypeOK
<1>2. Head(queue[b]) \in Message /\ Tail(queue[b]) \in Seq(Message)
  BY <1>1
<1>3. "done" \in Message
  BY DEF Message
<1> QED
  BY <1>2, <1>3 DEF Left

\* _keep_cookies() leaves a jar.
LEMMA KeptTypes ==
  ASSUME TypeOK, NEW b \in Block
  PROVE  Kept(b) \in [value : {"none", "secret", "plain"}, secure : BOOLEAN]
<1>1. reply[b] \in [cookie : {"keep", "secret", "plain", "expired"}, to : {"none", "http", "https"}]
  BY DEF TypeOK, CookieTypeOK
<1> QED
  BY <1>1 DEF TypeOK, CookieTypeOK, Kept

\* What awaiting a task raises, and what a block is left with, are exceptions.
LEMMA ResultTypes ==
  ASSUME TypeOK, NEW b \in Block
  PROVE  TaskRaises(b) \in {"none", "raised", "cancelled"} /\ Result(b) \in Exception
<1>1. TaskRaises(b) \in {"none", "raised", "cancelled"}
  BY DEF TaskRaises
<1> QED
  BY <1>1 DEF TypeOK, TestTypeOK, Result, Exception

\* Leaving a block keeps the types.
LEMMA LeaveTypes ==
  ASSUME TypeOK, NEW b \in Block, NEW exception \in Exception, NEW own, LeaveWith(b, exception, own)
  PROVE  /\ pc' \in [Block -> {"out", "starting", "reading", "open", "stopping", "closing", "finishing", "left"}]
         /\ outcome' \in [Block -> Exception]
         /\ told' \in [Block -> SUBSET Exception] /\ catcher' \in [Block -> BOOLEAN]
  BY DEF TypeOK, TestTypeOK, AppTypeOK, LeaveWith

\* Taking a message, or giving up on it, keeps the types.
LEMMA NextTypes ==
  ASSUME TypeOK, NEW b \in Block, Receive(b) \/ NextTimeout(b)
  PROVE  TypeOK'
<1>1. CASE Receive(b)
  <2>1. queue[b] # <<>> /\ Head(queue[b]) \in Message
    BY <1>1, LeftTypes DEF Receive
  <2>2. TestTypeOK' /\ cancelling' \in [Block -> BOOLEAN]
    <3>1. Problem(b, Head(queue[b])) \in Exception /\ "logged" \in Exception
      BY DEF Problem, Exception
    <3>2. \/ Proceed(b, Head(queue[b])) \/ Fail(b, "logged") \/ Fail(b, Problem(b, Head(queue[b])))
      BY <1>1 DEF Receive
    <3> QED
      BY <3>1, <3>2, ProceedTypes, FailTypes
  <2>3. queue' \in [Block -> Seq(Message)]
    BY <1>1, LeftTypes DEF Receive, TypeOK, AppTypeOK
  <2>4. errors' \in [Block -> BOOLEAN]
    BY <1>1 DEF Receive, TypeOK, AppTypeOK
  <2>5. CookieTypeOK'
    BY <1>1, KeptTypes DEF Receive, TypeOK, CookieTypeOK
  <2> QED
    BY <1>1, <2>2, <2>3, <2>4, <2>5 DEF Receive, TypeOK, AppTypeOK
<1>2. CASE NextTimeout(b)
  <2>1. TestTypeOK' /\ cancelling' \in [Block -> BOOLEAN]
    BY <1>2, FailTypes DEF NextTimeout, Exception
  <2> QED
    BY <1>2, <2>1 DEF NextTimeout, TypeOK, AppTypeOK, CookieTypeOK, caught, cookies
<1> QED
  BY <1>1, <1>2

\* Every step of the test keeps them.
LEMMA TestTypes ==
  ASSUME TypeOK, Places, NEW b \in Block, TestStep(b)
  PROVE  TypeOK'
<1>1. CASE Enter(b)
  <2>1. TestTypeOK'
    BY <1>1 DEF Enter, Start, TypeOK, TestTypeOK
  <2>2. AppTypeOK'
    <3>1. queue' \in [Block -> Seq(Message)] /\ sends' \in [Block -> Nat]
      BY <1>1 DEF Enter, Start, TypeOK, AppTypeOK
    <3> QED
      BY <1>1, <3>1, SetupType DEF Enter, Start, TypeOK, AppTypeOK
  <2>3. CookieTypeOK'
    BY <1>1 DEF Enter, Sendable, TypeOK, CookieTypeOK
  <2> QED
    BY <1>1, <2>1, <2>2, <2>3 DEF Enter, TypeOK
<1>2. CASE Receive(b) \/ NextTimeout(b)
  BY <1>2, NextTypes
<1>3. CASE Read(b)
  <2>1. TestTypeOK'
    BY <1>3 DEF Read, TypeOK, TestTypeOK
  <2> QED
    BY <1>3, <2>1 DEF Read, TypeOK, AppTypeOK, CookieTypeOK, caught, app, cookies
<1>4. CASE Close(b)
  <2>1. TestTypeOK'
    BY <1>4 DEF Close, Disconnect, TypeOK, TestTypeOK
  <2> QED
    BY <1>4, <2>1 DEF Close, Disconnect, TypeOK, AppTypeOK, CookieTypeOK, caught, app, cookies
<1>5. CASE \E exception \in {"none", "test"} : Leave(b, exception)
  <2>1. PICK exception \in {"none", "test"} : Leave(b, exception)
    BY <1>5
  <2>2. TestTypeOK' /\ cancelling' \in [Block -> BOOLEAN]
    <3> USE <2>1 DEF Leave, TypeOK, TestTypeOK, AppTypeOK
    <3>1. CASE kind[b] = "websocket"
      <4>1. Finish(b, exception) /\ Disconnect(b)
        BY <3>1
      <4> QED
        BY <4>1 DEF Disconnect, Finish, Exception
    <3>2. CASE kind[b] = "stream"
      <4>1. /\ Finish(b, exception)
            /\ gone' = [gone EXCEPT ![b] = TRUE]
            /\ cancelling' = [cancelling EXCEPT ![b] = @ \/ Cancels(b)]
            /\ UNCHANGED complete
        BY <3>2
      <4>2. cancelling' \in [Block -> BOOLEAN]
        BY <4>1
      <4> QED
        BY <4>1, <4>2 DEF Finish, Exception
    <3>3. CASE kind[b] = "lifespan"
      BY <3>3
    <3> QED
      BY <3>1, <3>2, <3>3, SetupType DEF Places
  <2> QED
    BY <2>1, <2>2 DEF Leave, TypeOK, AppTypeOK, CookieTypeOK, caught, cookies
<1>6. CASE Finished(b)
  <2>1. LeaveWith(b, Result(b), TaskRaises(b))
    BY <1>6 DEF Finished
  <2> QED
    BY <1>6, <2>1, LeaveTypes, ResultTypes
    DEF Finished, TypeOK, TestTypeOK, AppTypeOK, CookieTypeOK, app, cookies
<1>7. CASE Closed(b)
  <2>1. TestTypeOK'
    BY <1>7, ResultTypes DEF Closed, TypeOK, TestTypeOK, Exception
  <2> QED
    BY <1>7, <2>1 DEF Closed, TypeOK, AppTypeOK, CookieTypeOK, caught, app, cookies
<1>8. CASE Responded(b)
  <2>1. jar' \in [value : {"none", "secret", "plain"}, secure : BOOLEAN]
    BY <1>8, KeptTypes DEF Responded, TypeOK, CookieTypeOK
  <2>2. CASE /\ hops[b] < MaxRedirects /\ Start(b)
             /\ hops' = [hops EXCEPT ![b] = @ + 1]
             /\ \E https \in BOOLEAN :
                  /\ secure' = [secure EXCEPT ![b] = https]
                  /\ sent' = [sent EXCEPT ![b] = Sendable(Kept(b), https)]
             /\ entered' = [entered EXCEPT ![b] = FALSE]
             /\ UNCHANGED <<outcome, told, catcher>>
    <3>1. TestTypeOK'
      BY <1>8, <2>2 DEF Responded, Start, TypeOK, TestTypeOK
    <3>2. queue' \in [Block -> Seq(Message)] /\ sends' \in [Block -> Nat]
      BY <2>2 DEF Start, TypeOK, AppTypeOK
    <3>3. AppTypeOK'
      BY <1>8, <2>2, <3>2 DEF Responded, Start, TypeOK, AppTypeOK
    <3>4. hops' \in [Block -> 0..MaxRedirects] /\ secure' \in [Block -> BOOLEAN]
      BY <2>2, TestClientAssumption DEF TypeOK, CookieTypeOK
    <3>5. sent' \in [Block -> {"none", "secret", "plain"}]
      BY <2>2, KeptTypes DEF Sendable, TypeOK, CookieTypeOK
    <3> QED
      BY <1>8, <2>1, <3>1, <3>3, <3>4, <3>5 DEF Responded, TypeOK, CookieTypeOK
  <2>3. CASE /\ \E exception \in Exception : LeaveWith(b, exception, TaskRaises(b))
             /\ UNCHANGED <<entered, complete, gone, task, cancelling, queue, sends, hops, secure, sent>>
    BY <1>8, <2>1, <2>3, LeaveTypes DEF Responded, TypeOK, TestTypeOK, AppTypeOK, CookieTypeOK
  <2> QED
    BY <1>8, <2>2, <2>3, ResultTypes DEF Responded, Exception
<1>9. CASE FinishTimeout(b)
  <2>1. cancelling' \in [Block -> BOOLEAN]
    BY <1>9 DEF FinishTimeout, TypeOK, AppTypeOK
  <2>2. /\ pc' \in [Block -> {"out", "starting", "reading", "open", "stopping", "closing", "finishing", "left"}]
        /\ outcome' \in [Block -> Exception]
        /\ told' \in [Block -> SUBSET Exception] /\ catcher' \in [Block -> BOOLEAN]
    <3>1. CASE UNCHANGED <<pc, outcome, told, catcher>>
      BY <3>1 DEF TypeOK, TestTypeOK, AppTypeOK
    <3>2. CASE /\ pc' = [pc EXCEPT ![b] = "open"] /\ told' = [told EXCEPT ![b] = @ \union {"timeout"}]
               /\ UNCHANGED <<outcome, catcher>>
      BY <3>2 DEF TypeOK, TestTypeOK, AppTypeOK, Exception
    <3>3. CASE LeaveWith(b, "timeout", "timeout")
      BY <3>3, LeaveTypes DEF Exception
    <3> QED
      BY <1>9, <3>1, <3>2, <3>3 DEF FinishTimeout
  <2> QED
    BY <1>9, <2>1, <2>2 DEF FinishTimeout, TypeOK, TestTypeOK, AppTypeOK, CookieTypeOK, cookies
<1> QED
  BY <1>1, <1>2, <1>3, <1>4, <1>5, <1>6, <1>7, <1>8, <1>9 DEF TestStep

\* Every step keeps the types.
LEMMA NextTypeOK ==
  ASSUME TypeOK, Places, [Next]_vars
  PROVE  TypeOK'
<1>1. CASE CloseLoop
  <2>1. AppTypeOK'
    BY <1>1 DEF CloseLoop, TypeOK, AppTypeOK, caught
  <2> QED
    BY <1>1, <2>1 DEF CloseLoop, TypeOK, TestTypeOK, CookieTypeOK, test, cookies
<1>2. CASE LoopClosed
  BY <1>2 DEF LoopClosed, TypeOK, TestTypeOK, AppTypeOK, CookieTypeOK, test, caught, app, cookies
<1>3. CASE UNCHANGED vars
  BY <1>3 DEF vars, TypeOK, TestTypeOK, AppTypeOK, CookieTypeOK, test, caught, app, cookies
<1> QED
  BY <1>1, <1>2, <1>3, Steps, AppTypes, TestTypes

-----------------------------------------------------------------------------
(* What the test's steps do to a block.                                    *)

\* Leaving a block: the lifespan is stopped first, unless its task is gone.
LEMMA LeaveDoes ==
  ASSUME TypeOK, Places, NEW b \in Block, NEW exception \in {"none", "test"}, Leave(b, exception)
  PROVE  /\ pc[b] = "open"
         /\ \/ /\ kind[b] \in {"websocket", "stream"} /\ pc' = [pc EXCEPT ![b] = "finishing"]
               /\ raising'[b] # "disconnect"
            \/ kind[b] = "lifespan" /\ pc' = [pc EXCEPT ![b] = "left"] /\ Over(b)
            \/ kind[b] = "lifespan" /\ pc' = [pc EXCEPT ![b] = "stopping"] /\ ~(Over(b) /\ queue[b] = <<>>)
         /\ UNCHANGED <<entered, outcome, told, catcher, errors, task, queue, secure, sent, jar>>
<1>1. pc[b] = "open" /\ kind[b] \in {"websocket", "stream", "lifespan"}
  BY SetupType DEF Leave, Places
<1>2. CASE kind[b] = "websocket"
  BY <1>1, <1>2 DEF Leave, Finish, caught, cookies, TypeOK, TestTypeOK
<1>3. CASE kind[b] = "stream"
  BY <1>1, <1>3 DEF Leave, Finish, caught, cookies, TypeOK, TestTypeOK
<1>4. CASE kind[b] = "lifespan"
  BY <1>1, <1>4 DEF Leave, caught, cookies
<1> QED
  BY <1>1, <1>2, <1>3, <1>4

\* Taking a message: _DONE ends the wait of a request, is an exception for a
\* stream, and the end of a lifespan.
LEMMA ReceiveDoes ==
  ASSUME TypeOK, Places, NEW b \in Block, Receive(b)
  PROVE  /\ InNext(b) /\ queue[b] # <<>> /\ queue'[b] = Left(b, Head(queue[b]))
         /\ pc'[b] \in {"finishing", "reading", "open"}
         /\ pc'[b] = "open" => kind[b] # "request"
         /\ pc'[b] = "reading" => kind[b] = "request" /\ Head(queue[b]) # "done"
         /\ kind[b] = "stream" /\ Head(queue[b]) = "done" => told'[b] # {}
         /\ told[b] \subseteq told'[b]
         /\ errors[b] => errors'[b] \/ "logged" \in told'[b]
         /\ pc'[b] = "finishing" /\ raising'[b] = "disconnect" => kind[b] = "websocket" /\ ~entered'[b]
         /\ UNCHANGED <<outcome, catcher, task, secure, sent>>
<1> DEFINE message == Head(queue[b])
<1>1. InNext(b) /\ queue[b] # <<>>
  BY DEF Receive
<1>2. queue'[b] = Left(b, message) /\ UNCHANGED <<catcher, task, secure, sent>>
  BY DEF Receive, TypeOK, AppTypeOK
<1>3. message \in Message /\ kind[b] \in {"request", "stream", "websocket", "lifespan"}
  BY <1>1, LeftTypes, SetupType DEF Places, InNext
<1>4. CASE message \in Expected(b) /\ Proceed(b, message) /\ errors' = [errors EXCEPT ![b] = @ /\ TRUE]
  <2>1. message = "done" => kind[b] = "lifespan"
    BY <1>3, <1>4 DEF Expected, Http
  <2>2. /\ pc'[b] \in {"finishing", "reading", "open"}
        /\ pc'[b] = "open" => kind[b] # "request"
        /\ pc'[b] = "reading" => kind[b] = "request"
        /\ pc'[b] = "finishing" => raising'[b] = "none"
        /\ UNCHANGED <<outcome, told>>
    BY <1>4 DEF Proceed, Finish, TypeOK, TestTypeOK
  <2>3. errors'[b] = errors[b]
    BY <1>4 DEF TypeOK, AppTypeOK
  <2> QED
    BY <1>1, <1>2, <2>1, <2>2, <2>3
<1>5. ASSUME NEW exception \in Exception \ {"timeout"}, Fail(b, exception),
             exception = "logged" \/ errors' = [errors EXCEPT ![b] = @ /\ TRUE],
             exception = "disconnect" => kind[b] = "websocket"
      PROVE  /\ "logged" \in told'[b] \/ errors'[b] = errors[b]
             /\ told'[b] # {} /\ told[b] \subseteq told'[b]
             /\ pc'[b] \in {"finishing", "open"}
             /\ pc'[b] = "open" => kind[b] # "request"
             /\ pc'[b] = "finishing" /\ raising'[b] = "disconnect" => kind[b] = "websocket" /\ ~entered'[b]
             /\ UNCHANGED outcome
  <2>1. told'[b] = told[b] \union {exception} /\ entered' = entered
    BY <1>5 DEF Fail, TypeOK, TestTypeOK
  <2>2. \/ kind[b] \in {"stream", "websocket"} /\ entered[b] /\ pc'[b] = "open" /\ UNCHANGED outcome
        \/ /\ ~(kind[b] \in {"stream", "websocket"} /\ entered[b])
           /\ pc'[b] = "finishing" /\ raising'[b] = exception /\ UNCHANGED outcome
    BY <1>5 DEF Fail, Finish, TypeOK, TestTypeOK
  <2>3. exception # "logged" => errors'[b] = errors[b]
    BY <1>5 DEF TypeOK, AppTypeOK
  <2> QED
    BY <1>5, <2>1, <2>2, <2>3
<1>6. /\ Problem(b, message) \in Exception \ {"timeout"} /\ "logged" \in Exception \ {"timeout"}
      /\ Problem(b, message) = "disconnect" => kind[b] = "websocket"
  BY DEF Problem, Exception
<1>7. \/ Fail(b, "logged")
      \/ Fail(b, Problem(b, message)) /\ errors' = [errors EXCEPT ![b] = @ /\ TRUE]
      \/ message \in Expected(b) /\ Proceed(b, message) /\ errors' = [errors EXCEPT ![b] = @ /\ TRUE]
  BY DEF Receive
<1>8. ASSUME NEW exception \in Exception \ {"timeout"}, Fail(b, exception),
             exception = "logged" \/ errors' = [errors EXCEPT ![b] = @ /\ TRUE],
             exception = "disconnect" => kind[b] = "websocket"
      PROVE  /\ pc'[b] \in {"finishing", "open"}
             /\ pc'[b] = "open" => kind[b] # "request"
             /\ told'[b] # {} /\ told[b] \subseteq told'[b]
             /\ errors[b] => errors'[b] \/ "logged" \in told'[b]
             /\ pc'[b] = "finishing" /\ raising'[b] = "disconnect" => kind[b] = "websocket" /\ ~entered'[b]
             /\ UNCHANGED outcome
  BY <1>5, <1>8
<1>9. CASE Fail(b, "logged")
  BY <1>1, <1>2, <1>6, <1>8, <1>9
<1>10. CASE Fail(b, Problem(b, message)) /\ errors' = [errors EXCEPT ![b] = @ /\ TRUE]
  BY <1>1, <1>2, <1>6, <1>8, <1>10
<1> QED
  BY <1>4, <1>7, <1>9, <1>10

\* A wait that takes too long raises in the test.
LEMMA TimeoutDoes ==
  ASSUME TypeOK, NEW b \in Block, NextTimeout(b)
  PROVE  /\ InNext(b) /\ told'[b] = told[b] \union {"timeout"}
         /\ \/ pc'[b] = "finishing" /\ raising'[b] = "timeout" /\ outcome'[b] = outcome[b]
            \/ pc'[b] = "open" /\ kind[b] \in {"stream", "websocket"} /\ outcome'[b] = outcome[b]
            \/ pc'[b] = "left" /\ kind[b] = "lifespan" /\ outcome'[b] = "timeout"
         /\ UNCHANGED <<catcher, errors, task, queue, secure, sent, jar>>
  BY DEF NextTimeout, Fail, Finish, TypeOK, TestTypeOK, caught, cookies

\* Leaving after the task: the test gets what it raised, what waited or what
\* was logged, and the catcher stays only where __aenter__ had failed.
LEMMA FinishedDoes ==
  ASSUME TypeOK, NEW b \in Block, Finished(b)
  PROVE  /\ pc[b] = "finishing" /\ pc'[b] = "left" /\ Over(b) /\ kind[b] # "request"
         /\ errors[b] => outcome'[b] # "none"
         /\ told[b] \subseteq told'[b]
         /\ outcome'[b] = "logged" => "logged" \in told'[b]
         /\ outcome'[b] = "disconnect" => raising[b] = "disconnect"
         /\ catcher'[b] => catcher[b] /\ ~entered[b] /\ outcome'[b] \in {"raised", "cancelled"}
         /\ UNCHANGED <<entered, errors, task, queue, secure, sent, jar>>
<1>1. /\ pc'[b] = "left" /\ outcome'[b] = Result(b) /\ told'[b] = told[b] \union ({Result(b)} \ {"none"})
      /\ catcher'[b] = (catcher[b] /\ ~Uninstalled(b, TaskRaises(b)))
  BY DEF Finished, LeaveWith, TypeOK, TestTypeOK, AppTypeOK
<1>2. /\ pc[b] = "finishing" /\ Over(b) /\ kind[b] # "request"
      /\ UNCHANGED <<entered, errors, task, queue, secure, sent, jar>>
  BY DEF Finished, Joined, app, cookies
<1>3. errors[b] => Result(b) # "none"
  BY DEF Result
<1>4. /\ TaskRaises(b) # "none" => Result(b) = TaskRaises(b)
      /\ Result(b) = "disconnect" => raising[b] = "disconnect"
  BY ResultTypes DEF Result
<1> QED
  BY <1>1, <1>2, <1>3, <1>4, ResultTypes DEF Uninstalled

\* A request that is answered follows its redirect with a task of its own, or
\* is over.
LEMMA RespondedDoes ==
  ASSUME TypeOK, NEW b \in Block, Responded(b)
  PROVE  /\ pc[b] = "finishing" /\ kind[b] = "request" /\ Over(b)
         /\ jar' \in {jar, Kept(b)}
         /\ errors' = errors
         /\ \/ /\ pc'[b] = "starting" /\ task'[b] = "running" /\ queue'[b] = <<>>
               /\ UNCHANGED <<outcome, told, catcher>>
               /\ sent'[b] = Sendable(Kept(b), secure'[b]) /\ secure'[b] \in BOOLEAN
            \/ /\ pc'[b] = "left" /\ ~catcher'[b]
               /\ told[b] \subseteq told'[b]
               /\ errors[b] => outcome'[b] # "none"
               /\ outcome'[b] = "logged" => "logged" \in told'[b]
               /\ outcome'[b] = "disconnect" => raising[b] = "disconnect"
               /\ UNCHANGED <<task, queue, secure, sent>>
<1> DEFINE https == reply[b].to = "https"
<1>1. /\ pc[b] = "finishing" /\ kind[b] = "request" /\ Over(b) /\ jar' \in {jar, Kept(b)} /\ errors' = errors
  BY DEF Responded, Joined
<1>2. CASE /\ Start(b)
           /\ secure' = [secure EXCEPT ![b] = https]
           /\ sent' = [sent EXCEPT ![b] = Sendable(Kept(b), https)]
           /\ UNCHANGED <<outcome, told, catcher>>
  BY <1>1, <1>2 DEF Start, TypeOK, TestTypeOK, AppTypeOK, CookieTypeOK
<1>3. CASE /\ \E exception : /\ errors[b] => exception # "none"
                             /\ exception = "disconnect" => raising[b] = "disconnect"
                             /\ LeaveWith(b, exception, TaskRaises(b))
           /\ UNCHANGED <<task, queue, secure, sent>>
  <2>1. PICK exception : /\ errors[b] => exception # "none"
                         /\ exception = "disconnect" => raising[b] = "disconnect"
                         /\ LeaveWith(b, exception, TaskRaises(b))
    BY <1>3
  <2>2. pc'[b] = "left" /\ outcome'[b] = exception /\ told'[b] = told[b] \union ({exception} \ {"none"})
    BY <2>1 DEF LeaveWith, TypeOK, TestTypeOK
  <2>3. ~catcher'[b]
    BY <1>1, <2>1 DEF LeaveWith, Uninstalled, TypeOK, AppTypeOK
  <2> QED
    BY <1>1, <1>3, <2>1, <2>2, <2>3
<1>4. (errors[b] => Result(b) # "none") /\ (Result(b) = "disconnect" => raising[b] = "disconnect")
  BY ResultTypes DEF Result
<1> QED
  BY <1>2, <1>3, <1>4 DEF Responded

\* A task that is not over in time is cancelled and left behind: the test is
\* told, and the lifespan's wait goes on.
LEMMA FinishTimeoutDoes ==
  ASSUME TypeOK, Places, NEW b \in Block, FinishTimeout(b)
  PROVE  /\ task[b] = "running" /\ pc[b] \in {"finishing", "closing"}
         /\ \/ kind[b] = "lifespan" /\ UNCHANGED <<pc, outcome, told, catcher>>
            \/ pc[b] = "closing" /\ pc'[b] = "open" /\ told[b] \subseteq told'[b] /\ UNCHANGED <<outcome, catcher>>
            \/ /\ pc[b] = "finishing" /\ pc'[b] = "left" /\ outcome'[b] = "timeout"
               /\ catcher'[b] => catcher[b] /\ ~entered[b] /\ kind[b] # "request"
         /\ UNCHANGED <<entered, errors, task, queue, secure, sent, jar>>
<1>1. task[b] = "running" /\ pc[b] \in {"finishing", "closing"}
  BY DEF FinishTimeout
<1>2. UNCHANGED <<entered, errors, task, queue, secure, sent, jar>>
  BY DEF FinishTimeout, cookies
<1>3. CASE kind[b] = "lifespan"
  <2>1. UNCHANGED <<pc, outcome, told, catcher>>
    BY <1>1, <1>3 DEF FinishTimeout, Places
  <2> QED
    BY <1>1, <1>2, <1>3, <2>1
<1>4. CASE kind[b] # "lifespan" /\ pc[b] = "closing"
  BY <1>1, <1>2, <1>4 DEF FinishTimeout, TypeOK, TestTypeOK
<1>5. CASE kind[b] # "lifespan" /\ pc[b] = "finishing"
  <2>1. LeaveWith(b, "timeout", "timeout")
    BY <1>5 DEF FinishTimeout
  <2> QED
    BY <1>1, <1>2, <1>5, <2>1 DEF LeaveWith, Uninstalled, TypeOK, TestTypeOK, AppTypeOK
<1> QED
  BY <1>1, <1>3, <1>4, <1>5

\* A step of the test in one block leaves the others alone.
LEMMA TestOthers ==
  ASSUME TypeOK, Places, NEW b \in Block, TestStep(b), NEW d \in Block, d # b
  PROVE  /\ pc'[d] = pc[d] /\ outcome'[d] = outcome[d] /\ told'[d] = told[d] /\ entered'[d] = entered[d]
         /\ raising'[d] = raising[d]
         /\ catcher'[d] = catcher[d] /\ errors'[d] = errors[d]
         /\ task'[d] = task[d] /\ queue'[d] = queue[d]
         /\ secure'[d] = secure[d] /\ sent'[d] = sent[d]
<1> USE DEF TypeOK, TestTypeOK, AppTypeOK, CookieTypeOK
<1>1. CASE Enter(b)
  BY <1>1 DEF Enter, Start
<1>2. CASE Receive(b)
  <2>1. /\ pc'[d] = pc[d] /\ outcome'[d] = outcome[d] /\ told'[d] = told[d] /\ entered'[d] = entered[d]
        /\ raising'[d] = raising[d]
    BY <1>2 DEF Receive, Proceed, Fail, Finish
  <2> QED
    BY <1>2, <2>1 DEF Receive
<1>3. CASE NextTimeout(b)
  BY <1>3 DEF NextTimeout, Fail, Finish, caught, cookies
<1>4. CASE Read(b)
  BY <1>4 DEF Read, caught, app, cookies
<1>5. CASE Close(b)
  BY <1>5 DEF Close, Disconnect, caught, cookies
<1>6. CASE \E exception \in {"none", "test"} : Leave(b, exception)
  <2>1. PICK exception \in {"none", "test"} : Leave(b, exception)
    BY <1>6
  <2>2. \/ pc' = [pc EXCEPT ![b] = "finishing"]
        \/ pc' = [pc EXCEPT ![b] = "left"]
        \/ pc' = [pc EXCEPT ![b] = "stopping"]
    BY <2>1, LeaveDoes
  <2>3. UNCHANGED <<entered, outcome, told, catcher, errors, task, queue, secure, sent>>
    BY <2>1, LeaveDoes
  <2>4. raising'[d] = raising[d]
    <3>1. pc[b] = "open" /\ kind[b] \in {"websocket", "stream", "lifespan"}
      BY <2>1, SetupType DEF Leave, Places
    <3>2. raising' = raising \/ \E e : raising' = [raising EXCEPT ![b] = e]
      BY <2>1, <3>1 DEF Leave, Finish
    <3> QED
      BY <3>2
  <2> QED
    BY <2>2, <2>3, <2>4
<1>7. CASE Finished(b)
  BY <1>7 DEF Finished, LeaveWith, app, cookies
<1>8. CASE Closed(b)
  BY <1>8 DEF Closed, caught, app, cookies
<1>9. CASE Responded(b)
  BY <1>9 DEF Responded, Start, LeaveWith
<1>10. CASE FinishTimeout(b)
  BY <1>10 DEF FinishTimeout, LeaveWith, cookies
<1> QED
  BY <1>1, <1>2, <1>3, <1>4, <1>5, <1>6, <1>7, <1>8, <1>9, <1>10 DEF TestStep

\* A step of the app changes its own task and queue only.
LEMMA AppOthers ==
  ASSUME TypeOK, NEW b \in Block, AppStep(b), NEW d \in Block, d # b
  PROVE  task'[d] = task[d] /\ queue'[d] = queue[d] /\ logged'[d] = logged[d]
  BY DEF TypeOK, AppTypeOK, AppStep, AppSend, AppLog, AppOver

\* A task that is over stays so while the app runs on.
LEMMA AppTask ==
  ASSUME TypeOK, NEW b \in Block, AppStep(b)
  PROVE  task[b] = "running" /\ task'[b] \in {"running", "ended", "raised", "cancelled"}
  BY DEF TypeOK, AppTypeOK, AppStep, AppSend, AppLog, AppOver

-----------------------------------------------------------------------------
(* The invariant, one part at a time.                                      *)

\* Every step keeps each block where its kind can be.
LEMMA NextPlaces ==
  ASSUME TypeOK, Places, [Next]_vars
  PROVE  Places'
<1>1. ASSUME NEW b \in Block, AppStep(b) PROVE Places'
  BY <1>1, AppKeeps, AppOthers, AppTask DEF Places, kind, test
<1>2. ASSUME NEW b \in Block, TestStep(b), NEW d \in Block
      PROVE  /\ pc'[d] = "out" => task'[d] = "none"
             /\ pc'[d] # "out" => kind'[d] # "unused"
             /\ pc'[d] = "open" => kind'[d] # "request"
             /\ pc'[d] = "reading" => kind'[d] # "lifespan"
             /\ pc'[d] = "closing" => kind'[d] = "websocket"
             /\ pc'[d] = "stopping" => kind'[d] = "lifespan"
             /\ pc'[d] # "left" => outcome'[d] = "none"
  <2>1. kind' = kind
    BY <1>2, TestKeeps DEF kind
  <2>2. CASE d # b
    BY <1>2, <2>1, <2>2, TestOthers DEF Places
  <2>3. CASE d = b
    <3>1. CASE Enter(b)
      BY <2>1, <2>3, <3>1 DEF Enter, Start, Places, TypeOK, TestTypeOK
    <3>2. CASE Receive(b)
      BY <2>1, <2>3, <3>2, ReceiveDoes DEF InNext, Places
    <3>3. CASE NextTimeout(b)
      BY <2>1, <2>3, <3>3, TimeoutDoes DEF InNext, Places
    <3>4. CASE Read(b)
      BY <2>1, <2>3, <3>4 DEF Read, Places, TypeOK, TestTypeOK
    <3>5. CASE Close(b)
      BY <2>1, <2>3, <3>5 DEF Close, Places, TypeOK, TestTypeOK
    <3>6. CASE \E exception \in {"none", "test"} : Leave(b, exception)
      BY <2>1, <2>3, <3>6, LeaveDoes DEF Places, TypeOK, TestTypeOK
    <3>7. CASE Finished(b)
      BY <2>1, <2>3, <3>7, FinishedDoes DEF Places
    <3>8. CASE Closed(b)
      BY <2>1, <2>3, <3>8 DEF Closed, Places, TypeOK, TestTypeOK
    <3>9. CASE Responded(b)
      BY <2>1, <2>3, <3>9, RespondedDoes DEF Places
    <3>10. CASE FinishTimeout(b)
      BY <2>1, <2>3, <3>10, FinishTimeoutDoes DEF Places
    <3> QED
      BY <1>2, <3>1, <3>2, <3>3, <3>4, <3>5, <3>6, <3>7, <3>8, <3>9, <3>10 DEF TestStep
  <2> QED
    BY <2>2, <2>3
<1>3. CASE CloseLoop \/ LoopClosed \/ UNCHANGED vars
  BY <1>3 DEF CloseLoop, LoopClosed, vars, Places, kind, test, app
<1> QED
  BY <1>1, <1>2, <1>3, Steps DEF Places

\* Nothing starts in a block that was left, and a block is left with a task
\* that is over, or with a TimeoutError.
LEMMA NextRuns ==
  ASSUME TypeOK, Places, NothingRuns, [Next]_vars
  PROVE  NothingRuns'
<1>1. ASSUME NEW b \in Block, AppStep(b) PROVE NothingRuns'
  <2>1. LoopRuns
    BY <1>1 DEF AppStep, AppSend, AppLog, AppOver
  <2> QED
    BY <1>1, <2>1, AppKeeps, AppOthers, AppTask DEF NothingRuns, LoopRuns, test
<1>2. ASSUME NEW b \in Block, TestStep(b) PROVE NothingRuns'
  <2>1. loop' = loop /\ loop # "closed"
    BY <1>2, TestKeeps DEF TestStep, Enter, Receive, NextTimeout, Read, Close, Leave, Finished, Closed,
                           Responded, FinishTimeout, Free, LoopRuns
  <2>2. ASSUME NEW d \in Block, pc'[d] = "left", outcome'[d] # "timeout" PROVE task'[d] # "running"
    <3>1. CASE d # b
      BY <1>2, <2>2, <3>1, TestOthers DEF NothingRuns
    <3>2. CASE d = b
      <4>1. CASE Enter(b)
        BY <2>2, <3>2, <4>1 DEF Enter, Start, TypeOK, TestTypeOK
      <4>2. CASE Receive(b) \/ NextTimeout(b)
        BY <2>2, <3>2, <4>2, ReceiveDoes, TimeoutDoes
      <4>3. CASE Read(b) \/ Close(b) \/ Closed(b)
        BY <2>2, <3>2, <4>3 DEF Read, Close, Closed, TypeOK, TestTypeOK
      <4>4. CASE \E exception \in {"none", "test"} : Leave(b, exception)
        BY <2>2, <3>2, <4>4, LeaveDoes DEF Over, TypeOK, TestTypeOK
      <4>5. CASE Finished(b) \/ Responded(b)
        BY <2>2, <3>2, <4>5, FinishedDoes, RespondedDoes DEF Over
      <4>6. CASE FinishTimeout(b)
        BY <2>2, <3>2, <4>6, FinishTimeoutDoes
      <4> QED
        BY <1>2, <4>1, <4>2, <4>3, <4>4, <4>5, <4>6 DEF TestStep
    <3> QED
      BY <3>1, <3>2
  <2> QED
    BY <2>1, <2>2 DEF NothingRuns
<1>3. CASE CloseLoop \/ LoopClosed \/ UNCHANGED vars
  BY <1>3 DEF CloseLoop, LoopClosed, vars, NothingRuns, test, app
<1> QED
  BY <1>1, <1>2, <1>3, Steps

\* After _next() took a message _DONE is where it was; it is gone only if it
\* was taken, which for a WebSocket it never is.
LEMMA LeftDone ==
  ASSUME TypeOK, DoneLast, NEW b \in Block, queue[b] # <<>>,
         NEW rest, rest = Left(b, Head(queue[b]))
  PROVE  /\ \A i \in 1..Len(rest) : rest[i] = "done" => Over(b) /\ i = Len(rest)
         /\ Over(b) /\ rest # <<>> => rest[Len(rest)] = "done"
         /\ Over(b) /\ rest = <<>> => Head(queue[b]) = "done" /\ kind[b] # "websocket"
<1>1. PICK q : q = queue[b] /\ q \in Seq(Message) /\ q # <<>> /\ Len(q) \in Nat \ {0} /\ Head(q) = q[1]
  BY DEF TypeOK, AppTypeOK
<1>2. PICK t : /\ t = Tail(q) /\ t \in Seq(Message) /\ Len(t) = Len(q) - 1
               /\ \A i \in 1..Len(t) : t[i] = q[i + 1]
  BY <1>1, HeadTailProperties
<1>3. /\ \A i \in 1..Len(q) : q[i] = "done" => Over(b) /\ i = Len(q)
      /\ Over(b) => q[Len(q)] = "done"
  BY <1>1 DEF DoneLast
<1>4. CASE Head(q) = "done"
  <2>1. Len(q) = 1 /\ Over(b)
    <3>1. 1 \in 1..Len(q) /\ q[1] = "done"
      BY <1>1, <1>4
    <3> QED
      BY <1>3, <3>1
  <2>2. t = <<>>
    BY <1>2, <2>1, EmptySeq
  <2>3. CASE kind[b] = "websocket"
    <3>1. rest = <<>> \o <<"done">>
      BY <1>1, <1>2, <1>4, <2>2, <2>3 DEF Left
    <3>2. rest = <<"done">>
      BY <3>1
    <3>3. Len(rest) = 1 /\ rest[1] = "done" /\ rest # <<>>
      BY <3>2
    <3> QED
      BY <2>1, <3>3
  <2>4. CASE kind[b] # "websocket"
    <3>1. rest = <<>> \o <<>>
      BY <1>1, <1>2, <1>4, <2>2, <2>4 DEF Left
    <3>2. rest = <<>>
      BY <3>1
    <3> QED
      BY <1>1, <1>4, <2>4, <3>2
  <2> QED
    BY <2>3, <2>4
<1>5. CASE Head(q) # "done"
  <2>1. rest = t
    BY <1>1, <1>2, <1>5, ConcatEmptySeq DEF Left
  <2>2. ASSUME NEW i \in 1..Len(rest), rest[i] = "done" PROVE Over(b) /\ i = Len(rest)
    <3>1. i \in 1..Len(t) /\ t[i] = "done"
      BY <2>1, <2>2
    <3>2. i + 1 \in 1..Len(q) /\ q[i + 1] = "done"
      BY <1>1, <1>2, <3>1
    <3>3. Over(b) /\ i + 1 = Len(q)
      BY <1>3, <3>2
    <3> QED
      BY <1>1, <1>2, <2>1, <3>3
  <2>3. Over(b) => Len(t) > 0 /\ t[Len(t)] = "done"
    BY <1>1, <1>2, <1>3, <1>5
  <2> QED
    BY <2>1, <2>2, <2>3
<1> QED
  BY <1>4, <1>5

\* Only Enter, Receive and Responded touch a queue or a task.
LEMMA TestTask ==
  ASSUME TypeOK, Places, NEW b \in Block, TestStep(b)
  PROVE  \/ Receive(b)
         \/ task'[b] = "running" /\ queue'[b] = <<>>
         \/ task'[b] = task[b] /\ queue'[b] = queue[b] /\ ~Enter(b)
<1>1. CASE Enter(b)
  BY <1>1 DEF Enter, Start, TypeOK, AppTypeOK
<1>2. CASE Responded(b)
  BY <1>2, RespondedDoes DEF Enter
<1>3. CASE \E exception \in {"none", "test"} : Leave(b, exception)
  BY <1>3, LeaveDoes DEF Enter
<1>4. CASE NextTimeout(b) \/ Finished(b) \/ FinishTimeout(b)
  BY <1>4, TimeoutDoes, FinishedDoes, FinishTimeoutDoes DEF Enter, InNext
<1>5. CASE Read(b) \/ Close(b) \/ Closed(b)
  BY <1>5 DEF Enter, Read, Close, Closed, app
<1> QED
  BY <1>1, <1>2, <1>3, <1>4, <1>5 DEF TestStep

\* Every step leaves _DONE at the end of its queue.
LEMMA NextDoneLast ==
  ASSUME TypeOK, Places, DoneLast, [Next]_vars
  PROVE  DoneLast'
<1>1. ASSUME NEW b \in Block, AppStep(b) \/ TestStep(b), NEW d \in Block
      PROVE  /\ \A i \in 1..Len(queue'[d]) : queue'[d][i] = "done" => Over(d)' /\ i = Len(queue'[d])
             /\ Over(d)' /\ queue'[d] # <<>> => queue'[d][Len(queue'[d])] = "done"
  <2>1. CASE task'[d] = task[d] /\ queue'[d] = queue[d]
    BY <2>1 DEF DoneLast, Over
  <2>2. CASE task'[d] = "running" /\ queue'[d] = <<>>
    BY <2>2 DEF Over
  <2>3. CASE Receive(b) /\ d = b
    BY <2>3, ReceiveDoes, LeftDone DEF Over
  <2>4. CASE d = b /\ \E message \in Messages(b) : AppSend(b, message)
    <3>1. PICK message \in Messages(b) : AppSend(b, message)
      BY <2>4
    <3>2. message # "done" /\ task'[b] = "running" /\ task[b] = "running"
      BY <3>1 DEF Messages, AppSend
    <3>3. queue[b] \in Seq(Message) /\ queue'[b] = Append(queue[b], message)
      BY <3>1 DEF AppSend, TypeOK, AppTypeOK
    <3>4. \A i \in 1..Len(queue[b]) : queue[b][i] # "done"
      BY <3>2 DEF DoneLast, Over
    <3> QED
      BY <2>4, <3>2, <3>3, <3>4 DEF Over
  <2>5. CASE d = b /\ \E how \in {"ended", "raised", "cancelled"} : AppOver(b, how)
    <3>1. task'[b] \in {"ended", "raised", "cancelled"} /\ task[b] = "running"
      BY <2>5 DEF AppOver, TypeOK, AppTypeOK
    <3>2. queue[b] \in Seq(Message) /\ queue'[b] = Append(queue[b], "done")
      BY <2>5 DEF AppOver, TypeOK, AppTypeOK
    <3>3. \A i \in 1..Len(queue[b]) : queue[b][i] # "done"
      BY <3>1 DEF DoneLast, Over
    <3> QED
      BY <2>5, <3>1, <3>2, <3>3 DEF Over
  <2>6. AppLog(b) => UNCHANGED <<task, queue>>
    BY DEF AppLog
  <2> QED
    BY <1>1, <2>1, <2>2, <2>3, <2>4, <2>5, <2>6, AppOthers, TestOthers, TestTask DEF AppStep
<1>2. CASE CloseLoop \/ LoopClosed \/ UNCHANGED vars
  BY <1>2 DEF CloseLoop, LoopClosed, vars, DoneLast, Over, app
<1> QED
  BY <1>1, <1>2, Steps DEF DoneLast

\* No step takes _DONE from a wait that still needs it.
LEMMA NextDoneKept ==
  ASSUME TypeOK, Places, DoneLast, DoneKept, [Next]_vars
  PROVE  DoneKept'
<1>1. ASSUME NEW b \in Block, AppStep(b) PROVE DoneKept'
  <2>1. UNCHANGED <<kind, pc, told>>
    BY <1>1, AppKeeps DEF kind, test
  <2>2. ~Over(b)' \/ queue'[b] # <<>>
    BY <1>1 DEF AppStep, AppSend, AppLog, AppOver, Over, TypeOK, AppTypeOK
  <2> QED
    BY <1>1, <2>1, <2>2, AppOthers DEF DoneKept, Over, InNext
<1>2. ASSUME NEW b \in Block, TestStep(b), NEW d \in Block, Over(d)', queue'[d] = <<>>
      PROVE  /\ kind'[d] # "websocket"
             /\ kind'[d] = "stream" /\ pc'[d] \in {"starting", "open", "reading"} => told'[d] # {}
             /\ kind'[d] \in {"request", "lifespan"} => ~InNext(d)'
  <2>1. kind' = kind
    BY <1>2, TestKeeps DEF kind
  <2>2. CASE d # b
    BY <1>2, <2>1, <2>2, TestOthers DEF DoneKept, Over, InNext
  <2>3. CASE d = b /\ Receive(b)
    <3>1. Head(queue[b]) = "done" /\ kind[b] # "websocket"
      BY <1>2, <2>3, ReceiveDoes, LeftDone DEF Over
    <3> QED
      BY <2>1, <2>3, <3>1, ReceiveDoes DEF InNext
  <2>4. CASE d = b /\ task'[b] = task[b] /\ queue'[b] = queue[b] /\ ~Enter(b) /\ ~Receive(b)
    <3>1. /\ kind[b] # "websocket"
          /\ kind[b] = "stream" /\ pc[b] \in {"starting", "open", "reading"} => told[b] # {}
          /\ kind[b] \in {"request", "lifespan"} => ~InNext(b)
      BY <1>2, <2>4 DEF DoneKept, Over
    <3>2. CASE NextTimeout(b)
      BY <2>1, <2>4, <3>1, <3>2, TimeoutDoes DEF InNext
    <3>3. CASE Read(b)
      BY <2>1, <2>4, <3>1, <3>3 DEF Read, InNext, TypeOK, TestTypeOK
    <3>4. CASE Close(b) \/ Closed(b)
      BY <2>1, <2>4, <3>1, <3>4 DEF Close, Closed, Places
    <3>5. CASE \E exception \in {"none", "test"} : Leave(b, exception)
      BY <1>2, <2>1, <2>4, <3>1, <3>5, LeaveDoes DEF InNext, Over, TypeOK, TestTypeOK
    <3>6. CASE Finished(b)
      BY <2>1, <2>4, <3>1, <3>6, FinishedDoes DEF InNext
    <3>7. CASE Responded(b)
      BY <1>2, <2>1, <2>4, <3>1, <3>7, RespondedDoes DEF InNext, Over
    <3>8. CASE FinishTimeout(b)
      BY <1>2, <2>4, <3>8, FinishTimeoutDoes DEF Over
    <3> QED
      BY <1>2, <2>4, <3>2, <3>3, <3>4, <3>5, <3>6, <3>7, <3>8 DEF TestStep
  <2> QED
    BY <1>2, <2>2, <2>3, <2>4, TestTask DEF Over, Enter
<1>3. CASE CloseLoop \/ LoopClosed \/ UNCHANGED vars
  BY <1>3 DEF CloseLoop, LoopClosed, vars, DoneKept, Over, InNext, kind, test, app
<1> QED
  BY <1>1, <1>2, <1>3, Steps DEF DoneKept

\* Every step keeps the catcher of a block that is on, and removes it as the
\* block is left.
LEMMA NextCatcher ==
  ASSUME TypeOK, Places, Listening, LoggerClean, [Next]_vars
  PROVE  Listening' /\ LoggerClean'
<1>1. ASSUME NEW b \in Block, AppStep(b) PROVE Listening' /\ LoggerClean'
  BY <1>1, AppKeeps DEF Listening, LoggerClean, kind, test
<1>2. ASSUME NEW b \in Block, TestStep(b), NEW d \in Block
      PROVE  /\ kind'[d] = "lifespan" => ~catcher'[d]
             /\ setup'.enabled /\ kind'[d] # "lifespan" /\ pc'[d] \notin {"out", "left"} => catcher'[d]
             /\ catcher'[d] /\ pc'[d] = "left" =>
                  ~entered'[d] /\ kind'[d] # "request" /\ outcome'[d] \in {"timeout", "raised", "cancelled"}
  <2>1. setup' = setup /\ kind' = kind
    BY <1>2, TestKeeps DEF kind
  <2>2. /\ kind[d] = "lifespan" => ~catcher[d]
        /\ setup.enabled /\ kind[d] # "lifespan" /\ pc[d] \notin {"out", "left"} => catcher[d]
    BY DEF Listening
  <2>3. CASE d # b
    BY <1>2, <2>1, <2>2, <2>3, TestOthers DEF LoggerClean
  <2>4. CASE d = b
    <3>1. CASE Enter(b)
      BY <2>1, <2>4, <3>1 DEF Enter, Start, TypeOK, TestTypeOK, AppTypeOK
    <3>2. CASE Receive(b)
      BY <2>1, <2>2, <2>4, <3>2, ReceiveDoes DEF InNext
    <3>3. CASE NextTimeout(b)
      BY <2>1, <2>2, <2>4, <3>3, TimeoutDoes DEF InNext
    <3>4. CASE Read(b) \/ Close(b) \/ Closed(b)
      BY <2>1, <2>2, <2>4, <3>4 DEF Read, Close, Closed, caught, TypeOK, TestTypeOK
    <3>5. CASE \E exception \in {"none", "test"} : Leave(b, exception)
      BY <2>1, <2>2, <2>4, <3>5, LeaveDoes DEF TypeOK, TestTypeOK
    <3>6. CASE Finished(b)
      BY <2>1, <2>2, <2>4, <3>6, FinishedDoes
    <3>7. CASE Responded(b)
      BY <2>1, <2>2, <2>4, <3>7, RespondedDoes
    <3>8. CASE FinishTimeout(b)
      BY <2>1, <2>2, <2>4, <3>8, FinishTimeoutDoes
    <3> QED
      BY <1>2, <3>1, <3>2, <3>3, <3>4, <3>5, <3>6, <3>7, <3>8 DEF TestStep
  <2> QED
    BY <2>3, <2>4
<1>3. CASE CloseLoop \/ LoopClosed \/ UNCHANGED vars
  BY <1>3 DEF CloseLoop, LoopClosed, vars, Listening, LoggerClean, kind, test, caught
<1> QED
  BY <1>1, <1>2, <1>3, Steps DEF Listening, LoggerClean

\* A WebSocketDisconnect goes with the leaving of a block only if it is not
\* entered yet: no other step lets one wait.
LEMMA NextRefused ==
  ASSUME TypeOK, Places, Refused, [Next]_vars
  PROVE  Refused'
<1>1. ASSUME NEW b \in Block, AppStep(b) PROVE Refused'
  BY <1>1, AppKeeps DEF Refused, kind, test
<1>2. ASSUME NEW b \in Block, TestStep(b), NEW d \in Block, pc'[d] = "finishing", raising'[d] = "disconnect"
      PROVE  kind'[d] = "websocket" /\ ~entered'[d]
  <2>1. kind' = kind
    BY <1>2, TestKeeps DEF kind
  <2>2. CASE d # b
    BY <1>2, <2>1, <2>2, TestOthers DEF Refused
  <2>3. CASE d = b
    <3>1. CASE Enter(b) \/ Read(b) \/ Close(b) \/ Closed(b)
      BY <1>2, <2>3, <3>1 DEF Enter, Start, Read, Close, Closed, TypeOK, TestTypeOK
    <3>2. CASE Receive(b) \/ NextTimeout(b)
      BY <1>2, <2>1, <2>3, <3>2, ReceiveDoes, TimeoutDoes
    <3>3. CASE \E exception \in {"none", "test"} : Leave(b, exception)
      BY <1>2, <2>3, <3>3, LeaveDoes DEF TypeOK, TestTypeOK
    <3>4. CASE Finished(b) \/ Responded(b)
      BY <1>2, <2>3, <3>4, FinishedDoes, RespondedDoes
    <3>5. CASE FinishTimeout(b)
      BY <1>2, <2>1, <2>3, <3>5, FinishTimeoutDoes DEF Refused, FinishTimeout
    <3> QED
      BY <1>2, <3>1, <3>2, <3>3, <3>4, <3>5 DEF TestStep
  <2> QED
    BY <2>2, <2>3
<1>3. CASE CloseLoop \/ LoopClosed \/ UNCHANGED vars
  BY <1>3 DEF CloseLoop, LoopClosed, vars, Refused, kind, test
<1> QED
  BY <1>1, <1>2, <1>3, Steps DEF Refused

\* Every step keeps what was logged for the test, or raises it, or leaves the
\* block with the exception that is raised in its place.
LEMMA NextErrors ==
  ASSUME TypeOK, Places, NothingRuns, Listening, Refused, Collected, ErrorsSurface, [Next]_vars
  PROVE  Collected' /\ ErrorsSurface'
<1> DEFINE Surfaced(d) ==
      \/ "logged" \in told[d]
      \/ outcome[d] \in {"test", "timeout", "raised", "cancelled", "protocol"}
      \/ outcome[d] = "disconnect" /\ kind[d] = "websocket" /\ ~entered[d]
<1>1. ASSUME NEW b \in Block, AppStep(b) PROVE Collected' /\ ErrorsSurface'
  <2>1. UNCHANGED <<setup, kind, pc, told, outcome, entered>>
    BY <1>1, AppKeeps DEF kind, test
  <2>2. CASE AppLog(b)
    <3>1. \A d \in Block : errors'[d] = (errors[d] \/ catcher[d]) /\ (d # b => logged'[d] = logged[d])
      BY <2>2 DEF AppLog, TypeOK, AppTypeOK
    <3>2. pc[b] # "out" /\ (pc[b] = "left" => outcome[b] = "timeout")
      BY <1>1, AppTask DEF Places, NothingRuns
    <3>3. Collected'
      BY <2>1, <3>1, <3>2 DEF Collected, Listening
    <3>4. ErrorsSurface'
      BY <2>1, <3>1, <3>2 DEF ErrorsSurface
    <3> QED
      BY <3>3, <3>4
  <2>3. CASE ~AppLog(b)
    <3>1. UNCHANGED <<errors, logged>>
      BY <1>1, <2>3 DEF AppStep, AppSend, AppOver, caught
    <3> QED
      BY <2>1, <3>1 DEF Collected, ErrorsSurface
  <2> QED
    BY <2>2, <2>3
<1>2. ASSUME NEW b \in Block, TestStep(b), NEW d \in Block,
             setup'.enabled, kind'[d] # "lifespan", logged'[d]
      PROVE  /\ pc'[d] # "left" => errors'[d] \/ "logged" \in told'[d]
             /\ pc'[d] = "left" => Surfaced(d)'
  <2>0. kind' = kind
    BY <1>2, TestKeeps DEF kind
  <2>1. setup.enabled /\ kind[d] # "lifespan" /\ logged[d]
    BY <1>2, TestKeeps DEF kind
  <2>2. CASE d # b
    BY <1>2, <2>0, <2>1, <2>2, TestOthers DEF Collected, ErrorsSurface
  <2>3. CASE d = b
    <3>1. pc[b] # "left" => errors[b] \/ "logged" \in told[b]
      BY <2>1, <2>3 DEF Collected
    <3>2. CASE Enter(b)
      BY <2>3, <3>1, <3>2 DEF Enter, Start, TypeOK, TestTypeOK
    <3>3. CASE Receive(b)
      BY <2>3, <3>1, <3>3, ReceiveDoes DEF InNext
    <3>4. CASE NextTimeout(b)
      BY <2>1, <2>3, <3>1, <3>4, TimeoutDoes DEF InNext
    <3>5. CASE Read(b) \/ Close(b)
      BY <2>3, <3>1, <3>5 DEF Read, Close, caught, TypeOK, TestTypeOK
    <3>6. CASE Closed(b)
      BY <2>3, <3>1, <3>6 DEF Closed, caught, TypeOK, TestTypeOK
    <3>7. CASE \E exception \in {"none", "test"} : Leave(b, exception)
      BY <2>1, <2>3, <3>1, <3>7, LeaveDoes DEF TypeOK, TestTypeOK
    <3>8. ASSUME pc[b] = "finishing", pc'[b] = "left", told[b] \subseteq told'[b], errors[b] => outcome'[b] # "none",
                 outcome'[b] \in Exception, outcome'[b] = "logged" => "logged" \in told'[b],
                 outcome'[b] = "disconnect" => raising[b] = "disconnect" /\ entered'[b] = entered[b]
          PROVE  Surfaced(b)'
      BY <2>0, <3>1, <3>8 DEF Refused, Exception
    <3>9. outcome'[b] \in Exception
      BY <1>2, TestTypes DEF TypeOK, TestTypeOK
    <3>10. CASE Finished(b)
      BY <2>3, <3>8, <3>9, <3>10, FinishedDoes
    <3>11. CASE Responded(b)
      <4>1. ~(raising[b] = "disconnect")
        BY <3>11, RespondedDoes DEF Refused
      <4> QED
        BY <2>3, <3>1, <3>8, <3>9, <3>11, <4>1, RespondedDoes
    <3>12. CASE FinishTimeout(b)
      BY <2>1, <2>3, <3>1, <3>12, FinishTimeoutDoes
    <3> QED
      BY <1>2, <3>2, <3>3, <3>4, <3>5, <3>6, <3>7, <3>10, <3>11, <3>12 DEF TestStep
  <2> QED
    BY <2>2, <2>3
<1>3. CASE CloseLoop \/ LoopClosed \/ UNCHANGED vars
  BY <1>3 DEF CloseLoop, LoopClosed, vars, Collected, ErrorsSurface, kind, test, caught, app
<1> QED
  BY <1>1, <1>2, <1>3, Steps DEF Collected, ErrorsSurface

\* A jar with the right flag sends a secure cookie over https only.
LEMMA SentSecurely ==
  ASSUME NEW cookie, cookie.value = "secret" => cookie.secure, NEW https \in BOOLEAN, ~https
  PROVE  Sendable(cookie, https) # "secret"
  BY DEF Sendable

\* _keep_cookies() keeps the flag with the cookie.
LEMMA KeptFlagged ==
  ASSUME TypeOK, Flagged, NEW b \in Block
  PROVE  Kept(b).value = "secret" => Kept(b).secure
<1>1. reply[b].cookie \in {"keep", "secret", "plain", "expired"}
  BY DEF TypeOK, CookieTypeOK
<1> QED
  BY <1>1 DEF Kept, Flagged

\* Every step keeps secure cookies flagged, and on https.
LEMMA NextCookies ==
  ASSUME TypeOK, Places, Flagged, SecureStays, [Next]_vars
  PROVE  Flagged' /\ SecureStays'
<1>1. ASSUME NEW b \in Block, AppStep(b) PROVE Flagged' /\ SecureStays'
  BY <1>1, AppKeeps DEF Flagged, SecureStays, cookies
<1>2. ASSUME NEW b \in Block, TestStep(b) PROVE Flagged' /\ SecureStays'
  <2>1. CASE Enter(b)
    <3>1. jar' = jar /\ secure' = secure
      BY <2>1 DEF Enter
    <3>2. \A d \in Block : d # b => sent'[d] = sent[d]
      BY <1>2, TestOthers
    <3>3. ~secure[b] => sent'[b] # "secret"
      <4>1. sent'[b] \in {"none", Sendable(jar, secure[b])} /\ secure[b] \in BOOLEAN
        BY <2>1 DEF Enter, TypeOK, CookieTypeOK
      <4> QED
        BY <4>1, SentSecurely DEF Flagged
    <3> QED
      BY <3>1, <3>2, <3>3 DEF Flagged, SecureStays
  <2>2. CASE Receive(b)
    <3>1. UNCHANGED <<secure, sent>> /\ jar' \in {jar, Kept(b)}
      BY <2>2 DEF Receive
    <3> QED
      BY <3>1, KeptFlagged DEF Flagged, SecureStays
  <2>3. CASE Responded(b)
    <3>1. Flagged'
      BY <2>3, RespondedDoes, KeptFlagged DEF Flagged
    <3>2. ASSUME NEW d \in Block, ~secure'[d] PROVE sent'[d] # "secret"
      <4>1. CASE d # b
        BY <1>2, <3>2, <4>1, TestOthers DEF SecureStays
      <4>2. CASE d = b
        BY <2>3, <3>2, <4>2, RespondedDoes, KeptFlagged, SentSecurely DEF SecureStays
      <4> QED
        BY <4>1, <4>2
    <3> QED
      BY <3>1, <3>2 DEF SecureStays
  <2>4. CASE UNCHANGED <<jar, secure, sent>>
    BY <2>4 DEF Flagged, SecureStays
  <2>5. CASE NextTimeout(b) \/ Read(b) \/ Close(b) \/ Finished(b) \/ Closed(b) \/ FinishTimeout(b)
    BY <2>4, <2>5 DEF NextTimeout, Read, Close, Finished, Closed, FinishTimeout, cookies
  <2>6. CASE \E exception \in {"none", "test"} : Leave(b, exception)
    BY <2>4, <2>6 DEF Leave, cookies
  <2> QED
    BY <1>2, <2>1, <2>2, <2>3, <2>5, <2>6 DEF TestStep
<1>3. CASE CloseLoop \/ LoopClosed \/ UNCHANGED vars
  BY <1>3 DEF CloseLoop, LoopClosed, vars, Flagged, SecureStays, cookies
<1> QED
  BY <1>1, <1>2, <1>3, Steps

-----------------------------------------------------------------------------
(* The theorems.                                                           *)

\* The inductive invariant holds in every state of a test.
THEOREM Invariance == Spec => []IInv
<1>1. Init => IInv
  <2> SUFFICES ASSUME Init PROVE IInv
    OBVIOUS
  <2>1. TypeOK
    BY InitTypeOK
  <2>2. Places /\ NothingRuns /\ Listening /\ LoggerClean /\ Refused /\ Collected /\ ErrorsSurface
    BY DEF Init, All, Places, NothingRuns, Listening, LoggerClean, Refused, Collected, ErrorsSurface
  <2>3. DoneLast /\ DoneKept
    BY DEF Init, All, DoneLast, DoneKept, Over
  <2>4. Flagged /\ SecureStays
    BY DEF Init, All, Flagged, SecureStays
  <2> QED
    BY <2>1, <2>2, <2>3, <2>4 DEF IInv
<1>2. IInv /\ [Next]_vars => IInv'
  BY NextTypeOK, NextPlaces, NextRuns, NextDoneLast, NextDoneKept, NextCatcher, NextRefused, NextErrors, NextCookies DEF IInv
<1> QED
  BY <1>1, <1>2, PTL DEF Spec

\* Every variable of the client and its blocks keeps its type.
THEOREM TypeCorrect == Spec => []TypeOK
<1>1. IInv => TypeOK
  BY DEF IInv
<1> QED
  BY <1>1, Invariance, PTL

\* Nothing of the app runs on after its block, unless a TimeoutError said so,
\* nor after TestClient.close().
THEOREM Stopped == Spec => []NothingRuns
<1>1. IInv => NothingRuns
  BY DEF IInv
<1> QED
  BY <1>1, Invariance, PTL

\* An error that the app logged is raised in the test, unless its block ends
\* with another exception or its WebSocket was never accepted.
THEOREM Raised == Spec => []ErrorsSurface
<1>1. IInv => ErrorsSurface
  BY DEF IInv
<1> QED
  BY <1>1, Invariance, PTL

\* A catcher outlives its block only if __aenter__ failed twice.
THEOREM Clean == Spec => []LoggerClean
<1>1. IInv => LoggerClean
  BY DEF IInv
<1> QED
  BY <1>1, Invariance, PTL

\* No wait is for a message of a task that is over, with an empty queue, but
\* for a stream that is read after its end.
THEOREM Answered == Spec => []NoDeafWait
<1>1. IInv => NoDeafWait
  BY SetupType DEF IInv, NoDeafWait, DoneKept, Places, InNext
<1> QED
  BY <1>1, Invariance, PTL

\* A cookie set with Secure is never sent over http.
THEOREM Secured == Spec => []SecureStays
<1>1. IInv => SecureStays
  BY DEF IInv
<1> QED
  BY <1>1, Invariance, PTL
=============================================================================
