----------------------- MODULE ServerLifecycleProofs -----------------------
(***************************************************************************)
(* For any number of connections and requests: a stop gives connections    *)
(* the grace it stored, and the shutdown hooks run after the answers of    *)
(* the requests that reached the app.                                      *)
(*                                                                         *)
(* The inductive invariant follows the stop from serve() through the       *)
(* permit to accept_loop() (StopOrder, GraceKept), ties each request to    *)
(* one connection and that to its task (Ownership, Progress), and says     *)
(* where a request is that has no answer yet (Pursued, Drained).           *)
(***************************************************************************)
EXTENDS ServerLifecycle, TLAPS

\* How far accept_loop() can be for each place of serve()
StopOrder ==
  /\ py = "startup" => rust = "none"
  /\ py \in {"serving", "storing"} => rust = "accepting" /\ ~permit
  /\ py = "draining" => rust # "none"
  /\ py \in {"closing", "joining"} => rust # "none" /\ (cancelled \/ rust \in {"finished", "ended"})
  /\ py = "hooks" => rust = "ended"
  /\ py = "ended" => rust \in {"none", "ended"}
  /\ rust = "none" => ~permit /\ ~gaveUp

\* The grace is stored before the permit, and taken with it.
GraceKept ==
  /\ py \in {"storing", "draining"} => grace
  /\ rust \in {"draining", "finished", "ended"} /\ ~cancelled => granted
  /\ gaveUp => rust \in {"finished", "ended"}

\* A request belongs to one connection, and is numbered in the order it came.
Ownership ==
  /\ \A c \in Conn : current[c] <= requests
  /\ \A c, d \in Conn : c # d /\ current[c] = current[d] => current[c] = 0
  /\ \A c \in Conn : conn[c] \in {"body", "wait", "write"} => current[c] # 0
  /\ \A r \in Request : r > requests => task[r] = "none" /\ r \notin answered \union deserted
  /\ rust = "none" => requests = 0

\* What connection and task know of each other.
Progress ==
  /\ \A c \in Conn : conn[c] = "body" => task[current[c]] = "none" /\ current[c] \notin answered
  /\ \A c \in Conn : conn[c] = "write" => reply[current[c]] # "none"
  /\ \A r \in Request : reply[r] # "none" => task[r] \in {"streaming", "after", "over"}
  /\ \A r \in Request : task[r] = "streaming" => reply[r] = "stream"
  /\ \A r \in answered : task[r] \in {"after", "over"}

\* A request that reached the app is answered, its client has left, or its
\* connection is still at it, unless the thread gave up.
Pursued ==
  \A r \in Request : task[r] # "none" =>
    \/ r \in answered \union deserted
    \/ gaveUp
    \/ \E c \in Conn : current[c] = r /\ conn[c] \in {"wait", "write"}

\* A thread that did not give up has waited for every connection.
Drained == rust \in {"finished", "ended"} /\ ~gaveUp => \A c \in Conn : ~Open(c)

IInv == TypeOK /\ StopOrder /\ GraceKept /\ Ownership /\ Progress /\ Pursued /\ Drained

-----------------------------------------------------------------------------
(* A step is of serve(), of accept_loop(), of a connection or of a task.   *)

ServeStep == Serve \/ StartupFails \/ AskStop \/ Cancelled
ConnStep(c) == Connection(c) \/ Connects(c) \/ ClientLeaves(c)

\* The four kinds of steps.
LEMMA Steps ==
  ASSUME [Next]_vars
  PROVE  \/ ServeStep \/ AcceptLoop
         \/ \E c \in Conn : ConnStep(c)
         \/ \E r \in Request : Task(r)
         \/ UNCHANGED vars
  BY DEF Next, ServeStep, ConnStep

\* serve() leaves connections and tasks alone.
LEMMA ServeKeeps ==
  ASSUME ServeStep
  PROVE  UNCHANGED <<connVars, taskVars, granted, gaveUp>> /\ (UNCHANGED rust \/ StartServer)
  BY DEF ServeStep, Serve, StartServer, StopStores, StopNotifies, SeesFinished, Close, Join, HooksEnd,
         StartupFails, AskStop, Cancelled, rustVars, connVars, taskVars

\* A connection leaves serve(), the stop and accept_loop() alone.
LEMMA ConnKeeps ==
  ASSUME NEW c \in Conn, ConnStep(c)
  PROVE  UNCHANGED <<serveVars, stopVars, rustVars, reply>>
  BY DEF ConnStep, Connection, Accept, ReadHeaders, ReadBody, GetsReply, Written, HearsShutdown, Connects,
         ClientLeaves, taskVars

\* So does a task, which leaves connections alone too.
LEMMA TaskKeeps ==
  ASSUME NEW r \in Request, Task(r)
  PROVE  UNCHANGED <<serveVars, stopVars, rustVars, connVars>>
  BY DEF Task, Take, EndsStream, TaskEnds, TaskRaises, Answers

\* accept_loop() leaves serve(), requests and tasks alone.
LEMMA AcceptKeeps ==
  ASSUME AcceptLoop
  PROVE  UNCHANGED <<serveVars, grace, requests, current, told, deserted, refused, answered, taskVars>>
  BY DEF AcceptLoop, Notified, AllClosed, GraceOver, ThreadEnds, connVars, stopVars

-----------------------------------------------------------------------------
(* The types.                                                              *)

\* The first state has them.
LEMMA InitTypeOK == Init => TypeOK
<1> SUFFICES ASSUME Init PROVE TypeOK
  OBVIOUS
<1>1. conn \in [Conn -> {"new", "pending", "idle", "body", "wait", "write", "closed"}]
  BY DEF Init
<1>2. requests \in 0..MaxRequests /\ current \in [Conn -> 0..MaxRequests]
  BY ServerLifecycleAssumption DEF Init
<1>3. /\ task \in [Request -> {"none", "queued", "running", "streaming", "after", "over"}]
      /\ reply \in [Request -> {"none", "whole", "stream", "dropped"}]
  BY DEF Init
<1> QED
  BY <1>1, <1>2, <1>3 DEF Init, TypeOK

\* Every step of a connection keeps them.
LEMMA ConnTypeOK ==
  ASSUME TypeOK, Ownership, NEW c \in Conn, ConnStep(c)
  PROVE  TypeOK'
<1> USE ServerLifecycleAssumption DEF TypeOK, Request, serveVars, stopVars, rustVars, taskVars
<1>1. conn[c] \in {"body", "wait", "write"} => current[c] \in 1..MaxRequests
  BY DEF Ownership
<1>2. CASE Accept(c)
  BY <1>2 DEF Accept
<1>3. CASE Connects(c)
  BY <1>3 DEF Connects
<1>4. CASE GetsReply(c)
  BY <1>4 DEF GetsReply
<1>5. CASE HearsShutdown(c)
  BY <1>5 DEF HearsShutdown
<1>6. CASE ReadHeaders(c)
  BY <1>6 DEF ReadHeaders
<1>7. CASE \E ok \in BOOLEAN : ReadBody(c, ok)
  BY <1>1, <1>7 DEF ReadBody
<1>8. CASE Written(c)
  <2>1. answered' \subseteq Request
    BY <1>1, <1>8 DEF Written
  <2>2. conn' \in [Conn -> {"new", "pending", "idle", "body", "wait", "write", "closed"}]
    BY <1>8 DEF Written
  <2> QED
    BY <1>8, <2>1, <2>2 DEF Written
<1>9. CASE ClientLeaves(c)
  <2>1. deserted' \subseteq Request
    BY <1>1, <1>9 DEF ClientLeaves
  <2> QED
    BY <1>9, <2>1 DEF ClientLeaves
<1> QED
  BY <1>2, <1>3, <1>4, <1>5, <1>6, <1>7, <1>8, <1>9 DEF ConnStep, Connection

\* Every step keeps them.
LEMMA NextTypeOK ==
  ASSUME TypeOK, Ownership, [Next]_vars
  PROVE  TypeOK'
<1> USE DEF TypeOK, serveVars, stopVars, rustVars, connVars, taskVars
<1>1. CASE ServeStep
  <2>1. CASE StartServer \/ StartupFails \/ SeesFinished \/ Join \/ HooksEnd
    BY <2>1 DEF StartServer, StartupFails, SeesFinished, Join, HooksEnd
  <2>2. CASE StopStores \/ StopNotifies \/ Close
    BY <2>2 DEF StopStores, StopNotifies, Close
  <2>3. CASE AskStop
    BY <2>3 DEF AskStop
  <2>4. CASE Cancelled
    BY <2>4 DEF Cancelled
  <2> QED
    BY <1>1, <2>1, <2>2, <2>3, <2>4 DEF ServeStep, Serve
<1>2. CASE AcceptLoop
  <2>1. CASE Notified
    BY <2>1 DEF Notified
  <2>2. CASE AllClosed
    BY <2>2 DEF AllClosed
  <2>3. CASE GraceOver
    BY <2>3 DEF GraceOver
  <2>4. CASE ThreadEnds
    BY <2>4 DEF ThreadEnds
  <2> QED
    BY <1>2, <2>1, <2>2, <2>3, <2>4 DEF AcceptLoop
<1>3. CASE \E c \in Conn : ConnStep(c)
  BY <1>3, ConnTypeOK
<1>4. CASE \E r \in Request : Task(r)
  BY <1>4 DEF Task, Take, EndsStream, TaskEnds, TaskRaises, Answers
<1>5. CASE UNCHANGED vars
  BY <1>5 DEF vars
<1> QED
  BY <1>1, <1>2, <1>3, <1>4, <1>5, Steps

-----------------------------------------------------------------------------
(* The stop.                                                               *)

\* Every step keeps the order of the stop, and its grace.
LEMMA NextStop ==
  ASSUME TypeOK, StopOrder, GraceKept, [Next]_vars
  PROVE  StopOrder' /\ GraceKept'
<1> USE DEF StopOrder, GraceKept, serveVars, stopVars, rustVars
<1>1. CASE ServeStep
  BY <1>1 DEF TypeOK, ServeStep, Serve, StartServer, StopStores, StopNotifies, SeesFinished, Close, Join,
              HooksEnd, StartupFails, AskStop, Cancelled
<1>2. CASE AcceptLoop
  BY <1>2 DEF TypeOK, AcceptLoop, Notified, AllClosed, GraceOver, ThreadEnds
<1>3. CASE \E c \in Conn : ConnStep(c)
  BY <1>3, ConnKeeps
<1>4. CASE \E r \in Request : Task(r)
  BY <1>4, TaskKeeps
<1>5. CASE UNCHANGED vars
  BY <1>5 DEF vars
<1> QED
  BY <1>1, <1>2, <1>3, <1>4, <1>5, Steps

-----------------------------------------------------------------------------
(* Requests, their connections and their tasks.                            *)

\* Every step keeps each request with its connection.
LEMMA NextOwnership ==
  ASSUME TypeOK, StopOrder, Ownership, [Next]_vars
  PROVE  Ownership'
<1> USE ServerLifecycleAssumption DEF TypeOK, Ownership, Request
<1>1. CASE ServeStep
  BY <1>1, ServeKeeps DEF connVars, taskVars, StartServer
<1>2. CASE AcceptLoop
  <2>1. rust' # "none" /\ UNCHANGED <<requests, current, answered, deserted, task>>
    BY <1>2, AcceptKeeps DEF taskVars, AcceptLoop, Notified, AllClosed, GraceOver, ThreadEnds
  <2>2. \A c \in Conn : conn'[c] \in {conn[c], "closed"}
    BY <1>2 DEF AcceptLoop, Notified, AllClosed, GraceOver, ThreadEnds, connVars
  <2> QED
    BY <2>1, <2>2
<1>3. ASSUME NEW c \in Conn, ConnStep(c) PROVE Ownership'
  <2> USE DEF serveVars, stopVars, rustVars, taskVars
  <2>1. CASE Accept(c) \/ Connects(c) \/ GetsReply(c) \/ HearsShutdown(c)
    BY <2>1 DEF Accept, Connects, GetsReply, HearsShutdown
  <2>2. CASE ReadHeaders(c)
    <3>1. /\ requests' = requests + 1
          /\ current' = [current EXCEPT ![c] = requests + 1]
          /\ conn' = [conn EXCEPT ![c] = "body"]
          /\ UNCHANGED <<rust, task, answered, deserted>> /\ Runs
      BY <2>2 DEF ReadHeaders
    <3> QED
      BY <3>1 DEF Runs
  <2>3. CASE \E ok \in BOOLEAN : ReadBody(c, ok)
    BY <2>3 DEF ReadBody
  <2>4. CASE Written(c)
    BY <2>4 DEF Written
  <2>5. CASE ClientLeaves(c)
    BY <2>5 DEF ClientLeaves
  <2> QED
    BY <1>3, <2>1, <2>2, <2>3, <2>4, <2>5 DEF ConnStep, Connection
<1>4. CASE \E r \in Request : Task(r)
  <2>1. UNCHANGED <<rustVars, connVars>>
    BY <1>4, TaskKeeps
  <2>2. \A r \in Request : task[r] = "none" => task'[r] = "none"
    BY <1>4 DEF Task, Take, EndsStream, TaskEnds, TaskRaises, Answers
  <2> QED
    BY <2>1, <2>2 DEF rustVars, connVars
<1>5. CASE UNCHANGED vars
  BY <1>5 DEF vars, connVars, taskVars, rustVars
<1> QED
  BY <1>1, <1>2, <1>3, <1>4, <1>5, Steps

\* Every step keeps connections and tasks in step.
LEMMA NextProgress ==
  ASSUME TypeOK, Ownership, Progress, [Next]_vars
  PROVE  Progress'
<1> USE ServerLifecycleAssumption DEF TypeOK, Progress, Request
<1>1. CASE ServeStep
  <2>1. UNCHANGED <<conn, current, answered, task, reply>>
    BY <1>1, ServeKeeps DEF connVars, taskVars
  <2> QED
    BY <2>1
<1>2. CASE AcceptLoop
  <2>1. UNCHANGED <<current, answered, task, reply>>
    BY <1>2, AcceptKeeps DEF taskVars
  <2>2. \A c \in Conn : conn'[c] \in {conn[c], "closed"}
    BY <1>2 DEF AcceptLoop, Notified, AllClosed, GraceOver, ThreadEnds, connVars
  <2> QED
    BY <2>1, <2>2
<1>3. ASSUME NEW c \in Conn, ConnStep(c) PROVE Progress'
  <2> USE DEF taskVars
  <2>1. conn[c] \in {"body", "wait", "write"} => current[c] \in Request
    BY DEF Ownership
  <2>2. CASE Accept(c)
    BY <2>2 DEF Accept
  <2>3. CASE Connects(c)
    BY <2>3 DEF Connects
  <2>4. CASE GetsReply(c)
    BY <2>4 DEF GetsReply
  <2>5. CASE HearsShutdown(c)
    BY <2>5 DEF HearsShutdown
  <2>6. CASE ReadHeaders(c)
    <3>1. /\ current' = [current EXCEPT ![c] = requests + 1]
          /\ conn' = [conn EXCEPT ![c] = "body"]
          /\ UNCHANGED <<task, reply, answered>>
          /\ requests + 1 \in Request
      BY <2>6 DEF ReadHeaders
    <3>2. task[requests + 1] = "none" /\ requests + 1 \notin answered
      BY <3>1 DEF Ownership
    <3> QED
      BY <3>1, <3>2
  <2>7. CASE \E ok \in BOOLEAN : ReadBody(c, ok)
    <3>1. /\ task' = [task EXCEPT ![current[c]] = "queued"] /\ conn[c] = "body"
          /\ conn' = [conn EXCEPT ![c] = "wait"]
          /\ UNCHANGED <<current, reply, answered>>
      BY <2>7 DEF ReadBody
    <3>2. current[c] \in Request /\ \A d \in Conn : d # c => current[d] # current[c]
      BY <2>1, <3>1 DEF Ownership
    <3>3. task[current[c]] = "none" /\ reply[current[c]] = "none" /\ current[c] \notin answered
      BY <3>1, <3>2
    <3> QED
      BY <3>1, <3>2, <3>3
  <2>8. CASE Written(c)
    <3>1. /\ conn[c] = "write" /\ reply[current[c]] = "stream" => task[current[c]] # "streaming"
          /\ conn' = [conn EXCEPT ![c] = IF c \in told \union refused THEN "closed" ELSE "idle"]
          /\ answered' = answered \union {current[c]}
          /\ UNCHANGED <<current, task, reply>>
          /\ conn[c] = "write"
      BY <2>8 DEF Written
    <3>2. task[current[c]] \in {"after", "over"} /\ current[c] \in Request
      BY <2>1, <3>1
    <3>3. \A d \in Conn : conn'[d] = "body" => d # c /\ conn[d] = "body" /\ current[d] # current[c]
      BY <3>1, <3>2
    <3> QED
      BY <3>1, <3>2, <3>3
  <2>9. CASE ClientLeaves(c)
    BY <2>9 DEF ClientLeaves
  <2> QED
    BY <1>3, <2>2, <2>3, <2>4, <2>5, <2>6, <2>7, <2>8, <2>9 DEF ConnStep, Connection
<1>4. ASSUME NEW r \in Request, Task(r) PROVE Progress'
  <2> USE DEF connVars
  <2>1. CASE Take(r)
    BY <2>1 DEF Take
  <2>2. CASE EndsStream(r)
    BY <2>2 DEF EndsStream
  <2>3. CASE TaskEnds(r)
    BY <2>3 DEF TaskEnds
  <2>4. CASE TaskRaises(r)
    BY <2>4 DEF TaskRaises
  <2>5. CASE \E kind \in {"whole", "stream"} : Answers(r, kind)
    BY <2>5 DEF Answers
  <2> QED
    BY <1>4, <2>1, <2>2, <2>3, <2>4, <2>5 DEF Task
<1>5. CASE UNCHANGED vars
  BY <1>5 DEF vars, connVars, taskVars
<1> QED
  BY <1>1, <1>2, <1>3, <1>4, <1>5, Steps

\* No step loses a request.
LEMMA NextPursued ==
  ASSUME TypeOK, StopOrder, Ownership, Pursued, Drained, [Next]_vars
  PROVE  Pursued'
<1> USE DEF TypeOK, Pursued
<1>1. CASE ServeStep
  BY <1>1, ServeKeeps DEF connVars, taskVars
<1>2. CASE AcceptLoop
  <2> SUFFICES ASSUME NEW r \in Request, task[r] # "none", r \notin answered \union deserted, ~gaveUp'
               PROVE  \E c \in Conn : current'[c] = r /\ conn'[c] \in {"wait", "write"}
    BY <1>2, AcceptKeeps DEF taskVars
  <2>1. ~gaveUp
    BY <1>2 DEF AcceptLoop, Notified, AllClosed, GraceOver, ThreadEnds
  <2>2. PICK c \in Conn : current[c] = r /\ conn[c] \in {"wait", "write"}
    BY <2>1
  <2>3. current' = current
    BY <1>2, AcceptKeeps
  <2>4. rust # "finished"
    BY <2>1, <2>2 DEF Drained, Open
  <2>5. conn'[c] = conn[c]
    BY <1>2, <2>2, <2>4 DEF AcceptLoop, Notified, AllClosed, GraceOver, ThreadEnds, connVars
  <2> QED
    BY <2>2, <2>3, <2>5
<1>3. ASSUME NEW c \in Conn, ConnStep(c) PROVE Pursued'
  <2> USE DEF rustVars, taskVars
  <2>1. CASE Accept(c) \/ Connects(c)
    BY <2>1 DEF Accept, Connects
  <2>2. CASE GetsReply(c)
    BY <2>2 DEF GetsReply
  <2>3. CASE HearsShutdown(c)
    BY <2>3 DEF HearsShutdown
  <2>4. CASE ReadHeaders(c)
    BY <2>4 DEF ReadHeaders
  <2>5. CASE \E ok \in BOOLEAN : ReadBody(c, ok)
    BY <2>5 DEF ReadBody
  <2>6. CASE Written(c)
    BY <2>6 DEF Written
  <2>7. CASE ClientLeaves(c)
    BY <2>7 DEF ClientLeaves
  <2> QED
    BY <1>3, <2>1, <2>2, <2>3, <2>4, <2>5, <2>6, <2>7 DEF ConnStep, Connection
<1>4. CASE \E r \in Request : Task(r)
  <2>1. UNCHANGED <<rustVars, connVars>>
    BY <1>4, TaskKeeps
  <2>2. \A r \in Request : task'[r] # "none" => task[r] # "none"
    BY <1>4 DEF Task, Take, EndsStream, TaskEnds, TaskRaises, Answers
  <2> QED
    BY <2>1, <2>2 DEF rustVars, connVars
<1>5. CASE UNCHANGED vars
  BY <1>5 DEF vars, connVars, taskVars, rustVars
<1> QED
  BY <1>1, <1>2, <1>3, <1>4, <1>5, Steps

\* No connection is open once the thread has waited for all of them.
LEMMA NextDrained ==
  ASSUME TypeOK, StopOrder, Drained, [Next]_vars
  PROVE  Drained'
<1> USE DEF TypeOK, Drained, Open
<1>1. CASE ServeStep
  BY <1>1, ServeKeeps DEF connVars, StartServer
<1>2. CASE AcceptLoop
  BY <1>2 DEF AcceptLoop, Notified, AllClosed, GraceOver, ThreadEnds, connVars
<1>3. ASSUME NEW c \in Conn, ConnStep(c) PROVE Drained'
  <2>1. UNCHANGED <<rust, gaveUp>> /\ Runs
    BY <1>3, ConnKeeps DEF ConnStep, Connection, Accept, ReadHeaders, ReadBody, GetsReply, Written,
                           HearsShutdown, Connects, ClientLeaves, Runs, rustVars
  <2> QED
    BY <2>1 DEF Runs
<1>4. CASE \E r \in Request : Task(r)
  BY <1>4, TaskKeeps DEF rustVars, connVars
<1>5. CASE UNCHANGED vars
  BY <1>5 DEF vars, connVars, rustVars
<1> QED
  BY <1>1, <1>2, <1>3, <1>4, <1>5, Steps

-----------------------------------------------------------------------------
(* The theorems.                                                           *)

\* The inductive invariant holds in every state of a server.
THEOREM Invariance == SafeSpec => []IInv
<1>1. Init => IInv
  <2> SUFFICES ASSUME Init PROVE IInv
    OBVIOUS
  <2>1. TypeOK
    BY InitTypeOK
  <2>2. StopOrder /\ GraceKept /\ Drained
    BY DEF Init, StopOrder, GraceKept, Drained
  <2>3. Ownership
    BY ServerLifecycleAssumption DEF Init, Ownership
  <2>4. Progress /\ Pursued
    BY DEF Init, Progress, Pursued
  <2> QED
    BY <2>1, <2>2, <2>3, <2>4 DEF IInv
<1>2. IInv /\ [Next]_vars => IInv'
  BY NextTypeOK, NextStop, NextOwnership, NextProgress, NextPursued, NextDrained DEF IInv
<1> QED
  BY <1>1, <1>2, PTL DEF SafeSpec

\* Every variable keeps its type.
THEOREM TypeCorrect == SafeSpec => []TypeOK
<1>1. IInv => TypeOK
  BY DEF IInv
<1> QED
  BY <1>1, Invariance, PTL

\* The Rust thread never gives a connection up before its time, unless serve()
\* was cancelled: the notification of stop() never overtakes its grace.
THEOREM Honoured == SafeSpec => []GraceHonoured
<1>1. IInv => GraceHonoured
  <2> SUFFICES ASSUME IInv, gaveUp, ~cancelled PROVE granted
    BY DEF GraceHonoured
  <2> QED
    BY DEF IInv, GraceKept
<1> QED
  BY <1>1, Invariance, PTL

\* When the shutdown hooks run, the requests that reached the app, of clients
\* that stayed, are answered, unless the grace was over first.
THEOREM Graceful == SafeSpec => []GracefulDrain
<1>1. IInv => GracefulDrain
  <2> SUFFICES ASSUME IInv, py \in {"hooks", "ended"}, ~gaveUp,
                      NEW r \in Request, task[r] # "none", r \notin deserted
               PROVE  r \in answered /\ task[r] \notin {"queued", "running", "streaming"}
    BY DEF GracefulDrain
  <2>1. rust = "ended"
    BY ServerLifecycleAssumption DEF IInv, StopOrder, Ownership, Request
  <2>2. \A c \in Conn : ~Open(c)
    BY <2>1 DEF IInv, Drained
  <2>3. r \in answered
    BY <2>2 DEF IInv, Pursued, Open
  <2> QED
    BY <2>3 DEF IInv, Progress
<1> QED
  BY <1>1, Invariance, PTL
=============================================================================
