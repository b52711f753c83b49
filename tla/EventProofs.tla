---------------------------- MODULE EventProofs ----------------------------
(***************************************************************************)
(* Events on their way from Rust to the loop, and a handler that waits for *)
(* one.                                                                    *)
(*                                                                         *)
(* EventQueue, for any number of pushing threads, any socket and any       *)
(* number of events: IInv is inductive, so no wake-up is lost and at most  *)
(* one byte waits, and every step is a step of EventChannel.               *)
(*                                                                         *)
(* WebSocketLink, whose queue is that channel, for any number of tasks and *)
(* messages: LinkInv is inductive, so a handler in receive() hears of the  *)
(* end of its connection but where DisconnectTold names why not.  The two specifications share *)
(* no variable.                                                            *)
(***************************************************************************)
EXTENDS EventQueue, WebSocketLink, FiniteSetTheorems, TLAPS

\* QueueInit establishes the inductive invariant.
LEMMA InitIInv == QueueInit => IInv
<1> USE EventQueueAssumption
<1> SUFFICES ASSUME QueueInit PROVE IInv
  OBVIOUS
<1>1. QueueTypeOK
  <2>1. queue \in Seq(1..MaxEvents) /\ taken \in Seq(1..MaxEvents)
    BY DEF QueueInit
  <2>2. wakeBytes \in 0..SocketCap /\ pushed \in 0..MaxEvents
    BY DEF QueueInit
  <2>4. woken \in BOOLEAN
    BY DEF QueueInit
  <2>3. pusher \in [Thread -> PusherState] /\ loop \in LoopState
    BY DEF QueueInit, PusherState, LoopState
  <2> QED
    BY <2>1, <2>2, <2>3, <2>4 DEF QueueTypeOK
<1>2. SingleByte /\ Handshake /\ QueuedIsFlagged
  BY DEF QueueInit, SingleByte, Handshake, QueuedIsFlagged, Writing
<1> QED
  BY <1>1, <1>2 DEF IInv

\* Every step keeps the types: what is queued and taken are events.
LEMMA NextTypeOK == QueueTypeOK /\ [QueueNext]_queueVars => QueueTypeOK'
<1> USE EventQueueAssumption DEF QueueTypeOK, PusherState, LoopState
<1> SUFFICES ASSUME QueueTypeOK, [QueueNext]_queueVars PROVE QueueTypeOK'
  OBVIOUS
<1>1. ASSUME NEW t \in Thread, PushBack(t) PROVE QueueTypeOK'
  BY <1>1 DEF PushBack
<1>2. ASSUME NEW t \in Thread, SwapWoken(t) PROVE QueueTypeOK'
  BY <1>2 DEF SwapWoken
<1>3. ASSUME NEW t \in Thread, WriteByte(t) PROVE QueueTypeOK'
  BY <1>3 DEF WriteByte
<1>4. CASE Readable
  BY <1>4 DEF Readable
<1>5. CASE ReadBytes
  BY <1>5 DEF ReadBytes
<1>6. CASE ReadNothing
  BY <1>6 DEF ReadNothing
<1>7. CASE ClearWoken
  BY <1>7 DEF ClearWoken
<1>8. CASE DrainQueue
  BY <1>8 DEF DrainQueue
<1>9. CASE UNCHANGED queueVars
  BY <1>9 DEF queueVars
<1> QED
  BY <1>1, <1>2, <1>3, <1>4, <1>5, <1>6, <1>7, <1>8, <1>9 DEF QueueNext, Push, Take

\* Every step keeps the flag, the byte and its writer in agreement.
LEMMA NextHandshake ==
  QueueTypeOK /\ SingleByte /\ Handshake /\ [QueueNext]_queueVars => SingleByte' /\ Handshake'
<1> USE EventQueueAssumption DEF QueueTypeOK, PusherState, LoopState, SingleByte, Handshake, Writing
<1> SUFFICES ASSUME QueueTypeOK, SingleByte, Handshake, [QueueNext]_queueVars
             PROVE  SingleByte' /\ Handshake'
  OBVIOUS
<1>1. ASSUME NEW t \in Thread, PushBack(t) PROVE SingleByte' /\ Handshake'
  BY <1>1 DEF PushBack
<1>2. ASSUME NEW t \in Thread, SwapWoken(t) PROVE SingleByte' /\ Handshake'
  <2>1. CASE woken
    <3>1. \A u \in Thread : Writing(u)' <=> Writing(u)
      BY <1>2, <2>1 DEF SwapWoken
    <3> QED
      BY <1>2, <2>1, <3>1 DEF SwapWoken
  <2>2. CASE ~woken
    <3>1. \A u \in Thread : Writing(u)' <=> u = t
      BY <1>2, <2>2 DEF SwapWoken
    <3>2. loop \notin {"read", "clear"}
      BY <2>2
    <3> QED
      BY <1>2, <2>2, <3>1, <3>2 DEF SwapWoken
  <2> QED
    BY <2>1, <2>2
<1>3. ASSUME NEW t \in Thread, WriteByte(t) PROVE SingleByte' /\ Handshake'
  <2>1. wakeBytes = 0 /\ wakeBytes' = 1 /\ woken /\ woken'
    BY <1>3 DEF WriteByte
  <2>2. \A u \in Thread : ~Writing(u)'
    BY <1>3 DEF WriteByte
  <2>3. loop \notin {"read", "clear"} /\ loop' = loop
    BY <1>3 DEF WriteByte
  <2> QED
    BY <2>1, <2>2, <2>3
<1>4. CASE Readable
  BY <1>4 DEF Readable
<1>5. CASE ReadBytes
  BY <1>5 DEF ReadBytes
<1>6. CASE ReadNothing
  BY <1>6 DEF ReadNothing
<1>7. CASE ClearWoken
  BY <1>7 DEF ClearWoken
<1>8. CASE DrainQueue
  BY <1>8 DEF DrainQueue
<1>9. CASE UNCHANGED queueVars
  BY <1>9 DEF queueVars
<1> QED
  BY <1>1, <1>2, <1>3, <1>4, <1>5, <1>6, <1>7, <1>8, <1>9 DEF QueueNext, Push, Take

\* Every step keeps a queued event flagged, or about to be drained.
LEMMA NextQueued ==
  QueueTypeOK /\ QueuedIsFlagged /\ Handshake /\ [QueueNext]_queueVars => QueuedIsFlagged'
<1> USE DEF QueueTypeOK, PusherState, LoopState, QueuedIsFlagged
<1> SUFFICES ASSUME QueueTypeOK, QueuedIsFlagged, Handshake, [QueueNext]_queueVars
             PROVE  QueuedIsFlagged'
  OBVIOUS
<1>1. ASSUME NEW t \in Thread, PushBack(t) PROVE QueuedIsFlagged'
  <2>1. pusher'[t] = "swap"
    BY <1>1 DEF PushBack
  <2> QED
    BY <2>1
<1>2. ASSUME NEW t \in Thread, SwapWoken(t) PROVE QueuedIsFlagged'
  BY <1>2 DEF SwapWoken
<1>3. ASSUME NEW t \in Thread, WriteByte(t) PROVE QueuedIsFlagged'
  <2>1. \A u \in Thread : pusher[u] = "swap" => pusher'[u] = "swap"
    BY <1>3 DEF WriteByte
  <2> QED
    BY <1>3, <2>1 DEF WriteByte
<1>4. CASE Readable
  BY <1>4 DEF Readable, Handshake
<1>5. CASE ReadBytes
  BY <1>5 DEF ReadBytes
<1>6. CASE ReadNothing
  BY <1>6 DEF ReadNothing
<1>7. CASE ClearWoken
  BY <1>7 DEF ClearWoken
<1>8. CASE DrainQueue
  BY <1>8 DEF DrainQueue
<1>9. CASE UNCHANGED queueVars
  BY <1>9 DEF queueVars
<1> QED
  BY <1>1, <1>2, <1>3, <1>4, <1>5, <1>6, <1>7, <1>8, <1>9 DEF QueueNext, Push, Take

\* IInv holds in every reachable state.
THEOREM Invariance == QueueSafeSpec => []IInv
<1>1. QueueInit => IInv
  BY InitIInv
<1>2. IInv /\ [QueueNext]_queueVars => IInv'
  BY NextTypeOK, NextHandshake, NextQueued DEF IInv
<1> QED
  BY <1>1, <1>2, PTL DEF QueueSafeSpec

\* The types hold in every reachable state.
THEOREM TypeCorrect == QueueSafeSpec => []QueueTypeOK
<1>1. IInv => QueueTypeOK
  BY DEF IInv
<1> QED
  BY <1>1, Invariance, PTL

\* push() and take() never lose a wake-up: an event in the queue always has a
\* byte in the socket, a thread about to write one, or a take() under way.
THEOREM WakeupSafe == QueueSafeSpec => []NoLostWakeup
<1>1. IInv => NoLostWakeup
  BY DEF IInv, QueueTypeOK, Handshake, QueuedIsFlagged, NoLostWakeup, Writing, LoopState
<1> QED
  BY <1>1, Invariance, PTL

\* At most one byte is in the socket or about to be written to it.
THEOREM OneByte == QueueSafeSpec => []SingleByte
<1>1. IInv => SingleByte
  BY DEF IInv
<1> QED
  BY <1>1, Invariance, PTL

\* Every step of push() and take() is a step of the channel, or changes
\* nothing the channel shows.
THEOREM RefinesChannel == QueueSafeSpec => Chan!SafeSpec
<1>1. QueueInit => Chan!Init
  BY DEF QueueInit, Chan!Init
<1>2. QueueTypeOK /\ [QueueNext]_queueVars => [Chan!Next]_Chan!chan
  <2> SUFFICES ASSUME QueueTypeOK, [QueueNext]_queueVars PROVE [Chan!Next]_Chan!chan
    OBVIOUS
  <2> USE EventQueueAssumption DEF Chan!Next, Chan!Send, Chan!Deliver, Chan!chan
  <2>1. ASSUME NEW t \in Thread, PushBack(t) PROVE [Chan!Next]_Chan!chan
    <3>1. pushed' \in 1..MaxEvents
      BY <2>1 DEF PushBack, QueueTypeOK
    <3>2. Chan!Send(pushed')
      BY <2>1 DEF PushBack
    <3> QED
      BY <3>1, <3>2
  <2>2. CASE DrainQueue
    <3>1. CASE queue = <<>>
      BY <2>2, <3>1 DEF DrainQueue, QueueTypeOK
    <3>2. CASE queue # <<>>
      BY <2>2, <3>2 DEF DrainQueue
    <3> QED
      BY <3>1, <3>2
  <2>3. ASSUME \/ \E t \in Thread : SwapWoken(t) \/ WriteByte(t)
               \/ Readable \/ ReadBytes \/ ReadNothing \/ ClearWoken
               \/ UNCHANGED queueVars
        PROVE  [Chan!Next]_Chan!chan
    BY <2>3 DEF SwapWoken, WriteByte, Readable, ReadBytes, ReadNothing, ClearWoken, queueVars
  <2> QED
    BY <2>1, <2>2, <2>3 DEF QueueNext, Push, Take
<1> QED
  BY <1>1, <1>2, TypeCorrect, PTL DEF QueueSafeSpec, Chan!SafeSpec

-----------------------------------------------------------------------------
(* WebSocketLink: what a handler hears of its connection.                  *)

EventKind == {"opening", "message", "closed", "writable"}

\* The disconnect is in the connection's queue, on its way to it, taken from it,
\* or of no use any more.
Told ==
  \/ Contains(inbox, "closed") \/ Contains(events, "closed")
  \/ told \/ task[Handler] = "done"

LinkTypes ==
  /\ task \in [Task -> TaskState]
  /\ decision \in {"pending", "accept", "refuse"}
  /\ events \in Seq(EventKind)
  /\ inbox \in Seq({"message", "closed"})
  /\ closed \in BOOLEAN /\ told \in BOOLEAN

\* The opening starts the handler; while it runs, its queue is there.
Opened ==
  /\ (task[Handler] = "off") <=> Contains(events, "opening")
  /\ task[Handler] \in {"off", "done"} \/ registered

\* relay(), and a failed upgrade, tell Python before they go.
EndTold == link \in {"failed", "pushed", "dropped", "over"} => Told

\* Whoever refuses the handshake has closed it, or is done with it.
RefusalKnown ==
  /\ link = "refused" => decision = "refuse"
  /\ decision = "refuse" => task[Handler] = "done" \/ closed

\* A task inside send_data() goes on where it was.
Sender == sending # NoTask => sending \in Task /\ task[sending] = "ready"

LinkInv == LinkTypes /\ Opened /\ EndTold /\ RefusalKnown /\ Sender

\* The place of an event of the batch in the mail.
UpTo(places, i) == Cardinality({j \in places : j <= i})

\* No two places have the same number, and the numbers are 1, 2, ...
LEMMA Numbering ==
  ASSUME NEW n \in Nat, NEW P \in SUBSET (1..n)
  PROVE  /\ Cardinality(P) \in Nat
         /\ \A i \in P : UpTo(P, i) \in 1..Cardinality(P)
         /\ \A i, j \in P : UpTo(P, i) = UpTo(P, j) => i = j
         /\ \A k \in 1..Cardinality(P) : \E i \in P : UpTo(P, i) = k
<1> DEFINE Low(i) == {j \in P : j <= i}
           N == {UpTo(P, i) : i \in P}
<1>1. IsFiniteSet(P) /\ Cardinality(P) \in Nat
  <2>1. 1 \in Int /\ n \in Int
    OBVIOUS
  <2>2. IsFiniteSet(1..n)
    BY <2>1, FS_Interval
  <2>3. IsFiniteSet(P)
    BY <2>2, FS_Subset
  <2> QED
    BY <2>3, FS_CardinalityType
<1>2. ASSUME NEW i \in P
      PROVE  IsFiniteSet(Low(i)) /\ UpTo(P, i) \in 1..Cardinality(P)
  <2>1. Low(i) \in SUBSET P
    OBVIOUS
  <2>2. IsFiniteSet(Low(i)) /\ Cardinality(Low(i)) <= Cardinality(P)
    BY <1>1, <2>1, FS_Subset
  <2>3. Cardinality(Low(i)) \in Nat
    BY <2>2, FS_CardinalityType
  <2>4. Low(i) # {}
    OBVIOUS
  <2>5. Cardinality(Low(i)) # 0
    BY <2>2, <2>4, FS_EmptySet
  <2> QED
    BY <1>1, <2>2, <2>3, <2>5 DEF UpTo
<1>3. ASSUME NEW i \in P, NEW j \in P, UpTo(P, i) = UpTo(P, j), i < j PROVE FALSE
  <2>1. Low(i) \in SUBSET Low(j)
    <3>1. \A l \in P : l <= i => l <= j
      BY <1>3
    <3> QED
      BY <3>1
  <2>2. Low(i) = Low(j)
    BY <1>2, <1>3, <2>1, FS_Subset DEF UpTo
  <2>3. j \in Low(j) /\ j \notin Low(i)
    BY <1>3
  <2> QED
    BY <2>2, <2>3
<1>4. ASSUME NEW i \in P, NEW j \in P, UpTo(P, i) = UpTo(P, j) PROVE i = j
  <2>1. i \in Nat /\ j \in Nat
    OBVIOUS
  <2>2. CASE i < j
    BY <1>3, <1>4, <2>2
  <2>3. CASE j < i
    BY <1>3, <1>4, <2>3
  <2> QED
    BY <2>1, <2>2, <2>3
<1>5. N = 1..Cardinality(P)
  <2>1. N \in SUBSET (1..Cardinality(P))
    BY <1>2
  <2>2. IsFiniteSet(1..Cardinality(P)) /\ Cardinality(1..Cardinality(P)) = Cardinality(P)
    BY <1>1, FS_Interval
  <2>3. ExistsBijection(P, N)
    <3> DEFINE f == [i \in P |-> UpTo(P, i)]
    <3>1. f \in Bijection(P, N)
      BY <1>4 DEF Bijection, Injection, Surjection, IsInjective
    <3> QED
      BY <3>1 DEF ExistsBijection
  <2>4. IsFiniteSet(N) /\ Cardinality(N) = Cardinality(P)
    BY <1>1, <2>3, FS_Bijection
  <2> QED
    BY <2>1, <2>2, <2>4, FS_Subset
<1> QED
  BY <1>1, <1>2, <1>4, <1>5

\* The mail is a sequence of messages and closings, with a closing when the
\* batch has one.
LEMMA MailSound ==
  ASSUME NEW batch \in Seq(EventKind)
  PROVE  /\ Mail(batch) \in Seq({"message", "closed"})
         /\ Contains(batch, "closed") => Contains(Mail(batch), "closed")
<1> DEFINE P == {i \in DOMAIN batch : batch[i] \in {"message", "closed"}}
           n == Cardinality(P)
<1>1. P \in SUBSET (1..Len(batch)) /\ Len(batch) \in Nat
  OBVIOUS
<1>2. /\ n \in Nat
      /\ \A i \in P : UpTo(P, i) \in 1..n
      /\ \A i, j \in P : UpTo(P, i) = UpTo(P, j) => i = j
      /\ \A k \in 1..n : \E i \in P : UpTo(P, i) = k
  BY <1>1, Numbering
<1>3. Mail(batch) = [k \in 1..n |-> batch[CHOOSE i \in P : UpTo(P, i) = k]]
  BY DEF Mail, UpTo
<1> HIDE DEF n
<1>4. \A k \in 1..n : batch[CHOOSE i \in P : UpTo(P, i) = k] \in {"message", "closed"}
  <2> TAKE k \in 1..n
  <2>1. (CHOOSE i \in P : UpTo(P, i) = k) \in P
    BY <1>2
  <2> QED
    BY <2>1
<1>5. Mail(batch) \in Seq({"message", "closed"}) /\ Len(Mail(batch)) = n
  <2>1. Mail(batch) \in [1..n -> {"message", "closed"}]
    BY <1>3, <1>4
  <2> QED
    BY <1>2, <2>1
<1>6. ASSUME NEW i \in 1..Len(batch), batch[i] = "closed"
      PROVE  Mail(batch)[UpTo(P, i)] = "closed" /\ UpTo(P, i) \in 1..n
  <2>1. i \in P
    BY <1>6
  <2>2. (CHOOSE j \in P : UpTo(P, j) = UpTo(P, i)) = i
    BY <1>2, <2>1
  <2> QED
    BY <1>2, <1>3, <1>6, <2>1, <2>2
<1> QED
  BY <1>5, <1>6 DEF Contains

\* What an append puts into a sequence of events, and leaves in it.
LEMMA Appended ==
  ASSUME NEW S, NEW s \in Seq(S), NEW e \in S
  PROVE  /\ Append(s, e) \in Seq(S) /\ Contains(Append(s, e), e)
         /\ \A x : Contains(s, x) => Contains(Append(s, e), x)
         /\ \A x : x # e /\ Contains(Append(s, e), x) => Contains(s, x)
BY DEF Contains

\* A link begins with the opening event alone in the queue, and no task on.
LEMMA InitLink ==
  ASSUME Init
  PROVE  LinkInv
<1>1. LinkTypes
  <2>1. task \in [Task -> TaskState]
    BY DEF Init, TaskState
  <2>2. events \in Seq(EventKind) /\ inbox \in Seq({"message", "closed"})
    BY DEF Init, EventKind
  <2>3. decision \in {"pending", "accept", "refuse"} /\ closed \in BOOLEAN /\ told \in BOOLEAN
    BY DEF Init
  <2> QED
    BY <2>1, <2>2, <2>3 DEF LinkTypes
<1>2. Opened
  <2>1. Len(events) = 1 /\ events[1] = "opening" /\ task[Handler] = "off"
    BY WebSocketLinkAssumption DEF Init
  <2> QED
    BY <2>1 DEF Opened, Contains
<1> QED
  BY <1>1, <1>2, WebSocketLinkAssumption
  DEF Init, LinkInv, EndTold, RefusalKnown, Sender

\* The loop hands the batch over: what was told is in the connection's queue,
\* which is there by then.
LEMMA TakeLink ==
  ASSUME LinkInv, TakeEvents
  PROVE  LinkInv'
<1> DEFINE opens == Contains(events, "opening")
           mail == Mail(events)
<1>1. /\ events' = <<>> /\ sending = NoTask /\ sending' = NoTask
      /\ link' = link /\ decision' = decision /\ closed' = closed /\ told' = told
      /\ registered' = (registered \/ opens)
      /\ inbox' = IF registered \/ opens THEN inbox \o mail ELSE inbox
      /\ task' = IF opens THEN [t \in Task |-> "ready"] ELSE task
  BY DEF TakeEvents, LoopFree, rustVars, connVars, asgiVars
<1>2. /\ mail \in Seq({"message", "closed"})
      /\ Contains(events, "closed") => Contains(mail, "closed")
  BY MailSound DEF LinkInv, LinkTypes
<1> HIDE DEF mail, opens
<1>3. Handler \in Task
  BY WebSocketLinkAssumption
<1>4. /\ opens <=> task[Handler] = "off"
      /\ task'[Handler] = IF opens THEN "ready" ELSE task[Handler]
  BY <1>1, <1>3 DEF LinkInv, LinkTypes, Opened, opens
<1>5. LinkTypes'
  BY <1>1, <1>2, <1>3 DEF LinkInv, LinkTypes, TaskState
<1>6. Opened'
  <2>1. ~Contains(events', "opening")
    BY <1>1 DEF Contains
  <2>2. task'[Handler] # "off"
    BY <1>4
  <2> QED
    BY <1>1, <1>4, <2>1, <2>2 DEF LinkInv, Opened
<1>7. ASSUME Told PROVE Told'
  <2>1. CASE told \/ task[Handler] = "done"
    BY <1>1, <1>4, <2>1 DEF Told
  <2>2. CASE ~told /\ task[Handler] # "done"
    <3>1. inbox' = inbox \o mail
      BY <1>1, <1>4, <2>2 DEF LinkInv, Opened
    <3>2. inbox \in Seq({"message", "closed"})
      BY DEF LinkInv, LinkTypes
    <3>3. ASSUME NEW i \in 1..Len(inbox), inbox[i] = "closed"
          PROVE  Contains(inbox', "closed")
      BY <1>2, <3>1, <3>2, <3>3 DEF Contains
    <3>4. ASSUME NEW i \in 1..Len(mail), mail[i] = "closed"
          PROVE  Contains(inbox', "closed")
      <4>1. /\ Len(inbox') = Len(inbox) + Len(mail)
            /\ inbox'[Len(inbox) + i] = mail[i]
        BY <1>2, <3>1, <3>2
      <4>2. Len(inbox) + i \in 1..Len(inbox')
        BY <1>2, <3>2, <4>1
      <4> QED
        BY <3>4, <4>1, <4>2 DEF Contains
    <3> QED
      BY <1>2, <1>7, <2>2, <3>3, <3>4 DEF Told, Contains
  <2> QED
    BY <2>1, <2>2
<1>8. EndTold'
  BY <1>1, <1>7 DEF LinkInv, EndTold
<1>9. RefusalKnown'
  BY <1>1, <1>4 DEF LinkInv, RefusalKnown
<1> QED
  BY <1>1, <1>5, <1>6, <1>8, <1>9 DEF LinkInv, Sender

\* Taking a message out of the queue leaves the rest, and records a disconnect.
LEMMA MailTaken ==
  ASSUME LinkTypes, TakeMail
  PROVE  /\ inbox' \in Seq({"message", "closed"}) /\ told' \in BOOLEAN
         /\ told => told'
         /\ Contains(inbox, "closed") => told' \/ Contains(inbox', "closed")
<1>1. /\ inbox # <<>> /\ inbox' = Tail(inbox) /\ told' = (told \/ Head(inbox) = "closed")
      /\ inbox \in Seq({"message", "closed"}) /\ told \in BOOLEAN
  BY DEF TakeMail, LinkTypes
<1>2. ASSUME NEW i \in 1..Len(inbox), inbox[i] = "closed", Head(inbox) # "closed"
      PROVE  Contains(inbox', "closed")
  <2>1. i # 1
    BY <1>2
  <2>2. i - 1 \in 1..Len(inbox') /\ inbox'[i - 1] = "closed"
    BY <1>1, <1>2, <2>1
  <2> QED
    BY <2>2 DEF Contains
<1>3. inbox' \in Seq({"message", "closed"})
  BY <1>1
<1> QED
  BY <1>1, <1>2, <1>3 DEF Contains

\* A step of Rust or of the client: it may push an event, and goes to an end
\* only with a closing pushed, now or before.
LEMMA RustSide ==
  ASSUME LinkInv, UNCHANGED <<task, closed, told, decision, registered, inbox, sending>>,
         \/ events' = events
         \/ \E e \in EventKind \ {"opening"} : events' = Append(events, e),
         link' = "refused" => link = "refused" \/ decision = "refuse",
         link' \in {"failed", "pushed", "dropped", "over"} =>
           \/ link \in {"failed", "pushed", "dropped", "over"}
           \/ events' = Append(events, "closed")
  PROVE  LinkInv'
<1>1. events \in Seq(EventKind)
  BY DEF LinkInv, LinkTypes
<1>2. /\ events' \in Seq(EventKind)
      /\ Contains(events', "opening") <=> Contains(events, "opening")
      /\ Contains(events, "closed") => Contains(events', "closed")
      /\ events' = Append(events, "closed") => Contains(events', "closed")
  <2>1. CASE events' = events
    <3>1. events' # Append(events, "closed")
      BY <1>1, <2>1
    <3> QED
      BY <1>1, <2>1, <3>1
  <2>2. ASSUME NEW e \in EventKind \ {"opening"}, events' = Append(events, e)
        PROVE  /\ events' \in Seq(EventKind)
               /\ Contains(events', "opening") <=> Contains(events, "opening")
               /\ Contains(events, "closed") => Contains(events', "closed")
    BY <1>1, <2>2, Appended
  <2>3. ASSUME events' = Append(events, "closed") PROVE Contains(events', "closed")
    <3>1. "closed" \in EventKind
      BY DEF EventKind
    <3> QED
      BY <1>1, <2>3, <3>1, Appended
  <2> QED
    BY <2>1, <2>2, <2>3
<1>3. LinkTypes' /\ Opened' /\ RefusalKnown' /\ Sender'
  BY <1>2 DEF LinkInv, LinkTypes, Opened, RefusalKnown, Sender
<1>4. EndTold'
  BY <1>2 DEF LinkInv, EndTold, Told
<1> QED
  BY <1>3, <1>4 DEF LinkInv

\* A step of Python but for taking events: what it takes out of the handler's
\* queue is recorded, and a handler that is done stays so.
LEMMA PythonSide ==
  ASSUME LinkInv, UNCHANGED <<link, events>>,
         TakeMail \/ UNCHANGED <<inbox, told>>,
         task' \in [Task -> TaskState],
         decision' \in {"pending", "accept", "refuse"}, closed' \in BOOLEAN,
         Opened', RefusalKnown', Sender',
         task[Handler] = "done" => task'[Handler] = "done"
  PROVE  LinkInv'
<1>1. /\ inbox' \in Seq({"message", "closed"}) /\ told' \in BOOLEAN
      /\ told => told'
      /\ Contains(inbox, "closed") => told' \/ Contains(inbox', "closed")
  BY MailTaken DEF LinkInv, LinkTypes
<1>2. LinkTypes'
  BY <1>1 DEF LinkInv, LinkTypes
<1>3. EndTold'
  BY <1>1 DEF LinkInv, EndTold, Told
<1> QED
  BY <1>2, <1>3 DEF LinkInv

\* Every step of the loop's thread keeps the invariant.
LEMMA PythonLink ==
  ASSUME LinkInv, Python
  PROVE  LinkInv'
<1> USE DEF rustVars, connVars, loopVars, asgiVars, pyVars, LoopFree
<1>0. /\ Handler \in Task /\ task \in [Task -> TaskState]
      /\ decision \in {"pending", "accept", "refuse"} /\ closed \in BOOLEAN
      /\ {"ready", "receiving", "suspended", "accepting", "closing", "ending", "leaving", "done"} \subseteq TaskState
  BY WebSocketLinkAssumption DEF LinkInv, LinkTypes, TaskState
<1>1. ASSUME NEW t \in Task, SendAdd(t) PROVE LinkInv'
  <2>1. CASE t = Handler
    BY <1>0, <1>1, <2>1, PythonSide DEF SendAdd, LinkInv, LinkTypes, Opened, RefusalKnown, Sender
  <2>2. CASE t # Handler
    BY <1>0, <1>1, <2>2, PythonSide DEF SendAdd, LinkInv, LinkTypes, Opened, RefusalKnown, Sender
  <2> QED
    BY <2>1, <2>2
<1>2. ASSUME NEW t \in Task, Resume(t) PROVE LinkInv'
  <2>1. CASE t = Handler
    BY <1>0, <1>2, <2>1, PythonSide DEF Resume, LinkInv, LinkTypes, Opened, RefusalKnown, Sender
  <2>2. CASE t # Handler
    BY <1>0, <1>2, <2>2, PythonSide DEF Resume, LinkInv, LinkTypes, Opened, RefusalKnown, Sender
  <2> QED
    BY <2>1, <2>2
<1>3. ASSUME NEW t \in Task, Accept(t) PROVE LinkInv'
  <2>1. CASE t = Handler
    BY <1>0, <1>3, <2>1, PythonSide DEF Accept, Connected, ConnectionAccept, LinkInv, LinkTypes, Opened, RefusalKnown, Sender
  <2>2. CASE t # Handler
    BY <1>0, <1>3, <2>2, PythonSide DEF Accept, Connected, ConnectionAccept, LinkInv, LinkTypes, Opened, RefusalKnown, Sender
  <2> QED
    BY <2>1, <2>2
<1>4. ASSUME NEW t \in Task, AcceptWaits(t) PROVE LinkInv'
  <2>1. CASE t = Handler
    BY <1>0, <1>4, <2>1, PythonSide DEF AcceptWaits, WaitsToConnect, LinkInv, LinkTypes, Opened, RefusalKnown, Sender
  <2>2. CASE t # Handler
    BY <1>0, <1>4, <2>2, PythonSide DEF AcceptWaits, WaitsToConnect, LinkInv, LinkTypes, Opened, RefusalKnown, Sender
  <2> QED
    BY <2>1, <2>2
<1>5. ASSUME NEW t \in Task, AcceptResumes(t) PROVE LinkInv'
  <2>1. CASE t = Handler
    BY <1>0, <1>5, <2>1, PythonSide DEF AcceptResumes, ConnectionAccept, LinkInv, LinkTypes, Opened, RefusalKnown, Sender
  <2>2. CASE t # Handler
    BY <1>0, <1>5, <2>2, PythonSide DEF AcceptResumes, ConnectionAccept, LinkInv, LinkTypes, Opened, RefusalKnown, Sender
  <2> QED
    BY <2>1, <2>2
<1>6. ASSUME NEW t \in Task, Close(t) PROVE LinkInv'
  <2>1. CASE t = Handler
    BY <1>0, <1>6, <2>1, PythonSide DEF Close, Connected, ConnectionClose, LinkInv, LinkTypes, Opened, RefusalKnown, Sender
  <2>2. CASE t # Handler
    BY <1>0, <1>6, <2>2, PythonSide DEF Close, Connected, ConnectionClose, LinkInv, LinkTypes, Opened, RefusalKnown, Sender
  <2> QED
    BY <2>1, <2>2
<1>7. ASSUME NEW t \in Task, CloseWaits(t) PROVE LinkInv'
  <2>1. CASE t = Handler
    BY <1>0, <1>7, <2>1, PythonSide DEF CloseWaits, WaitsToConnect, LinkInv, LinkTypes, Opened, RefusalKnown, Sender
  <2>2. CASE t # Handler
    BY <1>0, <1>7, <2>2, PythonSide DEF CloseWaits, WaitsToConnect, LinkInv, LinkTypes, Opened, RefusalKnown, Sender
  <2> QED
    BY <2>1, <2>2
<1>8. ASSUME NEW t \in Task, CloseResumes(t) PROVE LinkInv'
  <2>1. CASE t = Handler
    BY <1>0, <1>8, <2>1, PythonSide DEF CloseResumes, ConnectionClose, LinkInv, LinkTypes, Opened, RefusalKnown, Sender
  <2>2. CASE t # Handler
    BY <1>0, <1>8, <2>2, PythonSide DEF CloseResumes, ConnectionClose, LinkInv, LinkTypes, Opened, RefusalKnown, Sender
  <2> QED
    BY <2>1, <2>2
<1>9. CASE TakeEvents
  BY <1>9, TakeLink
<1>10. CASE SendPut
  <2>1. /\ sending \in Task /\ task[sending] = "ready"
        /\ sending' = NoTask
        /\ task' = task \/ task' = [task EXCEPT ![sending] = "suspended"]
        /\ UNCHANGED <<link, events, inbox, told, registered, decision, closed>>
    BY <1>10 DEF SendPut, LinkInv, Sender
  <2>2. /\ task' \in [Task -> TaskState]
        /\ task'[Handler] = task[Handler] \/
             (task[Handler] = "ready" /\ task'[Handler] = "suspended")
    BY <1>0, <2>1
  <2>3. Opened' /\ RefusalKnown' /\ Sender'
    BY <2>1, <2>2 DEF LinkInv, Opened, RefusalKnown, Sender
  <2> QED
    BY <1>0, <2>1, <2>2, <2>3, PythonSide
<1>11. CASE ReceiveConnect
  BY <1>0, <1>11, PythonSide DEF ReceiveConnect, LinkInv, LinkTypes, Opened, RefusalKnown, Sender
<1>12. CASE Receive
  BY <1>0, <1>12, PythonSide DEF Receive, LinkInv, LinkTypes, Opened, RefusalKnown, Sender
<1>13. CASE GetMessage
  BY <1>0, <1>13, PythonSide DEF GetMessage, LinkInv, LinkTypes, Opened, RefusalKnown, Sender
<1>14. CASE HandlerReturns
  BY <1>0, <1>14, PythonSide DEF HandlerReturns, LinkInv, LinkTypes, Opened, RefusalKnown, Sender
<1>15. CASE HandlerEnds
  BY <1>0, <1>15, PythonSide DEF HandlerEnds, ConnectionFinish, ConnectionClose, Connected, LinkInv, LinkTypes, Opened, RefusalKnown, Sender
<1>16. CASE HandlerEndWaits
  BY <1>0, <1>16, PythonSide DEF HandlerEndWaits, WaitsToConnect, LinkInv, LinkTypes, Opened, RefusalKnown, Sender
<1>17. CASE HandlerEndResumes
  BY <1>0, <1>17, PythonSide DEF HandlerEndResumes, ConnectionClose, LinkInv, LinkTypes, Opened, RefusalKnown, Sender
<1>18. CASE HandlerCancelled
  BY <1>0, <1>18, PythonSide DEF HandlerCancelled, ConnectionFinish, LinkInv, LinkTypes, Opened, RefusalKnown, Sender
<1>19. CASE Unregister
  BY <1>0, <1>19, PythonSide DEF Unregister, LinkInv, LinkTypes, Opened, RefusalKnown, Sender
<1> QED
  BY <1>1, <1>2, <1>3, <1>4, <1>5, <1>6, <1>7, <1>8, <1>9, <1>10, <1>11, <1>12,
     <1>13, <1>14, <1>15, <1>16, <1>17, <1>18, <1>19
  DEF Python

\* Every step of the Rust task keeps the invariant.
LEMMA RustLink ==
  ASSUME LinkInv, Rust
  PROVE  LinkInv'
<1> USE DEF rustVars, connVars, loopVars, asgiVars, pyVars, EventKind
<1>1. CASE Decided
  BY <1>1, RustSide DEF Decided, LinkInv, LinkTypes, RefusalKnown
<1>2. CASE HandshakeDropped
  BY <1>2, RustSide DEF HandshakeDropped
<1>3. CASE Upgraded
  BY <1>3, RustSide DEF Upgraded
<1>4. CASE UpgradeFails
  BY <1>4, RustSide DEF UpgradeFails
<1>5. CASE RelayReceives
  BY <1>5, RustSide DEF RelayReceives
<1>6. CASE RelayHearsPong
  BY <1>6, RustSide DEF RelayHearsPong
<1>7. CASE RelayHearsClose
  BY <1>7, RustSide DEF RelayHearsClose, PushClosed
<1>8. CASE RelayTakes
  BY <1>8, RustSide DEF RelayTakes
<1>9. CASE RelaySenderGone
  BY <1>9, RustSide DEF RelaySenderGone
<1>10. CASE PingTick
  BY <1>10, RustSide DEF PingTick
<1>11. CASE RelayShutdown
  BY <1>11, RustSide DEF RelayShutdown
<1>12. CASE WriteDone
  BY <1>12, RustSide DEF WriteDone, Wake
<1>13. CASE WriteFails
  BY <1>13, RustSide DEF WriteFails, PushClosed
<1>14. CASE CloseSent
  BY <1>14, RustSide DEF CloseSent, PushClosed
<1>15. CASE ReceiverDropped
  BY <1>15, RustSide DEF ReceiverDropped
<1>16. CASE FinalWake
  BY <1>16, RustSide DEF FinalWake, Wake
<1> QED
  BY <1>1, <1>2, <1>3, <1>4, <1>5, <1>6, <1>7, <1>8, <1>9, <1>10, <1>11, <1>12,
     <1>13, <1>14, <1>15, <1>16
  DEF Rust

\* A client that leaves or falls silent, the server's stop, and a stutter
\* change nothing the invariant looks at.
LEMMA OtherLink ==
  ASSUME LinkInv, Environment \/ UNCHANGED vars
  PROVE  LinkInv'
<1>1. UNCHANGED <<link, task, closed, told, decision, registered, inbox, events, sending>>
  BY DEF Environment, ClientLeaves, ClientGoesSilent, BuffersFill,
         ServerStops, vars, rustVars, connVars, loopVars, asgiVars, pyVars
<1> QED
  BY <1>1, RustSide

\* A handler that waits in receive() for a connection that is over finds its
\* disconnect in its queue or on its way there, whatever the tasks, the client
\* and the server's stop did, and in whatever order, unless handshake() was
\* dropped with its client, the app refused the connection itself, or the
\* disconnect was taken before.
THEOREM Disconnects == SafeSpec => []DisconnectTold
<1>1. Init => LinkInv
  BY InitLink
<1>2. LinkInv /\ [Next]_vars => LinkInv'
  BY PythonLink, RustLink, OtherLink DEF Next
<1>3. LinkInv => DisconnectTold
  BY DEF LinkInv, EndTold, Told, RefusalKnown, DisconnectTold, Ended
<1> QED
  BY <1>1, <1>2, <1>3, PTL DEF SafeSpec
=============================================================================
