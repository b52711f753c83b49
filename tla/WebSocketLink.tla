---------------------------- MODULE WebSocketLink ----------------------------
(***************************************************************************)
(* One WebSocket of the built-in server, from its handshake to its end.    *)
(*                                                                         *)
(*   src/src/websocket.rs  WsConnection, handshake() and relay()           *)
(*   src/korvex/_serve.py  _serve_websocket, writable(), and the WebSocket *)
(*                         branches of take_requests()                     *)
(*   src/korvex/_requests.py  WebSocket.accept, receive, send_*, close     *)
(*                                                                         *)
(* A Rust task talks to the client.  On the loop's thread, the handler's   *)
(* task and any task it started use the same WebSocket; only the handler   *)
(* receives, and any of them accepts, sends and closes.  They meet in a    *)
(* oneshot (the decision), a channel of outgoing messages, a backlog and   *)
(* the event queue, here the channel EventChannel specifies: all that is   *)
(* queued arrives in one batch.                                            *)
(*                                                                         *)
(* Every outgoing message has size 1.  Backlog.add and Backlog.taken are   *)
(* one step each here; StreamFlow takes them apart.                        *)
(***************************************************************************)
EXTENDS Naturals, Sequences, FiniteSets, SequencesExt

CONSTANTS Task,         \* the Python tasks that use this WebSocket
          Handler,      \* the one that runs the handler
          NoTask,
          HighWater, LowWater,
          MaxSends,     \* bound on the messages Python sends
          MaxReceived,  \* bound on the messages the client sends
          Faults        \* what the client may do, out of FaultKind

FaultKind == {"leave_early",    \* go before the app has decided
              "leave_upgrade",  \* go while the 101 is on its way
              "leave",          \* go later
              "silence",        \* stop reading and sending, and stay connected
              "full"}           \* ... until nothing more fits in the buffers

ASSUME WebSocketLinkAssumption ==
  /\ Handler \in Task /\ NoTask \notin Task
  /\ HighWater \in Nat /\ LowWater \in Nat /\ LowWater <= HighWater
  /\ MaxSends \in Nat /\ MaxReceived \in Nat
  /\ Faults \subseteq FaultKind

VARIABLES link,        \* where the Rust task is
          client,      \* "reading", "silent", "stuck" or "left"
          writing,     \* what relay() is writing, "data" or "ping"; "data" if nothing
          heard,       \* relay()'s `heard`
          shutdown,    \* the watch channel says the server stops
          received,    \* messages the client has sent
          decision,    \* "pending", then "accept" or "refuse"
          outgoing,    \* WsConnection.outgoing still holds the sending half
          out,         \* the mpsc channel: "data" and "close" messages
          backlog,     \* Backlog.bytes
          flag,        \* Backlog.waiting
          events,      \* the server's queue, this connection's part
          registered,  \* websockets has the connection
          inbox,       \* websockets[id], its asyncio.Queue
          task,        \* where each Python task is
          sending,     \* the task inside send_data(), if any
          verdict,     \* what Backlog.add() returned to it, while it is there
          future,      \* the future each task awaits in writable()
          slot,        \* waiting[id]: whose future it is
          closed,      \* WebSocket._closed
          sends,       \* messages Python has sent
          connect,     \* the connect message that starts ASGI: "due", "taken" by
                       \* a receive(), or "known" to WebSocket._connected
          told         \* the disconnect was taken out of the inbox

rustVars == <<link, client, writing, heard, shutdown, received>>
connVars == <<decision, outgoing, out, backlog, flag>>
loopVars == <<events, registered, inbox>>
asgiVars == <<connect, told>>
pyVars == <<task, sending, verdict, future, slot, closed, sends, asgiVars>>
vars == <<rustVars, connVars, loopVars, pyVars>>

LinkState == {"opening", "gone", "refused", "upgrading", "failed", "relaying",
              "writing", "closing", "pushed", "dropped", "over"}
TaskState == {"off", "ready", "receiving", "suspended", "accepting", "closing", "ending", "leaving", "done"}

\* The Rust side has let go of the connection for good.
Ended == {"gone", "refused", "failed", "over"}

\* The receiving half of the channel of outgoing messages exists.
ReceiverOpen == link \notin {"gone", "refused", "failed", "dropped", "over"}

\* handshake() has pushed the opening event and awaits the decision.
Init ==
  /\ link = "opening" /\ client = "reading" /\ writing = "data"
  /\ heard = TRUE /\ shutdown = FALSE /\ received = 0
  /\ decision = "pending" /\ outgoing = TRUE /\ out = <<>>
  /\ backlog = 0 /\ flag = FALSE
  /\ events = <<"opening">> /\ registered = FALSE /\ inbox = <<>>
  /\ task = [t \in Task |-> "off"] /\ sending = NoTask /\ verdict = "SENT"
  /\ future = [t \in Task |-> "none"] /\ slot = NoTask
  /\ closed = FALSE /\ sends = 0
  /\ connect = "due" /\ told = FALSE

-----------------------------------------------------------------------------
(* Python: no task runs while another one is inside a call into Rust.      *)

LoopFree == sending = NoTask

\* What goes to the connection's queue out of a batch of events, in its order
Mail(batch) ==
  LET places == {i \in DOMAIN batch : batch[i] \in {"message", "closed"}}
      UpTo(i) == Cardinality({j \in places : j <= i})
  IN [k \in 1..Cardinality(places) |-> batch[CHOOSE i \in places : UpTo(i) = k]]

\* take_requests(): the opening starts the handler's task, which may start the
\* others at once or later: "ready" stands for both.  Messages go to the
\* connection's queue while it has one; Writable wakes the future on record.
TakeEvents ==
  /\ LoopFree
  /\ events # <<>>
  /\ events' = <<>>
  /\ LET opens == Contains(events, "opening")
         known == registered \/ opens
     IN /\ registered' = known
        /\ inbox' = IF known THEN inbox \o Mail(events) ELSE inbox
        /\ task' = IF opens THEN [t \in Task |-> "ready"] ELSE task
        /\ future' = IF /\ Contains(events, "writable")
                        /\ slot # NoTask
                        /\ future[slot] = "pending"
                     THEN [future EXCEPT ![slot] = "done"]
                     ELSE future
  /\ UNCHANGED <<rustVars, connVars, sending, verdict, slot, closed, sends, asgiVars>>

\* WebSocket._wait_connect(), for accept() and close(): the connect message is
\* waited for once, and comes at once unless a receive() took it.
Connected == connect # "taken" /\ connect' = "known" /\ UNCHANGED told

\* ... then the wait is for another message of the queue, which has no other
\* connect message.
WaitsToConnect(t, where) ==
  /\ connect = "taken" /\ connect' = "known" /\ UNCHANGED told
  /\ task' = [task EXCEPT ![t] = where]

\* incoming.get(): the next message, whoever awaits one
TakeMail ==
  /\ inbox # <<>>
  /\ inbox' = Tail(inbox)
  /\ told' = (told \/ Head(inbox) = "closed")

\* connection.accept() decides, once; whether the handshake still waits for it
\* is not looked at.
ConnectionAccept == decision' = IF decision = "pending" THEN "accept" ELSE decision

\* ws.accept(), by any task
Accept(t) ==
  /\ LoopFree
  /\ task[t] = "ready"
  /\ Connected
  /\ ConnectionAccept
  /\ UNCHANGED <<rustVars, outgoing, out, backlog, flag, loopVars, task, sending, verdict, future, slot, closed, sends>>

AcceptWaits(t) ==
  /\ LoopFree
  /\ task[t] = "ready"
  /\ WaitsToConnect(t, "accepting")
  /\ UNCHANGED <<rustVars, connVars, loopVars, sending, verdict, future, slot, closed, sends>>

AcceptResumes(t) ==
  /\ LoopFree
  /\ task[t] = "accepting"
  /\ TakeMail
  /\ ConnectionAccept
  /\ task' = [task EXCEPT ![t] = "ready"]
  /\ UNCHANGED <<rustVars, outgoing, out, backlog, flag, events, registered, sending, verdict, future, slot, closed, sends, connect>>

\* ws.send_*(): send_data() counts the message in the backlog ...
SendAdd(t) ==
  /\ LoopFree
  /\ task[t] = "ready"
  /\ sends < MaxSends
  /\ sends' = sends + 1
  /\ backlog' = backlog + 1
  /\ verdict' = IF backlog + 1 > HighWater THEN "WAIT" ELSE "SENT"
  /\ flag' = (flag \/ backlog + 1 > HighWater)
  /\ sending' = t
  /\ UNCHANGED <<rustVars, decision, outgoing, out, loopVars, task, future, slot, closed, asgiVars>>

\* ... then queues it.  WAIT makes the task await writable(id), which puts a
\* new future at waiting[id]; GONE is not looked at.
SendPut ==
  LET t == sending
      sent == outgoing /\ ReceiverOpen
      waits == sent /\ verdict = "WAIT"
  IN /\ sending # NoTask
     /\ sending' = NoTask
     /\ out' = IF sent THEN Append(out, "data") ELSE out
     /\ task' = IF waits THEN [task EXCEPT ![t] = "suspended"] ELSE task
     /\ future' = IF waits THEN [future EXCEPT ![t] = "pending"] ELSE future
     /\ slot' = IF waits THEN t ELSE slot
     /\ verdict' = "SENT"
     /\ UNCHANGED <<rustVars, decision, outgoing, backlog, flag, loopVars, closed, sends, asgiVars>>

\* The future is done: writable()'s finally takes waiting[id] out, whoever's
\* future is there.
Resume(t) ==
  /\ LoopFree
  /\ task[t] = "suspended" /\ future[t] = "done"
  /\ task' = [task EXCEPT ![t] = "ready"]
  /\ future' = [future EXCEPT ![t] = "none"]
  /\ slot' = NoTask
  /\ UNCHANGED <<rustVars, connVars, loopVars, sending, verdict, closed, sends, asgiVars>>

\* ws.receive(): the first one, if nothing waited for it before, has the
\* connect message at once, and returns an empty one ...
ReceiveConnect ==
  /\ LoopFree
  /\ task[Handler] = "ready" /\ connect = "due"
  /\ connect' = "taken"
  /\ UNCHANGED <<rustVars, connVars, loopVars, task, sending, verdict, future, slot, closed, sends, told>>

\* ... the others await the connection's queue ...
Receive ==
  /\ LoopFree
  /\ task[Handler] = "ready" /\ connect # "due"
  /\ task' = [task EXCEPT ![Handler] = "receiving"]
  /\ UNCHANGED <<rustVars, connVars, loopVars, sending, verdict, future, slot, closed, sends, asgiVars>>

\* ... for a message, or the disconnect, which the handler may catch.
GetMessage ==
  /\ LoopFree
  /\ task[Handler] = "receiving"
  /\ TakeMail
  /\ closed' = (closed \/ Head(inbox) = "closed")
  /\ task' = [task EXCEPT ![Handler] = "ready"]
  /\ UNCHANGED <<rustVars, connVars, events, registered, sending, verdict, future, slot, sends, connect>>

\* connection.close(): a refusal if nothing was decided, else a Close message;
\* either way the sending half goes.
ConnectionClose ==
  /\ decision' = IF decision = "pending" THEN "refuse" ELSE decision
  /\ out' = IF decision # "pending" /\ outgoing /\ ReceiverOpen
            THEN Append(out, "close") ELSE out
  /\ outgoing' = FALSE

\* ws.close(), by any task
Close(t) ==
  /\ LoopFree
  /\ task[t] = "ready" /\ ~closed
  /\ Connected
  /\ ConnectionClose
  /\ closed' = TRUE
  /\ UNCHANGED <<rustVars, backlog, flag, loopVars, task, sending, verdict, future, slot, sends>>

CloseWaits(t) ==
  /\ LoopFree
  /\ task[t] = "ready" /\ ~closed
  /\ WaitsToConnect(t, "closing")
  /\ UNCHANGED <<rustVars, connVars, loopVars, sending, verdict, future, slot, closed, sends>>

CloseResumes(t) ==
  /\ LoopFree
  /\ task[t] = "closing"
  /\ TakeMail
  /\ ConnectionClose
  /\ closed' = TRUE
  /\ task' = [task EXCEPT ![t] = "ready"]
  /\ UNCHANGED <<rustVars, backlog, flag, events, registered, sending, verdict, future, slot, sends, connect>>

\* The handler returns, or raises.
HandlerReturns ==
  /\ LoopFree
  /\ task[Handler] = "ready"
  /\ task' = [task EXCEPT ![Handler] = "ending"]
  /\ UNCHANGED <<rustVars, connVars, loopVars, sending, verdict, future, slot, closed, sends, asgiVars>>

\* Mutant of HandlerEnds: an answered connection is left as it is.
HandlerEndsOpen ==
  /\ LoopFree
  /\ task[Handler] = "ending" /\ (closed \/ connect # "taken")
  /\ decision' = IF decision = "pending" THEN "refuse" ELSE decision
  /\ task' = [task EXCEPT ![Handler] = "done"]
  /\ UNCHANGED <<rustVars, outgoing, out, backlog, flag, loopVars, sending, verdict, future, slot, closed, sends, asgiVars>>

\* connection.finish() decides, if nothing was, and drops the sending half.
ConnectionFinish ==
  /\ decision' = IF decision = "pending" THEN "refuse" ELSE decision
  /\ outgoing' = FALSE
  /\ out' = out

\* _websocket() closes what the handler left open; then finish(), which has
\* nothing left to do after a close().
HandlerEnds ==
  /\ LoopFree
  /\ task[Handler] = "ending"
  /\ IF closed THEN ConnectionFinish /\ UNCHANGED asgiVars ELSE Connected /\ ConnectionClose
  /\ closed' = TRUE
  /\ task' = [task EXCEPT ![Handler] = "done"]
  /\ UNCHANGED <<rustVars, backlog, flag, loopVars, sending, verdict, future, slot, sends>>

HandlerEndWaits ==
  /\ LoopFree
  /\ task[Handler] = "ending" /\ ~closed
  /\ WaitsToConnect(Handler, "leaving")
  /\ UNCHANGED <<rustVars, connVars, loopVars, sending, verdict, future, slot, closed, sends>>

HandlerEndResumes ==
  /\ LoopFree
  /\ task[Handler] = "leaving"
  /\ TakeMail
  /\ ConnectionClose
  /\ closed' = TRUE
  /\ task' = [task EXCEPT ![Handler] = "done"]
  /\ UNCHANGED <<rustVars, backlog, flag, events, registered, sending, verdict, future, slot, sends, connect>>

\* A CancelledError, at any await of the handler, is no Exception: _websocket()
\* lets it through and closes nothing.  writable()'s finally takes waiting[id]
\* out, and _serve_websocket()'s finally calls finish().
HandlerCancelled ==
  /\ LoopFree
  /\ task[Handler] \in {"ready", "receiving", "suspended", "accepting", "closing", "leaving"}
  /\ ConnectionFinish
  /\ task' = [task EXCEPT ![Handler] = "done"]
  /\ future' = [future EXCEPT ![Handler] = "none"]
  /\ slot' = IF task[Handler] = "suspended" THEN NoTask ELSE slot
  /\ UNCHANGED <<rustVars, backlog, flag, loopVars, sending, verdict, closed, sends, asgiVars>>

\* The task's done callback: websockets.pop(id)
Unregister ==
  /\ LoopFree
  /\ task[Handler] = "done" /\ registered
  /\ registered' = FALSE
  /\ UNCHANGED <<rustVars, connVars, events, inbox, pyVars>>

-----------------------------------------------------------------------------
(* Rust: handshake(), then relay(), whose select loop is at "relaying".    *)

\* decided.await: a task for an accepted connection, a 403 for another.
Decided ==
  /\ link = "opening" /\ decision # "pending"
  /\ link' = IF decision = "accept" THEN "upgrading" ELSE "refused"
  /\ UNCHANGED <<client, writing, heard, shutdown, received, connVars, loopVars, pyVars>>

\* The client left during the handshake: hyper drops its future, and with it
\* both receivers.  No event tells Python.
HandshakeDropped ==
  /\ link = "opening" /\ client = "left"
  /\ link' = "gone"
  /\ out' = <<>>
  /\ UNCHANGED <<client, writing, heard, shutdown, received, decision, outgoing, backlog, flag, loopVars, pyVars>>

Upgraded ==
  /\ link = "upgrading"
  /\ link' = "relaying"
  /\ UNCHANGED <<client, writing, heard, shutdown, received, connVars, loopVars, pyVars>>

\* on_upgrade fails: Python gets Closed(1006), and the task returns there.
UpgradeFails ==
  /\ link = "upgrading" /\ client = "left"
  /\ link' = "failed"
  /\ events' = Append(events, "closed")
  /\ out' = <<>>
  /\ UNCHANGED <<client, writing, heard, shutdown, received, decision, outgoing, backlog, flag, registered, inbox, pyVars>>

\* stream.next(): a message from the client ...
RelayReceives ==
  /\ link = "relaying" /\ client = "reading" /\ received < MaxReceived
  /\ received' = received + 1
  /\ heard' = TRUE
  /\ events' = Append(events, "message")
  /\ UNCHANGED <<link, client, writing, shutdown, connVars, registered, inbox, pyVars>>

\* ... the pong to a ping ...
RelayHearsPong ==
  /\ link = "relaying" /\ client = "reading" /\ ~heard
  /\ heard' = TRUE
  /\ UNCHANGED <<link, client, writing, shutdown, received, connVars, loopVars, pyVars>>

\* relay() breaks out of its loop, tells Python, and returns.
PushClosed ==
  /\ link' = "pushed"
  /\ events' = Append(events, "closed")

\* ... or the end, with or without a close frame.
RelayHearsClose ==
  /\ link = "relaying" /\ client = "left"
  /\ PushClosed
  /\ UNCHANGED <<client, writing, heard, shutdown, received, connVars, registered, inbox, pyVars>>

\* to_send.recv(): a message to write; a Close ends the loop after its frame.
RelayTakes ==
  /\ link = "relaying" /\ out # <<>>
  /\ link' = IF Head(out) = "data" THEN "writing" ELSE "closing"
  /\ out' = Tail(out)
  /\ writing' = "data"
  /\ UNCHANGED <<client, heard, shutdown, received, decision, outgoing, backlog, flag, loopVars, pyVars>>

\* ... or None: Python is done with the connection.
RelaySenderGone ==
  /\ link = "relaying" /\ out = <<>> /\ ~outgoing
  /\ link' = "closing"
  /\ UNCHANGED <<client, writing, heard, shutdown, received, connVars, loopVars, pyVars>>

\* Mutant of PingTick: another ping, whatever was heard.
PingTickNeverCloses ==
  /\ link = "relaying"
  /\ link' = "writing"
  /\ heard' = FALSE
  /\ writing' = "ping"
  /\ UNCHANGED <<client, shutdown, received, connVars, loopVars, pyVars>>

\* pings.tick(): nothing heard since the last ping ends the loop.
PingTick ==
  /\ link = "relaying"
  /\ link' = IF heard THEN "writing" ELSE "closing"
  /\ heard' = FALSE
  /\ writing' = IF heard THEN "ping" ELSE "data"
  /\ UNCHANGED <<client, shutdown, received, connVars, loopVars, pyVars>>

\* shutdown.changed()
RelayShutdown ==
  /\ link = "relaying" /\ shutdown
  /\ link' = "closing"
  /\ UNCHANGED <<client, writing, heard, shutdown, received, connVars, loopVars, pyVars>>

\* Backlog.wake(), once the backlog is low or the connection gone
Wake ==
  /\ flag' = FALSE
  /\ events' = IF flag THEN Append(events, "writable") ELSE events

\* Mutant of WriteDone: the backlog goes down, and nobody is woken.
WriteDoneNeverWakes ==
  /\ link = "writing" /\ client \in {"reading", "silent"}
  /\ link' = "relaying"
  /\ backlog' = IF writing = "data" THEN backlog - 1 ELSE backlog
  /\ UNCHANGED <<client, writing, heard, shutdown, received, decision, outgoing, out, flag, loopVars, pyVars>>

\* sink.send(...).await is over: backlog.taken(), for a message of Python's.
WriteDone ==
  /\ link = "writing" /\ client \in {"reading", "silent"}
  /\ link' = "relaying"
  /\ writing' = "data"
  /\ IF writing = "data"
     THEN /\ backlog' = backlog - 1
          /\ IF backlog - 1 <= LowWater THEN Wake ELSE UNCHANGED <<flag, events>>
     ELSE UNCHANGED <<backlog, flag, events>>
  /\ UNCHANGED <<client, heard, shutdown, received, decision, outgoing, out, registered, inbox, pyVars>>

\* ... or failed
WriteFails ==
  /\ link = "writing" /\ client = "left"
  /\ PushClosed
  /\ UNCHANGED <<client, writing, heard, shutdown, received, connVars, registered, inbox, pyVars>>

\* Mutant of CloseSent: Python is not told.
CloseSentQuietly ==
  /\ link = "closing" /\ client # "stuck"
  /\ link' = "pushed"
  /\ UNCHANGED <<client, writing, heard, shutdown, received, connVars, loopVars, pyVars>>

\* The close frame is written, or could not be.
CloseSent ==
  /\ link = "closing" /\ client # "stuck"
  /\ PushClosed
  /\ UNCHANGED <<client, writing, heard, shutdown, received, connVars, registered, inbox, pyVars>>

\* relay() has returned: its receiver is dropped ...
ReceiverDropped ==
  /\ link = "pushed"
  /\ link' = "dropped"
  /\ out' = <<>>
  /\ UNCHANGED <<client, writing, heard, shutdown, received, decision, outgoing, backlog, flag, loopVars, pyVars>>

\* ... and then backlog.wake(): a send that fails to queue comes after it.
FinalWake ==
  /\ link = "dropped"
  /\ link' = "over"
  /\ Wake
  /\ UNCHANGED <<client, writing, heard, shutdown, received, decision, outgoing, out, backlog, registered, inbox, pyVars>>

-----------------------------------------------------------------------------
(* The client, and the server's stop.                                      *)

\* At any moment the fault that lets the client go there allows.
ClientLeaves ==
  /\ client # "left"
  /\ \/ "leave_early" \in Faults /\ link = "opening"
     \/ "leave_upgrade" \in Faults /\ link = "upgrading"
     \/ "leave" \in Faults /\ link \notin {"opening", "upgrading"} \union Ended
  /\ client' = "left"
  /\ UNCHANGED <<link, writing, heard, shutdown, received, connVars, loopVars, pyVars>>

ClientGoesSilent ==
  /\ "silence" \in Faults /\ client = "reading" /\ link \notin Ended
  /\ client' = "silent"
  /\ UNCHANGED <<link, writing, heard, shutdown, received, connVars, loopVars, pyVars>>

\* A message does not fit in the buffers of a client that does not read: the
\* write waits.
BuffersFill ==
  /\ "full" \in Faults /\ client = "silent"
  /\ link = "writing" /\ writing = "data"
  /\ client' = "stuck"
  /\ UNCHANGED <<link, writing, heard, shutdown, received, connVars, loopVars, pyVars>>

\* Only relay() looks at it, in its select loop.
ServerStops ==
  /\ ~shutdown /\ link = "relaying"
  /\ shutdown' = TRUE
  /\ UNCHANGED <<link, client, writing, heard, received, connVars, loopVars, pyVars>>

-----------------------------------------------------------------------------
Python ==
  \/ \E t \in Task : \/ SendAdd(t) \/ Resume(t)
                    \/ Accept(t) \/ AcceptWaits(t) \/ AcceptResumes(t)
                    \/ Close(t) \/ CloseWaits(t) \/ CloseResumes(t)
  \/ TakeEvents \/ SendPut \/ ReceiveConnect \/ Receive \/ GetMessage
  \/ HandlerReturns \/ HandlerEnds \/ HandlerEndWaits \/ HandlerEndResumes
  \/ HandlerCancelled \/ Unregister

Rust ==
  \/ Decided \/ HandshakeDropped \/ Upgraded \/ UpgradeFails
  \/ RelayReceives \/ RelayHearsPong \/ RelayHearsClose
  \/ RelayTakes \/ RelaySenderGone \/ PingTick \/ RelayShutdown
  \/ WriteDone \/ WriteFails \/ CloseSent \/ ReceiverDropped \/ FinalWake

Environment == ClientLeaves \/ ClientGoesSilent \/ BuffersFill \/ ServerStops

Next == Python \/ Rust \/ Environment

SafeSpec == Init /\ [][Next]_vars

(***************************************************************************)
(* Fairness: the loop takes events and resumes what is ready; the Rust     *)
(* runtime polls what can go on; select! takes its ready branches in a     *)
(* random order, so none is passed over for ever (strong fairness, since a *)
(* write in between disables them; the three that end the loop share one   *)
(* condition, as each is the last).  What a handler or a client does next  *)
(* is up to them.                                                          *)
(***************************************************************************)
Fairness ==
  /\ WF_vars(TakeEvents) /\ WF_vars(SendPut) /\ WF_vars(GetMessage)
  /\ WF_vars(HandlerEnds \/ HandlerEndWaits) /\ WF_vars(HandlerEndResumes) /\ WF_vars(Unregister)
  /\ \A t \in Task : WF_vars(Resume(t)) /\ WF_vars(AcceptResumes(t) \/ CloseResumes(t))
  /\ WF_vars(Decided) /\ WF_vars(HandshakeDropped) /\ WF_vars(Upgraded \/ UpgradeFails)
  /\ WF_vars(WriteDone \/ WriteFails) /\ WF_vars(CloseSent)
  /\ WF_vars(ReceiverDropped) /\ WF_vars(FinalWake)
  /\ SF_vars(RelayTakes) /\ SF_vars(PingTick)
  /\ SF_vars(RelayHearsClose \/ RelaySenderGone \/ RelayShutdown)

Spec == SafeSpec /\ Fairness

-----------------------------------------------------------------------------
(* Properties.                                                             *)

\* Every variable keeps its type; the backlog never goes under zero or over
\* what Python sent.
TypeOK ==
  /\ link \in LinkState
  /\ client \in {"reading", "silent", "stuck", "left"}
  /\ writing \in {"data", "ping"} /\ heard \in BOOLEAN /\ shutdown \in BOOLEAN
  /\ received \in 0..MaxReceived
  /\ decision \in {"pending", "accept", "refuse"} /\ outgoing \in BOOLEAN
  /\ out \in Seq({"data", "close"})
  /\ backlog \in 0..MaxSends /\ flag \in BOOLEAN
  /\ events \in Seq({"opening", "message", "closed", "writable"})
  /\ registered \in BOOLEAN
  /\ inbox \in Seq({"message", "closed"})
  /\ task \in [Task -> TaskState]
  /\ sending \in Task \union {NoTask} /\ verdict \in {"SENT", "WAIT"}
  /\ future \in [Task -> {"none", "pending", "done"}]
  /\ slot \in Task \union {NoTask}
  /\ closed \in BOOLEAN /\ sends \in 0..MaxSends
  /\ connect \in {"due", "taken", "known"} /\ told \in BOOLEAN

\* A handler that awaits a message on a connection that is over gets its
\* disconnect (docs/websockets.md: receive() raises WebSocketDisconnect "once
\* the client is gone"), but in three cases, where the code has it wait for
\* ever: the client left before the app decided, and handshake() is dropped
\* and tells nobody (link = "gone"); the app itself closed before it accepted,
\* and is told nothing; the disconnect was taken already, by a receive() or by
\* a call that waited for a connect message that a receive() had taken.
DisconnectTold ==
  link \in Ended \ {"gone"} /\ task[Handler] = "receiving" =>
    \/ Contains(inbox, "closed") \/ Contains(events, "closed")
    \/ link = "refused" /\ closed
    \/ told

\* Once the handler is done, its connection ends, whatever is still queued,
\* unless relay() is in a write the client never reads.
HandlerDoneCloses ==
  task[Handler] = "done" ~> link \in Ended \/ client = "stuck"

\* A client that falls silent is closed by the ping it does not answer
\* (docs/server.md: "a client silent until the next ping is closed"), unless
\* its buffers fill first: relay() polls no ping while it writes.
SilentClientClosed ==
  link = "relaying" /\ client = "silent" ~> link \in Ended \/ client = "stuck"

\* A task that waits for its client to catch up, its future on record, goes
\* on once the app has decided, unless the client never reads again, or there
\* never is a relay: the client was lost before, or refused after messages were
\* queued for it.  Before a decision nobody reads the backlog, and a second
\* task that waits takes the first one's place in waiting[id].
SenderResumes ==
  \A t \in Task :
    task[t] = "suspended" /\ slot = t /\ link # "opening" ~>
      task[t] # "suspended" \/ slot # t \/ client = "stuck" \/ link \in {"gone", "failed", "refused"}
=============================================================================
