----------------------------- MODULE EventQueue -----------------------------
(***************************************************************************)
(* The event queue between the Rust threads of the built-in server and the *)
(* asyncio loop (src/src/server.rs, Shared::push and Server::take).        *)
(*                                                                         *)
(* A thread that has an event for Python appends it to `queue` under a     *)
(* lock and then sets `woken`; only the one that finds the flag clear      *)
(* writes a byte to the socket the loop watches.  The loop, woken by the   *)
(* socket, empties it, clears the flag and drains the queue, in that       *)
(* order.  Each atomic operation is a step of its own.                     *)
(***************************************************************************)
EXTENDS Naturals, Sequences

CONSTANTS Thread,      \* threads that call push()
          MaxEvents,   \* bound: how many events are ever pushed
          SocketCap,   \* bytes the wake-up socket holds before write() fails
          ReadSize     \* bytes one read() of take() asks for (256 in the code)

ASSUME EventQueueAssumption ==
  /\ MaxEvents \in Nat
  /\ SocketCap \in Nat \ {0}
  /\ ReadSize \in Nat \ {0}

VARIABLES queue,       \* Shared.queue; an event is its place in push order
          woken,       \* Shared.woken
          wakeBytes,   \* bytes in the wake-up socket
          pusher,      \* thread -> where it is in push()
          loop,        \* where the asyncio loop is in take()
          pushed,      \* how many events were pushed (bounded by MaxEvents)
          taken        \* events handed to Python, in order

queueVars == <<queue, woken, wakeBytes, pusher, loop, pushed, taken>>

PusherState == {"out", "swap", "write"}
LoopState == {"select", "read", "clear", "drain"}

QueueInit ==
  /\ queue = <<>>
  /\ woken = FALSE
  /\ wakeBytes = 0
  /\ pusher = [t \in Thread |-> "out"]
  /\ loop = "select"
  /\ pushed = 0
  /\ taken = <<>>

-----------------------------------------------------------------------------
(* Shared::push, on any thread.                                            *)

\* self.queue.lock().push_back(event)
PushBack(t) ==
  /\ pusher[t] = "out"
  /\ pushed < MaxEvents
  /\ pushed' = pushed + 1
  /\ queue' = Append(queue, pushed')
  /\ pusher' = [pusher EXCEPT ![t] = "swap"]
  /\ UNCHANGED <<woken, wakeBytes, loop, taken>>

\* if !self.woken.swap(true): the first since the last take() writes a byte
SwapWoken(t) ==
  /\ pusher[t] = "swap"
  /\ woken' = TRUE
  /\ pusher' = [pusher EXCEPT ![t] = IF woken THEN "out" ELSE "write"]
  /\ UNCHANGED <<queue, wakeBytes, loop, pushed, taken>>

\* The write may fail on a full socket: bytes are waiting then anyway.
WriteByte(t) ==
  /\ pusher[t] = "write"
  /\ wakeBytes' = IF wakeBytes < SocketCap THEN wakeBytes + 1 ELSE wakeBytes
  /\ pusher' = [pusher EXCEPT ![t] = "out"]
  /\ UNCHANGED <<queue, woken, loop, pushed, taken>>

-----------------------------------------------------------------------------
(* The loop's reader callback and Server::take.                            *)

\* loop.add_reader(server.fileno(), take_requests): called while readable
Readable ==
  /\ loop = "select"
  /\ wakeBytes > 0
  /\ loop' = "read"
  /\ UNCHANGED <<queue, woken, wakeBytes, pusher, pushed, taken>>

\* One read() of the loop that empties the socket.
ReadBytes ==
  /\ loop = "read"
  /\ wakeBytes > 0
  /\ wakeBytes' = IF wakeBytes > ReadSize THEN wakeBytes - ReadSize ELSE 0
  /\ UNCHANGED <<queue, woken, pusher, loop, pushed, taken>>

\* read() found nothing: the socket was empty at that moment.
ReadNothing ==
  /\ loop = "read"
  /\ wakeBytes = 0
  /\ loop' = "clear"
  /\ UNCHANGED <<queue, woken, wakeBytes, pusher, pushed, taken>>

\* Mutant of ClearWoken: the flag is never reset.
ClearWokenKeepsFlag ==
  /\ loop = "clear"
  /\ loop' = "drain"
  /\ UNCHANGED <<queue, woken, wakeBytes, pusher, pushed, taken>>

\* self.shared.woken.store(false)
ClearWoken ==
  /\ loop = "clear"
  /\ woken' = FALSE
  /\ loop' = "drain"
  /\ UNCHANGED <<queue, wakeBytes, pusher, pushed, taken>>

\* Mutant of DrainQueue: pop_front() instead of drain(..).
DrainQueuePopsOne ==
  /\ loop = "drain"
  /\ taken' = taken \o SubSeq(queue, 1, 1)
  /\ queue' = SubSeq(queue, 2, Len(queue))
  /\ loop' = "select"
  /\ UNCHANGED <<woken, wakeBytes, pusher, pushed>>

\* queue.lock().drain(..), and each event handed to take_requests()
DrainQueue ==
  /\ loop = "drain"
  /\ taken' = taken \o queue
  /\ queue' = <<>>
  /\ loop' = "select"
  /\ UNCHANGED <<woken, wakeBytes, pusher, pushed>>

-----------------------------------------------------------------------------
Push(t) == PushBack(t) \/ SwapWoken(t) \/ WriteByte(t)
Take == Readable \/ ReadBytes \/ ReadNothing \/ ClearWoken \/ DrainQueue

QueueNext == (\E t \in Thread : Push(t)) \/ Take

QueueSafeSpec == QueueInit /\ [][QueueNext]_queueVars

(***************************************************************************)
(* QueueFairness: a thread inside push() finishes it (nothing in it blocks),    *)
(* and the loop keeps polling its selector.  Nobody has to push.           *)
(***************************************************************************)
QueueFairness ==
  /\ \A t \in Thread : WF_queueVars(SwapWoken(t) \/ WriteByte(t))
  /\ WF_queueVars(Take)

QueueSpec == QueueSafeSpec /\ QueueFairness

-----------------------------------------------------------------------------
(* Properties.                                                             *)

\* Every variable keeps its type.
QueueTypeOK ==
  /\ queue \in Seq(1..MaxEvents)
  /\ woken \in BOOLEAN
  /\ wakeBytes \in 0..SocketCap
  /\ pusher \in [Thread -> PusherState]
  /\ loop \in LoopState
  /\ pushed \in 0..MaxEvents
  /\ taken \in Seq(1..MaxEvents)

Writing(t) == pusher[t] = "write"

\* No wake-up is lost (server.rs, the comment in take()): an event waiting in
\* the queue has a byte in the socket, a thread on its way to write one, or a
\* take() that has yet to drain the queue.
NoLostWakeup ==
  queue # <<>> =>
    \/ wakeBytes > 0
    \/ \E t \in Thread : pusher[t] \in {"swap", "write"}
    \/ loop # "select"

\* A burst sends a single byte (server.rs, the comment on Shared.woken):
\* however the pushes of several threads and a take() interleave, at most one
\* byte is in the socket or about to be written, so the write never fails.
SingleByte ==
  /\ wakeBytes <= 1
  /\ \A t \in Thread : Writing(t) => wakeBytes = 0
  /\ \A t, u \in Thread : Writing(t) /\ Writing(u) => t = u

Chan == INSTANCE EventChannel
          WITH Event <- 1..MaxEvents, pending <- queue, delivered <- taken

\* push() and take() implement the channel the rest of the server relies on:
\* each event once, in order, and, the loop being fair, none left in the queue.
ImplementsChannel == Chan!Spec

\* The inductive invariant: how the flag, the byte, its writer and take()
\* stand to each other at every moment.
Handshake ==
  /\ ~woken => wakeBytes = 0 /\ \A t \in Thread : ~Writing(t)
  /\ woken => \/ wakeBytes = 1
              \/ \E t \in Thread : Writing(t)
              \/ loop \in {"read", "clear"}
  /\ loop \in {"read", "clear"} => woken /\ \A t \in Thread : ~Writing(t)
  /\ loop = "clear" => wakeBytes = 0

\* A queued event whose pusher is past the swap left the flag set, unless a
\* take() is about to drain it.
QueuedIsFlagged ==
  queue # <<>> =>
    \/ woken
    \/ \E t \in Thread : pusher[t] = "swap"
    \/ loop = "drain"

IInv == QueueTypeOK /\ SingleByte /\ Handshake /\ QueuedIsFlagged
=============================================================================
