----------------------------- MODULE StreamFlow -----------------------------
(***************************************************************************)
(* One streamed response of the built-in server, and the backlog that      *)
(* makes its handler wait for a slow client.                               *)
(*                                                                         *)
(*   src/src/server.rs    Backlog, Responder::send_chunk and end_stream,   *)
(*                        ChannelBody (poll_frame and drop)                *)
(*   src/korvex/_serve.py the streaming branch of _serve_http, writable(), *)
(*                        and the "writable" branch of take_requests()     *)
(*                                                                         *)
(* Python's loop thread adds chunks while the Rust thread takes them; they *)
(* share two atomics (`bytes`, `flag`) and a channel.  Each operation on   *)
(* shared state is a step of its own.  Writable events travel over the     *)
(* channel EventChannel specifies: everything queued arrives in one batch. *)
(*                                                                         *)
(* A chunk is known by the offset of its last byte in the whole stream, so *)
(* that its size is the distance to the chunk before it.                   *)
(***************************************************************************)
EXTENDS Naturals, Sequences

CONSTANTS HighWater,    \* HIGH_WATER: past it, Python is asked to wait
          LowWater,     \* LOW_WATER: at or under it, Python is woken
          ChunkSize,    \* sizes of the chunks a handler may yield
          MaxChunk,     \* the largest of them
          WordSize,     \* 2^64 in the code: the atomic counter wraps there
          MaxOffset,    \* bound: the stream has at most this many bytes
          ClientLeaves  \* whether the client may go before the end

ASSUME StreamFlowAssumption ==
  /\ HighWater \in Nat /\ LowWater \in Nat /\ LowWater <= HighWater
  /\ MaxChunk \in Nat /\ ChunkSize \subseteq 0..MaxChunk
  /\ MaxOffset \in Nat
  /\ WordSize \in Nat /\ MaxOffset < WordSize
  /\ ClientLeaves \in BOOLEAN

VARIABLES bytes,      \* Backlog.bytes
          flag,       \* Backlog.waiting
          channel,    \* chunks in the mpsc channel, each as its last offset
          sender,     \* Responder.stream still holds the sending half
          py,         \* where the handler's task is
          verdict,    \* what send_chunk() will return: "SENT" or "WAIT"
          future,     \* waiting[id]: "none", "pending" or "done"
          body,       \* where the Rust thread is with the ChannelBody
          events,     \* Writable events queued for Python
          counted,    \* offset of the last byte Python counted in `bytes`
          popped,     \* offset of the last byte the body received
          subbed      \* offset of the last byte subtracted from `bytes`

pyVars == <<sender, py, verdict, future, counted>>
rustVars == <<body, popped, subbed>>
vars == <<bytes, flag, channel, pyVars, rustVars, events>>

PyState == {"next", "flag", "recheck", "unflag", "send", "suspended",
            "end", "finish", "done"}
BodyState == {"idle", "taken", "wake", "push",
              "dropping", "dropPush", "closing", "dropped"}

ReceiverOpen == body # "dropped"

(***************************************************************************)
(* start_stream() has just handed the body over, or found the client gone  *)
(* and dropped it on the spot.                                             *)
(***************************************************************************)
Init ==
  /\ bytes = 0 /\ flag = FALSE /\ channel = <<>> /\ sender = TRUE
  /\ py = "next" /\ verdict = "SENT" /\ future = "none"
  /\ body \in {"idle"} \union (IF ClientLeaves THEN {"dropped"} ELSE {})
  /\ events = 0
  /\ counted = 0 /\ popped = 0 /\ subbed = 0

-----------------------------------------------------------------------------
(* AtomicU64: fetch_add and fetch_sub wrap around.                         *)
WrapAdd(a, n) == IF a + n < WordSize THEN a + n ELSE (a + n) - WordSize
WrapSub(a, n) == IF n <= a THEN a - n ELSE (a + WordSize) - n
SaturatingSub(a, n) == IF n <= a THEN a - n ELSE 0

-----------------------------------------------------------------------------
(* Python's side: `async for chunk in response` and send_chunk().          *)

\* Mutant of AddBytes: Python is never asked to wait.
AddBytesNeverWaits(n) ==
  /\ py = "next"
  /\ counted + n <= MaxOffset
  /\ counted' = counted + n
  /\ bytes' = WrapAdd(bytes, n)
  /\ verdict' = "SENT"
  /\ py' = "send"
  /\ UNCHANGED <<flag, channel, sender, future, rustVars, events>>

\* A chunk of n bytes; Backlog::add counts it: bytes.fetch_add(n).
AddBytes(n) ==
  /\ py = "next"
  /\ counted + n <= MaxOffset
  /\ counted' = counted + n
  /\ bytes' = WrapAdd(bytes, n)
  /\ verdict' = IF bytes + n <= HighWater THEN "SENT" ELSE "WAIT"
  /\ py' = IF bytes + n <= HighWater THEN "send" ELSE "flag"
  /\ UNCHANGED <<flag, channel, sender, future, rustVars, events>>

\* self.waiting.store(true)
StoreWaiting ==
  /\ py = "flag"
  /\ flag' = TRUE
  /\ py' = "recheck"
  /\ UNCHANGED <<bytes, channel, sender, verdict, future, counted, rustVars, events>>

\* Mutant of Recheck: the client's progress in between is not looked at.
RecheckSkipped ==
  /\ py = "recheck"
  /\ py' = "send"
  /\ UNCHANGED <<bytes, flag, channel, sender, verdict, future, counted, rustVars, events>>

\* self.bytes.load() <= LOW_WATER && ...
Recheck ==
  /\ py = "recheck"
  /\ py' = IF bytes <= LowWater THEN "unflag" ELSE "send"
  /\ UNCHANGED <<bytes, flag, channel, sender, verdict, future, counted, rustVars, events>>

\* ... && self.waiting.swap(false): whoever clears the flag decides
Unflag ==
  /\ py = "unflag"
  /\ verdict' = IF flag THEN "SENT" ELSE "WAIT"
  /\ flag' = FALSE
  /\ py' = "send"
  /\ UNCHANGED <<bytes, channel, sender, future, counted, rustVars, events>>

\* sender.send(chunk); WAIT makes the task await writable(id), GONE ends it.
SendChunk ==
  /\ py = "send"
  /\ \/ /\ ReceiverOpen
        /\ channel' = Append(channel, counted)
        /\ py' = IF verdict = "WAIT" THEN "suspended" ELSE "next"
        /\ future' = IF verdict = "WAIT" THEN "pending" ELSE "none"
     \/ /\ ~ReceiverOpen
        /\ py' = "end"
        /\ UNCHANGED <<channel, future>>
  /\ UNCHANGED <<bytes, flag, sender, verdict, counted, rustVars, events>>

\* The future is done: writable() returns, its entry removed.
Resume ==
  /\ py = "suspended"
  /\ future = "done"
  /\ future' = "none"
  /\ py' = "next"
  /\ UNCHANGED <<bytes, flag, channel, sender, verdict, counted, rustVars, events>>

\* The handler's chunks run out, or producing one fails.
StreamEnds ==
  /\ py = "next"
  /\ py' = "end"
  /\ UNCHANGED <<bytes, flag, channel, sender, verdict, future, counted, rustVars, events>>

\* The loop cancels the task when it stops, wherever it awaits.
Cancelled ==
  /\ py \in {"next", "suspended"}
  /\ py' = "end"
  /\ future' = "none"
  /\ UNCHANGED <<bytes, flag, channel, sender, verdict, counted, rustVars, events>>

\* finally: responder.end_stream()
EndStream ==
  /\ py = "end"
  /\ sender' = FALSE
  /\ py' = "finish"
  /\ UNCHANGED <<bytes, flag, channel, verdict, future, counted, rustVars, events>>

\* await _finish(response): the dependencies' teardown
Finish ==
  /\ py = "finish"
  /\ py' = "done"
  /\ UNCHANGED <<bytes, flag, channel, sender, verdict, future, counted, rustVars, events>>

\* take_requests(), on the same thread as the task: while it awaits.
TakeWritable ==
  /\ events > 0
  /\ py \in {"next", "suspended", "finish", "done"}
  /\ events' = 0
  /\ future' = IF future = "pending" THEN "done" ELSE future
  /\ UNCHANGED <<bytes, flag, channel, sender, py, verdict, counted, rustVars>>

-----------------------------------------------------------------------------
(* The Rust thread's side: hyper polls the body, and drops it.             *)

\* poll_frame: receiver.poll_recv() has a chunk
PollFrame ==
  /\ body = "idle"
  /\ channel # <<>>
  /\ popped' = Head(channel)
  /\ channel' = Tail(channel)
  /\ body' = "taken"
  /\ UNCHANGED <<bytes, flag, pyVars, subbed, events>>

\* Mutant of Taken: wake() at the low mark and not under it.
TakenWakesAtExactlyLow ==
  LET n == popped - subbed IN
  /\ body = "taken"
  /\ bytes' = WrapSub(bytes, n)
  /\ subbed' = popped
  /\ body' = IF SaturatingSub(bytes, n) = LowWater THEN "wake" ELSE "idle"
  /\ UNCHANGED <<flag, channel, pyVars, popped, events>>

\* Backlog::taken: bytes.fetch_sub(n), and wake() at the low mark
Taken ==
  LET n == popped - subbed IN
  /\ body = "taken"
  /\ bytes' = WrapSub(bytes, n)
  /\ subbed' = popped
  /\ body' = IF SaturatingSub(bytes, n) <= LowWater THEN "wake" ELSE "idle"
  /\ UNCHANGED <<flag, channel, pyVars, popped, events>>

\* Backlog::wake: waiting.swap(false)
Wake ==
  /\ body = "wake"
  /\ flag' = FALSE
  /\ body' = IF flag THEN "push" ELSE "idle"
  /\ UNCHANGED <<bytes, channel, pyVars, popped, subbed, events>>

\* ... and push(Event::Writable(id))
PushWritable ==
  /\ body = "push"
  /\ events' = events + 1
  /\ body' = "idle"
  /\ UNCHANGED <<bytes, flag, channel, pyVars, popped, subbed>>

\* poll_recv() says the sender is gone and the channel empty: the body is sent.
BodyEnds ==
  /\ body = "idle"
  /\ channel = <<>> /\ ~sender
  /\ body' = "dropping"
  /\ UNCHANGED <<bytes, flag, channel, pyVars, popped, subbed, events>>

\* The connection goes, and hyper drops the body with it.
ClientGone ==
  /\ ClientLeaves
  /\ body = "idle"
  /\ body' = "dropping"
  /\ UNCHANGED <<bytes, flag, channel, pyVars, popped, subbed, events>>

\* Drop for ChannelBody: backlog.wake() ...
DropWake ==
  /\ body = "dropping"
  /\ flag' = FALSE
  /\ body' = IF flag THEN "dropPush" ELSE "closing"
  /\ UNCHANGED <<bytes, channel, pyVars, popped, subbed, events>>

DropPush ==
  /\ body = "dropPush"
  /\ events' = events + 1
  /\ body' = "closing"
  /\ UNCHANGED <<bytes, flag, channel, pyVars, popped, subbed>>

\* ... and only then its fields: the receiver closes, with what it still held.
DropReceiver ==
  /\ body = "closing"
  /\ channel' = <<>>
  /\ body' = "dropped"
  /\ UNCHANGED <<bytes, flag, pyVars, popped, subbed, events>>

-----------------------------------------------------------------------------
PySend == StoreWaiting \/ Recheck \/ Unflag \/ SendChunk
PyEnd == EndStream \/ Finish
Python == (\E n \in ChunkSize : AddBytes(n)) \/ PySend \/ Resume
            \/ StreamEnds \/ Cancelled \/ PyEnd
Drop == DropWake \/ DropPush \/ DropReceiver
Rust == PollFrame \/ Taken \/ Wake \/ PushWritable \/ BodyEnds \/ Drop

Next == Python \/ TakeWritable \/ Rust \/ ClientGone

SafeSpec == Init /\ [][Next]_vars

(***************************************************************************)
(* Fairness: code that is running goes on, the loop polls, and a client    *)
(* that is there keeps reading (hyper polls the body again).  The handler  *)
(* need not produce, and nobody has to cancel or leave.                    *)
(***************************************************************************)
Fairness ==
  /\ WF_vars(PySend \/ Resume \/ PyEnd)
  /\ WF_vars(TakeWritable)
  /\ WF_vars(Rust)

Spec == SafeSpec /\ Fairness

-----------------------------------------------------------------------------
(* Properties.                                                             *)

\* Every variable keeps its type; in particular the counter never wraps.
TypeOK ==
  /\ bytes \in 0..MaxOffset
  /\ flag \in BOOLEAN
  /\ channel \in Seq(0..MaxOffset)
  /\ sender \in BOOLEAN
  /\ py \in PyState
  /\ verdict \in {"SENT", "WAIT"}
  /\ future \in {"none", "pending", "done"}
  /\ body \in BodyState
  /\ events \in Nat
  /\ counted \in 0..MaxOffset
  /\ popped \in 0..MaxOffset
  /\ subbed \in 0..MaxOffset

\* The body is there to be polled: the client has not left.
Polled == {"idle", "taken", "wake", "push"}

\* A slow client cannot make a stream pile up in memory (docs/server.md): as
\* long as the client is there, at most two chunks over HIGH_WATER wait.  The
\* second one goes out when taken() found the backlog low, and Python filled
\* it and set the flag before wake() swapped it.
BacklogBound ==
  body \in Polled => bytes <= HighWater + 2 * MaxChunk

\* A Writable event is queued only for a Python that was told to wait and has
\* not gone on since: no wake-up is left over for a later wait
\* (server.rs: "exactly one wake-up (or none at all) happens").
NoSurplusWakeup ==
  events > 0 \/ body \in {"push", "dropPush"} =>
    /\ events + (IF body \in {"push", "dropPush"} THEN 1 ELSE 0) = 1
    /\ \/ py \in {"recheck", "unflag", "end", "finish", "done"}
       \/ py = "send" /\ verdict = "WAIT"
       \/ py = "suspended" /\ future = "pending"

\* A suspended Python has a wake-up coming for as long as the client is there.
WakeupComing ==
  py = "suspended" /\ future = "pending" /\ body \in Polled =>
    \/ flag /\ (bytes > LowWater \/ body = "wake")
    \/ events > 0
    \/ body = "push"

\* A Python told to wait goes on once its client has caught up: for as long as
\* the client is there, no wait lasts for ever.
WaiterResumes ==
  py = "suspended" ~> py # "suspended" \/ body \notin Polled

\* What was counted and not yet subtracted is in the channel or in somebody's
\* hands: the reason the counter cannot wrap.
Accounted ==
  /\ bytes = counted - subbed
  /\ subbed <= popped /\ popped <= counted
  /\ body # "taken" => popped = subbed
  /\ \A i \in 1..Len(channel) : popped <= channel[i] /\ channel[i] <= counted
  /\ \A i, j \in 1..Len(channel) : i <= j => channel[i] <= channel[j]

-----------------------------------------------------------------------------
(* The inductive invariant.                                                *)

\* Told to wait, or on the way to it, and not resumed since.
ToldToWait ==
  \/ py \in {"recheck", "unflag"}
  \/ py = "send" /\ verdict = "WAIT"
  \/ py = "suspended" /\ future = "pending"

WakeupQueued == events > 0 \/ body \in {"push", "dropPush"}

\* The future exists while the task is suspended; add() past the high mark
\* has WAIT in hand until it finds the client caught up.
Phase ==
  /\ future # "none" <=> py = "suspended"
  /\ py \in {"flag", "recheck", "unflag", "suspended"} => verdict = "WAIT"

\* The flag is set for one wait, and its wake-up not sent yet.
FlagOwned ==
  flag => /\ ~WakeupQueued
          /\ ToldToWait \/ py \in {"end", "finish", "done"}

\* Whoever waits, or is about to, left the flag for the body to find.
WaitCovered ==
  body \in Polled =>
    /\ py \in {"recheck", "unflag"} => flag \/ WakeupQueued
    /\ \/ py = "send" /\ verdict = "WAIT"
       \/ py = "suspended" /\ future = "pending"
       => (flag /\ (bytes > LowWater \/ body = "wake")) \/ WakeupQueued

\* How far the backlog can be at each point, with the client there.
Levels ==
  body \in Polled =>
    /\ bytes <= HighWater + 2 * MaxChunk
    /\ py = "unflag" => bytes <= LowWater
    /\ py = "send" /\ verdict = "SENT" => bytes <= HighWater
    /\ py = "next" \/ future = "done" \/ WakeupQueued => bytes <= HighWater + MaxChunk
    /\ body = "wake" =>
         /\ bytes <= HighWater + MaxChunk
         /\ py = "next" => bytes <= HighWater
         /\ events > 0 \/ future = "done" => bytes <= LowWater

IInv == TypeOK /\ Accounted /\ Phase /\ FlagOwned /\ NoSurplusWakeup /\ WaitCovered /\ Levels
=============================================================================
