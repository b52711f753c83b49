---------------------------- MODULE EventChannel ----------------------------
(***************************************************************************)
(* What korvex's Rust thread and its asyncio loop promise each other, with *)
(* the wake-up socket left out: every event handed to the channel reaches  *)
(* Python exactly once, in the order it was queued, and none is left       *)
(* behind.  EventQueue implements it; the modules about streamed responses *)
(* and WebSockets rely on it.                                              *)
(***************************************************************************)
EXTENDS Naturals, Sequences

CONSTANT Event

VARIABLES pending,     \* queued, and not yet taken by Python
          delivered    \* taken by Python, in order

chan == <<pending, delivered>>

Init ==
  /\ pending = <<>>
  /\ delivered = <<>>

Send(e) ==
  /\ pending' = Append(pending, e)
  /\ UNCHANGED delivered

\* Python always takes everything that waits, at once.
Deliver ==
  /\ pending # <<>>
  /\ delivered' = delivered \o pending
  /\ pending' = <<>>

Next == (\E e \in Event : Send(e)) \/ Deliver

SafeSpec == Init /\ [][Next]_chan

Spec == SafeSpec /\ WF_chan(Deliver)
=============================================================================
