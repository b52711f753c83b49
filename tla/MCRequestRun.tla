---------------------------- MODULE MCRequestRun ----------------------------
(***************************************************************************)
(* Plans for RequestRun: no dependency; two that share a third; the same,  *)
(* with the third called afresh for one of them.                           *)
(***************************************************************************)
EXTENDS RequestRun

CONSTANTS a, b, c

Cached(f) == [func |-> f, cache |-> TRUE]
Afresh(f) == [func |-> f, cache |-> FALSE]

PlanOf(handler, ofB, ofC) ==
  [f \in {a, b, c, Handler} |->
     CASE f = a -> <<>>
       [] f = b -> ofB
       [] f = c -> ofC
       [] OTHER -> handler]

MCPlans ==
  {PlanOf(<<>>, <<>>, <<>>),
   PlanOf(<<Cached(b), Cached(c)>>, <<Cached(a)>>, <<Cached(a)>>),
   PlanOf(<<Cached(b), Cached(c)>>, <<Cached(a)>>, <<Afresh(a)>>)}
=============================================================================
