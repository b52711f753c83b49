---------------------------- MODULE TokenBucket ----------------------------
(***************************************************************************)
(* What a rate limit promises: every key has a bucket.  A request takes    *)
(* Interval out of its key's bucket, or is refused if there is less; time  *)
(* fills the buckets up to Per again (src/korvex/middleware/               *)
(* _rate_limit.py, MemoryStore: "a token bucket kept as one timestamp per  *)
(* key").                                                                  *)
(***************************************************************************)
EXTENDS Integers

CONSTANTS Key, Request, KeyOf, Interval, Per

VARIABLES credit,    \* what is in each key's bucket
          decision   \* what each request was told

vars == <<credit, decision>>

Init ==
  /\ credit = [k \in Key |-> Per]
  /\ decision = [r \in Request |-> "none"]

Tick ==
  /\ credit' = [k \in Key |-> IF credit[k] < Per THEN credit[k] + 1 ELSE Per]
  /\ UNCHANGED decision

Allow(r) ==
  /\ decision[r] = "none" /\ credit[KeyOf[r]] >= Interval
  /\ credit' = [credit EXCEPT ![KeyOf[r]] = @ - Interval]
  /\ decision' = [decision EXCEPT ![r] = "allowed"]

Refuse(r) ==
  /\ decision[r] = "none" /\ credit[KeyOf[r]] < Interval
  /\ decision' = [decision EXCEPT ![r] = "refused"]
  /\ UNCHANGED credit

Next == Tick \/ \E r \in Request : Allow(r) \/ Refuse(r)

Spec == Init /\ [][Next]_vars
=============================================================================
