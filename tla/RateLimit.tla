----------------------------- MODULE RateLimit -----------------------------
(***************************************************************************)
(* Rate limiting: one timestamp per key, in this process or in Redis.      *)
(*                                                                         *)
(*   src/korvex/middleware/_rate_limit.py  MemoryStore, RedisStore and     *)
(*                                         rate_limit()'s before hook      *)
(*                                                                         *)
(* Both stores run the same algorithm, MemoryStore under its lock, Redis   *)
(* in one script: a decision is one step.  With Redis the request sends    *)
(* the script and awaits the answer, and either way may be lost.           *)
(*                                                                         *)
(* Time is counted in ticks that both stores' numbers hold exactly, and    *)
(* the clock does not go back.                                             *)
(***************************************************************************)
EXTENDS Integers, Sequences, FiniteSets

CONSTANTS Key,
          Request, KeyOf,   \* the requests, and whom each is counted for
          Requests,         \* `requests`: a burst
          Interval,         \* per / requests
          ForgetEvery,      \* _forget_old() drops keys each so many calls
          FailOpen,         \* RedisStore(fail_open=...)
          Store,            \* the stores to choose from
          MaxTime           \* bound on the clock

Per == Requests * Interval

ASSUME RateLimitAssumption ==
  /\ KeyOf \in [Request -> Key]
  /\ Requests \in Nat \ {0} /\ Interval \in Nat \ {0}
  /\ ForgetEvery \in Nat \ {0}
  /\ FailOpen \in BOOLEAN
  /\ Store \subseteq {"memory", "redis"}
  /\ MaxTime \in Nat

VARIABLES store,       \* which of the two is in use
          now,         \* its clock
          known,       \* the keys it has a timestamp for
          next_free,   \* _next_free: when the key's allowance is fully back
          calls,       \* MemoryStore._calls
          pc,          \* where the request's before hook is
          decision,    \* what the store decided
          answer,      \* what the hook made of it
          retryAt,     \* now + retry_after, for a refused request
          grants,      \* per key, when the store allowed a request
          grantsAt     \* how many it had allowed when it refused this one

storeVars == <<now, known, next_free, calls>>
logVars == <<decision, retryAt, grants, grantsAt>>
vars == <<store, storeVars, pc, answer, logVars>>

Init ==
  /\ store \in Store
  /\ now = 0 /\ known = {} /\ next_free = [k \in Key |-> 0] /\ calls = 0
  /\ pc = [r \in Request |-> "new"]
  /\ decision = [r \in Request |-> "none"]
  /\ answer = [r \in Request |-> "none"]
  /\ retryAt = [r \in Request |-> 0]
  /\ grants = [k \in Key |-> <<>>]
  /\ grantsAt = [r \in Request |-> 0]

\* Mutant of FullBack: a timestamp in the past still counts.
FullBackStale(k) == IF k \in known THEN next_free[k] ELSE now

\* max(self._next_free.get(key, now), now)
FullBack(k) == IF k \in known /\ next_free[k] > now THEN next_free[k] ELSE now

\* a burst of `requests` fits in `per`
AllowedAt(k) == FullBack(k) - Per + Interval

\* Mutant of Remembered: keys whose time has not come are dropped.
RememberedLess(keys, times) == {k \in keys : times[k] > now + Interval}

\* _forget_old(): the keys whose allowance is not fully back
Remembered(keys, times) == {k \in keys : times[k] > now}

\* Mutant of Refuse: it says when the whole allowance is back.
RefuseUntilFull(r) ==
  /\ now < AllowedAt(KeyOf[r])
  /\ decision' = [decision EXCEPT ![r] = "refused"]
  /\ retryAt' = [retryAt EXCEPT ![r] = FullBack(KeyOf[r])]
  /\ grantsAt' = [grantsAt EXCEPT ![r] = Len(grants[KeyOf[r]])]
  /\ UNCHANGED <<storeVars, grants>>

\* _hit(), for a request that is refused ...
Refuse(r) ==
  /\ now < AllowedAt(KeyOf[r])
  /\ decision' = [decision EXCEPT ![r] = "refused"]
  /\ retryAt' = [retryAt EXCEPT ![r] = AllowedAt(KeyOf[r])]
  /\ grantsAt' = [grantsAt EXCEPT ![r] = Len(grants[KeyOf[r]])]
  /\ UNCHANGED <<storeVars, grants>>

\* ... and for one that is allowed.  Only MemoryStore calls _forget_old().
Allow(r) ==
  LET k == KeyOf[r]
      times == [next_free EXCEPT ![k] = FullBack(k) + Interval]
      counted == IF store = "memory" THEN (calls + 1) % ForgetEvery ELSE calls
      forgets == store = "memory" /\ counted = 0
  IN /\ now >= AllowedAt(k)
     /\ decision' = [decision EXCEPT ![r] = "allowed"]
     /\ next_free' = times
     /\ known' = IF forgets THEN Remembered(known \union {k}, times) ELSE known \union {k}
     /\ calls' = counted
     /\ grants' = [grants EXCEPT ![k] = Append(@, now)]
     /\ UNCHANGED <<now, retryAt, grantsAt>>

\* The before hook with a MemoryStore: hit() under its lock, then the answer
Hit(r) ==
  /\ store = "memory" /\ pc[r] = "new"
  /\ Refuse(r) \/ Allow(r)
  /\ pc' = [pc EXCEPT ![r] = "done"]
  /\ answer' = [answer EXCEPT ![r] = IF decision'[r] = "allowed" THEN "pass" ELSE "429"]
  /\ UNCHANGED store

\* ... with a RedisStore: it sends the script, and awaits ...
Send(r) ==
  /\ store = "redis" /\ pc[r] = "new"
  /\ pc' = [pc EXCEPT ![r] = "sent"]
  /\ UNCHANGED <<store, storeVars, answer, logVars>>

\* ... which Redis runs alone ...
Execute(r) ==
  /\ pc[r] = "sent"
  /\ Refuse(r) \/ Allow(r)
  /\ pc' = [pc EXCEPT ![r] = "executed"]
  /\ UNCHANGED <<store, answer>>

\* ... and what it returns is the answer,
Reply(r) ==
  /\ pc[r] = "executed"
  /\ pc' = [pc EXCEPT ![r] = "done"]
  /\ answer' = [answer EXCEPT ![r] = IF decision[r] = "allowed" THEN "pass" ELSE "429"]
  /\ UNCHANGED <<store, storeVars, logVars>>

\* unless an exception comes instead, the script run or not.
Unreachable(r) ==
  /\ pc[r] \in {"sent", "executed"}
  /\ pc' = [pc EXCEPT ![r] = "done"]
  /\ answer' = [answer EXCEPT ![r] = IF FailOpen THEN "pass" ELSE "429"]
  /\ UNCHANGED <<store, storeVars, logVars>>

\* PX: Redis drops a key, never before its allowance is fully back.
Expire(k) ==
  /\ store = "redis" /\ k \in known /\ next_free[k] <= now
  /\ known' = known \ {k}
  /\ UNCHANGED <<store, now, next_free, calls, pc, answer, logVars>>

Tick ==
  /\ now < MaxTime
  /\ now' = now + 1
  /\ UNCHANGED <<store, known, next_free, calls, pc, answer, logVars>>

Next ==
  \/ \E r \in Request : Hit(r) \/ Send(r) \/ Execute(r) \/ Reply(r) \/ Unreachable(r)
  \/ \E k \in Key : Expire(k)
  \/ Tick

Spec == Init /\ [][Next]_vars

-----------------------------------------------------------------------------
(* Properties.                                                             *)

\* The variables keep their types, and no key is ever owed more than Per.
TypeOK ==
  /\ store \in Store /\ now \in Nat
  /\ known \subseteq Key /\ next_free \in [Key -> Nat] /\ calls \in 0..(ForgetEvery - 1)
  /\ pc \in [Request -> {"new", "sent", "executed", "done"}]
  /\ decision \in [Request -> {"none", "allowed", "refused"}]
  /\ answer \in [Request -> {"none", "pass", "429"}]
  /\ retryAt \in [Request -> Int] /\ grantsAt \in [Request -> Nat]
  /\ grants \in [Key -> Seq(Nat)]
  /\ \A k \in Key : next_free[k] <= now + Per

\* What is left of a key's allowance
Credit(k) == Per - (FullBack(k) - now)

\* The store is a token bucket: the timestamp, and its being forgotten, never
\* give a key more or less than the bucket would.
Bucket == INSTANCE TokenBucket WITH credit <- [k \in Key |-> Credit(k)]

ImplementsBucket == Bucket!Spec

\* However requests come, n of one key that were allowed within some time are
\* at most a burst and what that time gives back: "up to `requests` at once,
\* then one every `per / requests` seconds" (_rate_limit.py, MemoryStore).
WindowBound ==
  \A k \in Key : \A i, j \in DOMAIN grants[k] :
    i <= j => (j - i + 1) * Interval <= Per + (grants[k][j] - grants[k][i])

\* retry_after is exact: as long as nobody else of its key is allowed, a
\* request that comes back before it is refused, and one that comes back at it
\* is allowed ("seconds until the next request would be allowed").
RetryExact ==
  \A r \in Request :
    decision[r] = "refused" /\ Len(grants[KeyOf[r]]) = grantsAt[r] =>
      (now >= AllowedAt(KeyOf[r]) <=> now >= retryAt[r])
=============================================================================
