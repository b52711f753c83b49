-------------------------- MODULE RateLimitProofs --------------------------
(***************************************************************************)
(* For any number of keys and requests, any limit, and either store: the   *)
(* timestamps are a token bucket, no window lets more through than a burst *)
(* and what its time gives back, and retry_after is exact.                 *)
(*                                                                         *)
(* The inductive invariant adds to the types what the timestamps owe to    *)
(* the requests that were allowed (Owed), and where the timestamp of a     *)
(* refused request's key is until another one is allowed (Pending).        *)
(***************************************************************************)
EXTENDS RateLimit, TLAPS

\* What n requests cost
Cost(n) == n * Interval

\* An allowed request came before now, and the key's allowance is fully back
\* only once it and all that were allowed after it are paid for.
Owed ==
  \A k \in Key : \A i \in 1..Len(grants[k]) :
    /\ grants[k][i] <= now
    /\ grants[k][i] + Cost(Len(grants[k]) - i + 1) <= FullBack(k)

\* A key's timestamp stays where a refused request found it until another
\* request is allowed; it is only forgotten once it is past.
Pending ==
  \A r \in Request :
    /\ grantsAt[r] <= Len(grants[KeyOf[r]])
    /\ decision[r] = "refused" /\ Len(grants[KeyOf[r]]) = grantsAt[r] =>
         /\ next_free[KeyOf[r]] = retryAt[r] + Per - Interval
         /\ KeyOf[r] \in known \/ next_free[KeyOf[r]] <= now

\* A request is decided once, by the store it was sent to.
Decided ==
  \A r \in Request :
    /\ pc[r] \in {"new", "sent"} => decision[r] = "none"
    /\ pc[r] = "sent" => store = "redis"

IInv == TypeOK /\ Owed /\ Pending /\ Decided /\ WindowBound

-----------------------------------------------------------------------------
(* Arithmetic.                                                             *)

\* A burst costs at least one interval.
LEMMA PerFacts == Per \in Nat /\ Interval \in Nat /\ Interval >= 1 /\ Per >= Interval
  BY RateLimitAssumption DEF Per

\* One more request costs one more interval.
LEMMA CostFacts ==
  /\ \A n \in Nat : Cost(n) \in Nat
  /\ \A n \in Nat : Cost(n + 1) = Cost(n) + Interval
  /\ Cost(1) = Interval
  BY RateLimitAssumption DEF Cost

\* The time a key's allowance is back is not before now, nor more than Per after.
LEMMA FullBackFacts ==
  ASSUME TypeOK, NEW k \in Key
  PROVE  FullBack(k) \in Nat /\ now <= FullBack(k) /\ FullBack(k) <= now + Per
  BY PerFacts DEF TypeOK, FullBack

\* A request is refused only while its key's timestamp is ahead of the clock.
LEMMA RefusedFacts ==
  ASSUME TypeOK, NEW r \in Request, now < AllowedAt(KeyOf[r])
  PROVE  /\ KeyOf[r] \in known
         /\ FullBack(KeyOf[r]) = next_free[KeyOf[r]]
         /\ AllowedAt(KeyOf[r]) + Per - Interval = next_free[KeyOf[r]]
         /\ AllowedAt(KeyOf[r]) \in Int
  BY PerFacts, RateLimitAssumption DEF TypeOK, FullBack, AllowedAt

\* An allowed request moves the timestamp on by one interval, and no further
\* than Per from now.
LEMMA AllowedFacts ==
  ASSUME TypeOK, NEW r \in Request, Allow(r), UNCHANGED store
  PROVE  /\ now' = now
         /\ KeyOf[r] \in Key
         /\ next_free' = [next_free EXCEPT ![KeyOf[r]] = FullBack(KeyOf[r]) + Interval]
         /\ FullBack(KeyOf[r]) + Interval <= now + Per
         /\ known' \subseteq known \union {KeyOf[r]}
         /\ FullBack(KeyOf[r])' = FullBack(KeyOf[r]) + Interval
         /\ \A k \in Key \ {KeyOf[r]} : FullBack(k)' = FullBack(k)
         /\ \A k \in Key \ {KeyOf[r]} : k \in known /\ k \notin known' => next_free[k] <= now
         /\ KeyOf[r] \in known'
<1> DEFINE K == KeyOf[r]
           times == [next_free EXCEPT ![K] = FullBack(K) + Interval]
<1>1. /\ K \in Key /\ now' = now /\ next_free' = times /\ now >= AllowedAt(K)
      /\ \/ known' = known \union {K}
         \/ known' = Remembered(known \union {K}, times)
  BY RateLimitAssumption DEF Allow
<1>2. /\ FullBack(K) \in Nat /\ now <= FullBack(K) /\ now \in Nat
      /\ next_free \in [Key -> Nat]
  BY <1>1, FullBackFacts DEF TypeOK
<1>3. FullBack(K) + Interval <= now + Per
  BY <1>1, <1>2, PerFacts DEF AllowedAt
<1>4. times[K] = FullBack(K) + Interval /\ times[K] > now /\ times[K] \in Nat
  BY <1>1, <1>2, PerFacts
<1>5. K \in known'
  BY <1>1, <1>4 DEF Remembered
<1>6. FullBack(K)' = FullBack(K) + Interval
  BY <1>1, <1>4, <1>5 DEF FullBack
<1>7. \A k \in Key \ {K} : times[k] = next_free[k] /\ next_free[k] \in Nat
  BY <1>1, <1>2
<1>8. known' \subseteq known \union {K}
  BY <1>1 DEF Remembered
<1>9. \A k \in Key \ {K} : k \in known /\ k \notin known' => next_free[k] <= now
  BY <1>1, <1>2, <1>7 DEF Remembered
<1>10. \A k \in Key \ {K} : FullBack(k)' = FullBack(k)
  BY <1>1, <1>2, <1>7, <1>8, <1>9 DEF FullBack
<1> QED
  BY <1>1, <1>3, <1>5, <1>6, <1>8, <1>9, <1>10

-----------------------------------------------------------------------------
(* The types.                                                              *)

\* Every step keeps the types.
LEMMA NextTypeOK == TypeOK /\ [Next]_vars => TypeOK'
<1> SUFFICES ASSUME TypeOK, [Next]_vars PROVE TypeOK'
  OBVIOUS
<1> USE DEF TypeOK
<1>a. ASSUME NEW r \in Request, Refuse(r), UNCHANGED store,
             pc' \in [Request -> {"new", "sent", "executed", "done"}],
             answer' \in [Request -> {"none", "pass", "429"}]
      PROVE  TypeOK'
  <2>1. KeyOf[r] \in Key /\ AllowedAt(KeyOf[r]) \in Int /\ Len(grants[KeyOf[r]]) \in Nat
    BY <1>a, RefusedFacts, RateLimitAssumption DEF Refuse
  <2> QED
    BY <1>a, <2>1 DEF Refuse, storeVars
<1>b. ASSUME NEW r \in Request, Allow(r), UNCHANGED store,
             pc' \in [Request -> {"new", "sent", "executed", "done"}],
             answer' \in [Request -> {"none", "pass", "429"}]
      PROVE  TypeOK'
  <2>1. /\ KeyOf[r] \in Key /\ now' = now
        /\ next_free' = [next_free EXCEPT ![KeyOf[r]] = FullBack(KeyOf[r]) + Interval]
        /\ FullBack(KeyOf[r]) + Interval <= now + Per
        /\ FullBack(KeyOf[r]) \in Nat /\ Per \in Nat /\ Interval \in Nat
        /\ known' \subseteq known \union {KeyOf[r]}
    BY <1>b, AllowedFacts, FullBackFacts, PerFacts
  <2>2. next_free' \in [Key -> Nat] /\ (\A k \in Key : next_free'[k] <= now' + Per)
    BY <2>1
  <2>3. calls' \in 0..(ForgetEvery - 1)
    BY <1>b, RateLimitAssumption DEF Allow
  <2>4. grants' \in [Key -> Seq(Nat)]
    BY <1>b, <2>1 DEF Allow
  <2>5. decision' \in [Request -> {"none", "allowed", "refused"}]
    BY <1>b DEF Allow
  <2> QED
    BY <1>b, <2>1, <2>2, <2>3, <2>4, <2>5 DEF Allow
<1>1. ASSUME NEW r \in Request, Hit(r) PROVE TypeOK'
  <2>1. /\ UNCHANGED store
        /\ pc' \in [Request -> {"new", "sent", "executed", "done"}]
        /\ answer' \in [Request -> {"none", "pass", "429"}]
    BY <1>1 DEF Hit
  <2> QED
    BY <1>1, <2>1, <1>a, <1>b DEF Hit
<1>2. ASSUME NEW r \in Request, Execute(r) PROVE TypeOK'
  <2>1. /\ UNCHANGED store
        /\ pc' \in [Request -> {"new", "sent", "executed", "done"}]
        /\ answer' \in [Request -> {"none", "pass", "429"}]
    BY <1>2 DEF Execute
  <2> QED
    BY <1>2, <2>1, <1>a, <1>b DEF Execute
<1>3. ASSUME NEW r \in Request, Send(r) PROVE TypeOK'
  BY <1>3 DEF Send, storeVars, logVars
<1>4. ASSUME NEW r \in Request, Reply(r) PROVE TypeOK'
  BY <1>4 DEF Reply, storeVars, logVars
<1>5. ASSUME NEW r \in Request, Unreachable(r) PROVE TypeOK'
  BY <1>5 DEF Unreachable, storeVars, logVars
<1>6. ASSUME NEW k \in Key, Expire(k) PROVE TypeOK'
  BY <1>6 DEF Expire, logVars
<1>7. CASE Tick
  BY <1>7, PerFacts DEF Tick, logVars
<1>8. CASE UNCHANGED vars
  BY <1>8 DEF vars, storeVars, logVars
<1> QED
  BY <1>1, <1>2, <1>3, <1>4, <1>5, <1>6, <1>7, <1>8 DEF Next

-----------------------------------------------------------------------------
(* The log.                                                                *)

\* A step that leaves the log alone, and no timestamp behind the clock back.
LEMMA LogStays ==
  ASSUME IInv, UNCHANGED logVars, UNCHANGED next_free,
         now' \in Nat, now <= now', known' \subseteq known,
         \A k \in Key : k \in known /\ k \notin known' => next_free[k] <= now'
  PROVE  Owed' /\ Pending' /\ WindowBound'
<1> USE DEF IInv
<1>1. \A k \in Key : FullBack(k) \in Nat /\ FullBack(k)' \in Nat /\ FullBack(k) <= FullBack(k)'
  BY DEF TypeOK, FullBack
<1>2. Owed'
  <2> SUFFICES ASSUME NEW k \in Key, NEW i \in 1..Len(grants[k])
               PROVE  /\ grants[k][i] <= now'
                      /\ grants[k][i] + Cost(Len(grants[k]) - i + 1) <= FullBack(k)'
    BY DEF Owed, logVars, Cost
  <2>1. grants[k][i] <= now /\ grants[k][i] + Cost(Len(grants[k]) - i + 1) <= FullBack(k)
    BY DEF Owed
  <2>2. grants[k][i] \in Nat /\ now \in Nat /\ Len(grants[k]) - i + 1 \in Nat
    BY DEF TypeOK
  <2>3. Cost(Len(grants[k]) - i + 1) \in Nat
    BY <2>2, CostFacts
  <2> QED
    BY <1>1, <2>1, <2>2, <2>3
<1>3. Pending'
  <2> SUFFICES ASSUME NEW r \in Request
               PROVE  /\ grantsAt[r] <= Len(grants[KeyOf[r]])
                      /\ decision[r] = "refused" /\ Len(grants[KeyOf[r]]) = grantsAt[r] =>
                           /\ next_free[KeyOf[r]] = retryAt[r] + Per - Interval
                           /\ KeyOf[r] \in known' \/ next_free[KeyOf[r]] <= now'
    BY DEF Pending, logVars, Per
  <2>1. KeyOf[r] \in Key /\ next_free[KeyOf[r]] \in Nat /\ now \in Nat
    BY RateLimitAssumption DEF TypeOK
  <2> QED
    BY <2>1 DEF Pending
<1>4. WindowBound'
  BY DEF WindowBound, logVars, Per
<1> QED
  BY <1>2, <1>3, <1>4

\* A request is refused: its key's timestamp is what retry_after was read from.
LEMMA RefuseLog ==
  ASSUME IInv, NEW r \in Request, Refuse(r)
  PROVE  Owed' /\ Pending' /\ WindowBound'
<1> USE DEF IInv
<1>1. /\ UNCHANGED <<now, known, next_free, calls, grants>>
      /\ decision' = [decision EXCEPT ![r] = "refused"]
      /\ retryAt' = [retryAt EXCEPT ![r] = AllowedAt(KeyOf[r])]
      /\ grantsAt' = [grantsAt EXCEPT ![r] = Len(grants[KeyOf[r]])]
      /\ now < AllowedAt(KeyOf[r])
  BY DEF Refuse, storeVars
<1>2. Owed'
  BY <1>1 DEF Owed, FullBack, Cost
<1>3. WindowBound'
  BY <1>1 DEF WindowBound, Per
<1>4. Pending'
  <2> SUFFICES ASSUME NEW q \in Request
               PROVE  /\ grantsAt'[q] <= Len(grants[KeyOf[q]])
                      /\ decision'[q] = "refused" /\ Len(grants[KeyOf[q]]) = grantsAt'[q] =>
                           /\ next_free[KeyOf[q]] = retryAt'[q] + Per - Interval
                           /\ KeyOf[q] \in known \/ next_free[KeyOf[q]] <= now
    BY <1>1 DEF Pending, Per
  <2>1. CASE q = r
    <3>1. /\ KeyOf[r] \in known
          /\ AllowedAt(KeyOf[r]) + Per - Interval = next_free[KeyOf[r]]
      BY <1>1, RefusedFacts
    <3>2. retryAt'[r] = AllowedAt(KeyOf[r]) /\ grantsAt'[r] = Len(grants[KeyOf[r]])
      BY <1>1 DEF TypeOK
    <3>3. Len(grants[KeyOf[r]]) \in Nat
      BY RateLimitAssumption DEF TypeOK
    <3> QED
      BY <2>1, <3>1, <3>2, <3>3
  <2>2. CASE q # r
    <3>1. retryAt'[q] = retryAt[q] /\ grantsAt'[q] = grantsAt[q] /\ decision'[q] = decision[q]
      BY <1>1, <2>2 DEF TypeOK
    <3> QED
      BY <3>1 DEF Pending
  <2> QED
    BY <2>1, <2>2
<1> QED
  BY <1>2, <1>3, <1>4

\* A request is allowed: it joins the log, and every one before it in the log
\* costs one interval more.
LEMMA AllowLog ==
  ASSUME IInv, NEW r \in Request, Allow(r), UNCHANGED store
  PROVE  Owed' /\ Pending' /\ WindowBound'
<1> USE DEF IInv
<1> DEFINE K == KeyOf[r]
           n == Len(grants[K])
<1>1. /\ K \in Key /\ now' = now
      /\ next_free' = [next_free EXCEPT ![K] = FullBack(K) + Interval]
      /\ FullBack(K) + Interval <= now + Per
      /\ FullBack(K)' = FullBack(K) + Interval
      /\ \A k \in Key \ {K} : FullBack(k)' = FullBack(k)
      /\ \A k \in Key \ {K} : k \in known /\ k \notin known' => next_free[k] <= now
      /\ K \in known'
  BY AllowedFacts
<1>2. /\ FullBack(K) \in Nat /\ now <= FullBack(K) /\ now \in Nat /\ n \in Nat
      /\ Per \in Nat /\ Interval \in Nat
  BY <1>1, FullBackFacts, PerFacts DEF TypeOK
<1>3. /\ grants' = [grants EXCEPT ![K] = Append(grants[K], now)]
      /\ decision' = [decision EXCEPT ![r] = "allowed"]
      /\ UNCHANGED <<retryAt, grantsAt>>
  BY DEF Allow
<1>4. /\ grants'[K] = Append(grants[K], now)
      /\ Len(grants'[K]) = n + 1
      /\ grants'[K][n + 1] = now
      /\ \A i \in 1..n : grants'[K][i] = grants[K][i] /\ grants[K][i] \in Nat
      /\ \A k \in Key \ {K} : grants'[k] = grants[k]
  <2>1. grants[K] \in Seq(Nat)
    BY <1>1 DEF TypeOK
  <2>2. grants'[K] = Append(grants[K], now) /\ \A k \in Key \ {K} : grants'[k] = grants[k]
    BY <1>1, <1>3 DEF TypeOK
  <2>3. PICK s \in Seq(Nat) : s = grants[K]
    BY <2>1
  <2>4. /\ Len(Append(s, now)) = Len(s) + 1
        /\ Append(s, now)[Len(s) + 1] = now
        /\ \A i \in 1..Len(s) : Append(s, now)[i] = s[i] /\ s[i] \in Nat
    <3>1. Len(Append(s, now)) = Len(s) + 1
      OBVIOUS
    <3>2. Append(s, now)[Len(s) + 1] = now
      OBVIOUS
    <3>3. ASSUME NEW i \in 1..Len(s) PROVE Append(s, now)[i] = s[i]
      OBVIOUS
    <3>4. ASSUME NEW i \in 1..Len(s) PROVE s[i] \in Nat
      OBVIOUS
    <3> QED
      BY <3>1, <3>2, <3>3, <3>4
  <2>5. n = Len(s)
    BY <2>3
  <2> QED
    BY <2>2, <2>3, <2>4, <2>5, Zenon
<1>a. DOMAIN grants'[K] = 1..(n + 1) /\ DOMAIN grants[K] = 1..n
  BY <1>1, <1>2, <1>3 DEF TypeOK
<1> HIDE DEF K, n
<1>b. \A a, b, c, d \in Nat : a + b <= c => a + (b + d) <= c + d
  OBVIOUS
<1>5. \A i \in 1..(n + 1) :
        /\ grants'[K][i] \in Nat /\ grants'[K][i] <= now
        /\ grants'[K][i] + Cost((n + 1) - i + 1) <= FullBack(K) + Interval
  <2> TAKE i \in 1..(n + 1)
  <2>1. CASE i = n + 1
    <3>1. (n + 1) - i + 1 = 1
      BY <1>2, <2>1
    <3>2. grants'[K][i] = now /\ Cost((n + 1) - i + 1) = Interval
      BY <1>4, <2>1, <3>1, CostFacts
    <3> QED
      BY <1>2, <3>2
  <2>2. CASE i # n + 1
    <3>1. i \in 1..n /\ n - i + 1 \in Nat /\ (n + 1) - i + 1 = (n - i + 1) + 1
      BY <1>2, <2>2
    <3>2. grants[K][i] <= now /\ grants[K][i] + Cost(n - i + 1) <= FullBack(K)
      BY <1>1, <3>1 DEF Owed, n
    <3>3. Cost((n + 1) - i + 1) = Cost(n - i + 1) + Interval /\ Cost(n - i + 1) \in Nat
      BY <3>1, CostFacts
    <3>4. grants'[K][i] = grants[K][i] /\ grants[K][i] \in Nat
      BY <1>4, <3>1
    <3>5. grants[K][i] + (Cost(n - i + 1) + Interval) <= FullBack(K) + Interval
      BY <1>2, <1>b, <3>2, <3>3, <3>4
    <3> QED
      BY <3>2, <3>3, <3>4, <3>5
  <2> QED
    BY <2>1, <2>2
<1>6. Owed'
  <2> SUFFICES ASSUME NEW k \in Key, NEW i \in 1..Len(grants'[k])
               PROVE  /\ grants'[k][i] <= now'
                      /\ grants'[k][i] + Cost(Len(grants'[k]) - i + 1) <= FullBack(k)'
    BY DEF Owed, Cost
  <2>1. CASE k = K
    BY <1>1, <1>4, <1>5, <2>1
  <2>2. CASE k # K
    BY <1>1, <1>4, <2>2 DEF Owed
  <2> QED
    BY <2>1, <2>2
<1>7. WindowBound'
  <2> SUFFICES ASSUME NEW k \in Key, NEW i \in DOMAIN grants'[k], NEW j \in DOMAIN grants'[k], i <= j
               PROVE  Cost(j - i + 1) <= Per + (grants'[k][j] - grants'[k][i])
    BY DEF WindowBound, Cost, Per
  <2>1. CASE k # K
    BY <1>4, <2>1 DEF WindowBound, Cost
  <2>2. CASE k = K /\ j = n + 1
    <3>1. i \in 1..(n + 1) /\ (n + 1) - i + 1 \in Nat
      BY <1>2, <1>a, <2>2
    <3>2. Cost((n + 1) - i + 1) \in Nat
      BY <3>1, CostFacts
    <3>3. grants'[K][i] + Cost((n + 1) - i + 1) <= now + Per /\ grants'[K][i] \in Nat
      BY <1>1, <1>2, <1>5, <3>1, <3>2
    <3>4. grants'[k][j] = now /\ grants'[k][i] = grants'[K][i] /\ j - i + 1 = (n + 1) - i + 1
      BY <1>4, <2>2
    <3>5. \A a, b, c, d \in Nat : a + b <= c + d => b <= d + (c - a)
      OBVIOUS
    <3> QED
      BY <1>2, <3>2, <3>3, <3>4, <3>5
  <2>3. CASE k = K /\ j # n + 1
    <3>2. i \in 1..n /\ j \in 1..n
      BY <1>2, <1>a, <2>3
    <3>3. Cost(j - i + 1) <= Per + (grants[K][j] - grants[K][i])
      BY <1>1, <1>a, <3>2 DEF WindowBound, Cost
    <3> QED
      BY <1>4, <2>3, <3>2, <3>3
  <2> QED
    BY <2>1, <2>2, <2>3
<1>8. Pending'
  <2> SUFFICES ASSUME NEW q \in Request
               PROVE  /\ grantsAt[q] <= Len(grants'[KeyOf[q]])
                      /\ decision'[q] = "refused" /\ Len(grants'[KeyOf[q]]) = grantsAt[q] =>
                           /\ next_free'[KeyOf[q]] = retryAt[q] + Per - Interval
                           /\ KeyOf[q] \in known' \/ next_free'[KeyOf[q]] <= now'
    BY <1>3 DEF Pending, Per
  <2>1. grantsAt[q] \in Nat /\ KeyOf[q] \in Key /\ grantsAt[q] <= Len(grants[KeyOf[q]])
    BY RateLimitAssumption DEF TypeOK, Pending
  <2>2. CASE KeyOf[q] = K
    BY <1>2, <1>4, <2>1, <2>2
  <2>3. CASE KeyOf[q] # K
    <3>1. decision'[q] = decision[q]
      BY <1>3, <2>3 DEF TypeOK, K
    <3>2. next_free'[KeyOf[q]] = next_free[KeyOf[q]]
      BY <1>1, <2>1, <2>3 DEF TypeOK
    <3>3. grants'[KeyOf[q]] = grants[KeyOf[q]]
      BY <1>4, <2>1, <2>3
    <3>4. KeyOf[q] \in known => KeyOf[q] \in known' \/ next_free[KeyOf[q]] <= now
      BY <1>1, <2>1, <2>3
    <3> QED
      BY <1>1, <3>1, <3>2, <3>3, <3>4, <2>1 DEF Pending
  <2> QED
    BY <2>2, <2>3
<1> QED
  BY <1>6, <1>7, <1>8

-----------------------------------------------------------------------------
(* The inductive invariant.                                                *)

\* Every request is decided at most once, by the store it was sent to.
LEMMA NextDecided == IInv /\ [Next]_vars => Decided'
<1> SUFFICES ASSUME IInv, [Next]_vars, NEW q \in Request
             PROVE  /\ pc'[q] \in {"new", "sent"} => decision'[q] = "none"
                    /\ pc'[q] = "sent" => store' = "redis"
  BY DEF Decided
<1> USE DEF IInv, TypeOK, Decided
<1>1. ASSUME NEW r \in Request, Hit(r) \/ Execute(r)
      PROVE  /\ pc'[q] \in {"new", "sent"} => decision'[q] = "none"
             /\ pc'[q] = "sent" => store' = "redis"
  <2>1. \E d \in {"allowed", "refused"} : decision' = [decision EXCEPT ![r] = d]
    BY <1>1 DEF Hit, Execute, Refuse, Allow
  <2>2. UNCHANGED store /\ \E p \in {"executed", "done"} : pc' = [pc EXCEPT ![r] = p]
    BY <1>1 DEF Hit, Execute
  <2>3. CASE q = r
    BY <2>2, <2>3
  <2>4. CASE q # r
    BY <2>1, <2>2, <2>4
  <2> QED
    BY <2>3, <2>4
<1>2. ASSUME NEW r \in Request, Send(r)
      PROVE  /\ pc'[q] \in {"new", "sent"} => decision'[q] = "none"
             /\ pc'[q] = "sent" => store' = "redis"
  BY <1>2 DEF Send, logVars
<1>3. ASSUME NEW r \in Request, Reply(r) \/ Unreachable(r)
      PROVE  /\ pc'[q] \in {"new", "sent"} => decision'[q] = "none"
             /\ pc'[q] = "sent" => store' = "redis"
  BY <1>3 DEF Reply, Unreachable, logVars
<1>4. ASSUME (\E k \in Key : Expire(k)) \/ Tick \/ UNCHANGED vars
      PROVE  /\ pc'[q] \in {"new", "sent"} => decision'[q] = "none"
             /\ pc'[q] = "sent" => store' = "redis"
  BY <1>4 DEF Expire, Tick, vars, logVars
<1> QED
  BY <1>1, <1>2, <1>3, <1>4 DEF Next

\* The invariant holds at the start.
LEMMA InitIInv == Init => IInv
<1> SUFFICES ASSUME Init PROVE IInv
  OBVIOUS
<1>1. TypeOK
  BY RateLimitAssumption, PerFacts DEF Init, TypeOK
<1>2. Owed /\ WindowBound
  BY DEF Init, Owed, WindowBound
<1>3. Pending /\ Decided
  BY RateLimitAssumption DEF Init, Pending, Decided
<1> QED
  BY <1>1, <1>2, <1>3 DEF IInv

\* Every step keeps it.
LEMMA NextIInv == IInv /\ [Next]_vars => IInv'
<1> SUFFICES ASSUME IInv, [Next]_vars PROVE IInv'
  OBVIOUS
<1>1. TypeOK' /\ Decided'
  BY NextTypeOK, NextDecided DEF IInv
<1>2. now \in Nat /\ TypeOK
  BY DEF IInv, TypeOK
<1>3. Owed' /\ Pending' /\ WindowBound'
  <2>1. ASSUME NEW r \in Request, Hit(r) \/ Execute(r) PROVE Owed' /\ Pending' /\ WindowBound'
    <3>1. UNCHANGED store /\ (Refuse(r) \/ Allow(r))
      BY <2>1 DEF Hit, Execute
    <3> QED
      BY <3>1, RefuseLog, AllowLog
  <2>2. ASSUME NEW r \in Request, Send(r) \/ Reply(r) \/ Unreachable(r)
        PROVE  Owed' /\ Pending' /\ WindowBound'
    <3>1. UNCHANGED logVars /\ UNCHANGED storeVars
      BY <2>2 DEF Send, Reply, Unreachable
    <3>2. UNCHANGED <<now, known, next_free>>
      BY <3>1 DEF storeVars
    <3> QED
      BY <1>2, <3>1, <3>2, LogStays
  <2>3. ASSUME NEW k \in Key, Expire(k) PROVE Owed' /\ Pending' /\ WindowBound'
    <3>1. /\ UNCHANGED logVars /\ UNCHANGED <<now, next_free>>
          /\ known' \subseteq known
          /\ \A x \in Key : x \in known /\ x \notin known' => next_free[x] <= now'
      BY <2>3 DEF Expire
    <3> QED
      BY <1>2, <3>1, LogStays
  <2>4. CASE Tick
    <3>1. UNCHANGED logVars /\ UNCHANGED <<known, next_free>> /\ now' \in Nat /\ now <= now'
      BY <1>2, <2>4 DEF Tick
    <3> QED
      BY <3>1, LogStays
  <2>5. CASE UNCHANGED vars
    <3>1. UNCHANGED logVars /\ UNCHANGED <<now, known, next_free>>
      BY <2>5 DEF vars, storeVars
    <3> QED
      BY <1>2, <3>1, LogStays
  <2> QED
    BY <2>1, <2>2, <2>3, <2>4, <2>5 DEF Next
<1> QED
  BY <1>1, <1>3 DEF IInv

-----------------------------------------------------------------------------
(* The theorems.                                                           *)

\* The inductive invariant holds of every behaviour.
THEOREM Invariance == Spec => []IInv
  BY InitIInv, NextIInv, PTL DEF Spec

\* The types hold, and no key is ever owed more than Per.
THEOREM TypeCorrect == Spec => []TypeOK
<1>1. IInv => TypeOK
  BY DEF IInv
<1> QED
  BY <1>1, Invariance, PTL

\* No window of any length lets more requests of a key through than a burst
\* and what its time gives back.
THEOREM Window == Spec => []WindowBound
<1>1. IInv => WindowBound
  BY DEF IInv
<1> QED
  BY <1>1, Invariance, PTL

\* retry_after is exact until another request of the key is allowed.
THEOREM Retry == Spec => []RetryExact
<1>1. IInv => RetryExact
  <2> SUFFICES ASSUME IInv, NEW r \in Request,
                      decision[r] = "refused", Len(grants[KeyOf[r]]) = grantsAt[r]
               PROVE  now >= AllowedAt(KeyOf[r]) <=> now >= retryAt[r]
    BY DEF RetryExact
  <2>1. /\ KeyOf[r] \in Key /\ now \in Nat /\ retryAt[r] \in Int
        /\ next_free[KeyOf[r]] \in Nat
    BY RateLimitAssumption DEF IInv, TypeOK
  <2>2. /\ next_free[KeyOf[r]] = retryAt[r] + Per - Interval
        /\ KeyOf[r] \in known \/ next_free[KeyOf[r]] <= now
    BY DEF IInv, Pending
  <2>3. CASE KeyOf[r] \in known /\ next_free[KeyOf[r]] > now
    BY <2>1, <2>2, <2>3, PerFacts DEF AllowedAt, FullBack
  <2>4. CASE ~(KeyOf[r] \in known /\ next_free[KeyOf[r]] > now)
    <3>1. next_free[KeyOf[r]] <= now /\ FullBack(KeyOf[r]) = now
      BY <2>1, <2>2, <2>4 DEF FullBack
    <3> QED
      BY <2>1, <2>2, <3>1, PerFacts DEF AllowedAt
  <2> QED
    BY <2>3, <2>4
<1> QED
  BY <1>1, Invariance, PTL

-----------------------------------------------------------------------------
(* The token bucket.                                                       *)

\* A step that keeps every key's credit and every decision is a stutter.
LEMMA BucketStays ==
  ASSUME UNCHANGED decision, UNCHANGED now, \A k \in Key : FullBack(k)' = FullBack(k)
  PROVE  UNCHANGED Bucket!vars
<1>1. \A k \in Key : Credit(k)' = Credit(k)
  BY DEF Credit, Per
<1> QED
  BY <1>1 DEF Bucket!vars

\* A decision of the store is the decision of the bucket, and takes as much.
LEMMA BucketDecides ==
  ASSUME TypeOK, NEW r \in Request, decision[r] = "none", UNCHANGED store,
         Refuse(r) \/ Allow(r)
  PROVE  Bucket!Next
<1> DEFINE c == [k \in Key |-> Credit(k)]
<1>1. KeyOf[r] \in Key /\ now \in Nat /\ FullBack(KeyOf[r]) \in Nat
  BY FullBackFacts, RateLimitAssumption DEF TypeOK
<1>2. c[KeyOf[r]] = Per - (FullBack(KeyOf[r]) - now)
  BY <1>1 DEF Credit
<1>3. CASE Refuse(r)
  <2>1. c[KeyOf[r]] < Interval
    BY <1>1, <1>2, <1>3, PerFacts DEF Refuse, AllowedAt
  <2>2. \A k \in Key : Credit(k)' = Credit(k)
    BY <1>3 DEF Refuse, storeVars, Credit, FullBack, Per
  <2>3. UNCHANGED c
    BY <2>2
  <2>4. Bucket!Refuse(r)
    BY <1>3, <2>1, <2>3 DEF Refuse, Bucket!Refuse
  <2> QED
    BY <2>4 DEF Bucket!Next
<1>4. CASE Allow(r)
  <2>1. /\ now' = now
        /\ FullBack(KeyOf[r])' = FullBack(KeyOf[r]) + Interval
        /\ \A k \in Key \ {KeyOf[r]} : FullBack(k)' = FullBack(k)
    BY <1>4, AllowedFacts
  <2>2. c[KeyOf[r]] >= Interval
    BY <1>1, <1>2, <1>4, PerFacts DEF Allow, AllowedAt
  <2>3. \A k \in Key \ {KeyOf[r]} : Credit(k)' = Credit(k)
    BY <2>1 DEF Credit, Per
  <2>4. Credit(KeyOf[r])' = Per - ((FullBack(KeyOf[r]) + Interval) - now)
    BY <2>1 DEF Credit, Per
  <2>5. Credit(KeyOf[r])' = c[KeyOf[r]] - Interval
    BY <1>1, <1>2, <2>4, PerFacts
  <2>6. c' = [c EXCEPT ![KeyOf[r]] = c[KeyOf[r]] - Interval]
    BY <2>3, <2>5
  <2>7. Bucket!Allow(r)
    BY <1>4, <2>2, <2>6 DEF Allow, Bucket!Allow
  <2> QED
    BY <2>7 DEF Bucket!Next
<1> QED
  BY <1>3, <1>4

\* Time fills the buckets, up to Per.
LEMMA BucketTicks ==
  ASSUME TypeOK, Tick
  PROVE  Bucket!Tick
<1> DEFINE c == [k \in Key |-> Credit(k)]
<1>1. now' = now + 1 /\ now \in Nat /\ UNCHANGED <<known, next_free, decision>>
  BY DEF Tick, TypeOK, logVars
<1>2. ASSUME NEW k \in Key
      PROVE  Credit(k)' = IF Credit(k) < Per THEN Credit(k) + 1 ELSE Per
  <2>1. next_free[k] \in Nat /\ Per \in Nat
    BY PerFacts DEF TypeOK
  <2>2. Credit(k)' = Per - (FullBack(k)' - now')
    BY DEF Credit, Per
  <2>3. CASE k \in known /\ next_free[k] > now
    <3>1. FullBack(k) = next_free[k] /\ FullBack(k)' = next_free[k]
      BY <1>1, <2>1, <2>3 DEF FullBack
    <3> QED
      BY <1>1, <2>1, <2>2, <2>3, <3>1 DEF Credit
  <2>4. CASE ~(k \in known /\ next_free[k] > now)
    <3>1. FullBack(k) = now /\ FullBack(k)' = now'
      BY <1>1, <2>1, <2>4 DEF FullBack
    <3> QED
      BY <1>1, <2>1, <2>2, <3>1 DEF Credit
  <2> QED
    BY <2>3, <2>4
<1>3. c' = [k \in Key |-> IF c[k] < Per THEN c[k] + 1 ELSE Per]
  BY <1>2
<1> QED
  BY <1>1, <1>3 DEF Bucket!Tick

\* Both stores, for all that the timestamps are forgotten, expire and are
\* decided on behind the request's back, are a token bucket.
THEOREM Implements == Spec => ImplementsBucket
<1>1. Init => Bucket!Init
  BY PerFacts DEF Init, Bucket!Init, Credit, FullBack
<1>2. IInv /\ [Next]_vars => [Bucket!Next]_(Bucket!vars)
  <2> SUFFICES ASSUME IInv, [Next]_vars PROVE Bucket!Next \/ UNCHANGED Bucket!vars
    OBVIOUS
  <2> USE DEF IInv
  <2>1. ASSUME NEW r \in Request, Hit(r) \/ Execute(r) PROVE Bucket!Next
    <3>1. /\ UNCHANGED store /\ (Refuse(r) \/ Allow(r))
          /\ decision[r] = "none"
      BY <2>1 DEF Hit, Execute, Decided
    <3> QED
      BY <3>1, BucketDecides
  <2>2. ASSUME NEW r \in Request, Send(r) \/ Reply(r) \/ Unreachable(r)
        PROVE  UNCHANGED Bucket!vars
    <3>1. UNCHANGED <<now, known, next_free, decision>>
      BY <2>2 DEF Send, Reply, Unreachable, storeVars, logVars
    <3>2. \A k \in Key : FullBack(k)' = FullBack(k)
      BY <3>1 DEF FullBack
    <3> QED
      BY <3>1, <3>2, BucketStays
  <2>3. ASSUME NEW x \in Key, Expire(x) PROVE UNCHANGED Bucket!vars
    <3>1. UNCHANGED <<now, next_free, decision>> /\ known' = known \ {x} /\ next_free[x] <= now
      BY <2>3 DEF Expire, logVars
    <3>2. \A k \in Key : FullBack(k)' = FullBack(k)
      BY <3>1 DEF FullBack, TypeOK
    <3> QED
      BY <3>1, <3>2, BucketStays
  <2>4. CASE Tick
    BY <2>4, BucketTicks DEF Bucket!Next
  <2>5. CASE UNCHANGED vars
    <3>1. UNCHANGED <<now, known, next_free, decision>>
      BY <2>5 DEF vars, storeVars, logVars
    <3>2. \A k \in Key : FullBack(k)' = FullBack(k)
      BY <3>1 DEF FullBack
    <3> QED
      BY <3>1, <3>2, BucketStays
  <2> QED
    BY <2>1, <2>2, <2>3, <2>4, <2>5 DEF Next
<1> QED
  BY <1>1, <1>2, Invariance, PTL DEF Spec, ImplementsBucket, Bucket!Spec
=============================================================================
