------------------------- MODULE RequestLimitProofs -------------------------
(***************************************************************************)
(* Proofs about the three places where requests are limited: the API rate  *)
(* limiter (RateLimiter) for every number of requests, every limit and     *)
(* every schedule; the guard of the vendor requests (VendorGuard) for      *)
(* every number of slots, every limit, window, budget and number of        *)
(* attempts; and the acquisition campaign (Campaign), whose ledger and     *)
(* database rows ration the vendor's calls, for every number of operators, *)
(* windows, calls, grants and faults.                                      *)
(***************************************************************************)
EXTENDS RateLimiter, VendorGuard, Campaign, FiniteSetTheorems, SequenceTheorems,
        WellFoundedInduction, TLAPS

-----------------------------------------------------------------------------
(* The API rate limiter.                                                   *)

\* A request that waits hit a window its host could have chosen, and gives up
\* before that window's counter can have expired.
WaitInv ==
  \A r \in Requests :
    /\ pc[r] \in {"idle", "sent"} => reply[r] = "none"
    /\ pc[r] # "idle" => /\ bucket[r] \in Buckets
                         /\ bucket[r][1] = IdentityFor(r)
                         /\ bucket[r][2] <= clock + MaxSkew
    /\ pc[r] = "sent" => clock <= due[r] /\ due[r] < bucket[r][2] + Window + MaxDelay

\* A counter outlives every request of its window.
ExpiryInv ==
  \A b \in Buckets : counts[b] # 0 => b[2] - MaxSkew + 2 * Window <= expiries[b]

\* The requests admitted under a bucket.
Admitted(b) == {r \in Requests : reply[r] = "ok" /\ bucket[r] = b}

\* They are all counted, until nobody can hit the bucket any more.
CountInv ==
  \A b \in Buckets :
    /\ Cardinality(Admitted(b)) <= Limit
    /\ clock < b[2] - MaxSkew + 2 * Window => Cardinality(Admitted(b)) <= counts[b]

IInv == TypeOK /\ WaitInv /\ ExpiryInv /\ CountInv

-----------------------------------------------------------------------------
\* A window begins at or before each of its instants and ends after it.
LEMMA WindowBounds ==
  ASSUME NEW n \in Nat
  PROVE  /\ WindowStart(n) \in Nat
         /\ WindowStart(n) <= n /\ n < WindowStart(n) + Window
BY RateAssumption DEF WindowStart

\* The sets that are counted are finite.
LEMMA AdmittedFinite ==
  ASSUME NEW b
  PROVE  IsFiniteSet(Admitted(b)) /\ Cardinality(Admitted(b)) \in Nat
<1>1. IsFiniteSet(Admitted(b))
  BY FS_Subset, RateAssumption DEF Admitted
<1> QED  BY <1>1, FS_CardinalityType

\* A bucket is an identity and an instant.
LEMMA BucketInstant ==
  ASSUME NEW b \in Buckets
  PROVE  b[2] \in Nat
BY RateAssumption DEF Buckets, Instants

\* Initially no request has been counted.
LEMMA InitInv == Init => IInv
<1> SUFFICES ASSUME Init PROVE IInv
  OBVIOUS
<1>1. TypeOK
  BY RateAssumption DEF Init, TypeOK
<1>2. WaitInv /\ ExpiryInv
  BY DEF Init, WaitInv, ExpiryInv
<1>3. \A b : Admitted(b) = {}
  BY DEF Init, Admitted
<1>4. \A b : Cardinality(Admitted(b)) = 0
  BY <1>3, FS_EmptySet
<1>5. CountInv
  BY <1>4, RateAssumption DEF Init, CountInv
<1> QED  BY <1>1, <1>2, <1>5 DEF IInv

\* A hit chooses a bucket and counts nothing.
LEMMA HitPreserves ==
  ASSUME IInv, NEW r \in Requests, Hit(r)
  PROVE  IInv'
<1> USE DEF IInv
<1>1. PICK skew \in 0..MaxSkew :
        bucket' = [bucket EXCEPT ![r] = <<IdentityFor(r), WindowStart(clock + skew)>>]
  BY DEF Hit
<1> DEFINE w == WindowStart(clock + skew)
<1>2. /\ clock \in Nat /\ clock <= MaxTime /\ skew \in Nat /\ skew <= MaxSkew
      /\ MaxTime \in Nat /\ MaxSkew \in Nat /\ MaxDelay \in Nat /\ Window \in Nat
  BY RateAssumption DEF TypeOK
<1>3. w \in Nat /\ w <= clock + skew /\ clock + skew < w + Window
  BY <1>2, WindowBounds
<1>4. <<IdentityFor(r), w>> \in Buckets
  BY <1>2, <1>3 DEF Buckets, Identities, Instants
<1> HIDE DEF w
<1>5. TypeOK'
  BY <1>1, <1>2, <1>4 DEF TypeOK, Hit, w
<1>6. WaitInv'
  BY <1>1, <1>2, <1>3, <1>4 DEF TypeOK, WaitInv, Hit, w
<1>7. ExpiryInv'
  BY DEF ExpiryInv, Hit
<1>8. \A b : Admitted(b)' = Admitted(b)
  BY DEF Admitted, Hit, WaitInv, TypeOK
<1>9. CountInv'
  BY <1>8 DEF CountInv, Hit
<1> QED  BY <1>5, <1>6, <1>7, <1>9

\* The script increments a counter and never shortens its life.
LEMMA ScriptPreserves ==
  ASSUME TypeOK, ExpiryInv, NEW b \in Buckets, IncrementScript(b), UNCHANGED clock,
         b[2] <= clock + MaxSkew
  PROVE  /\ counts' \in [Buckets -> Nat] /\ expiries' \in [Buckets -> Nat]
         /\ ExpiryInv'
         /\ counts' = [counts EXCEPT ![b] = counts[b] + 1]
<1>1. /\ clock \in Nat /\ counts[b] \in Nat /\ b[2] \in Nat
      /\ Window \in Nat /\ MaxSkew \in Nat
  BY BucketInstant, RateAssumption DEF TypeOK
<1> QED  BY <1>1 DEF TypeOK, ExpiryInv, IncrementScript

\* An answer in time is counted before it is admitted.
LEMMA IncrementPreserves ==
  ASSUME IInv, NEW r \in Requests, Increment(r)
  PROVE  IInv'
<1> USE DEF IInv
<1> DEFINE b == bucket[r]
           n == counts[b] + 1
<1>1. /\ pc[r] = "sent" /\ b \in Buckets /\ reply[r] = "none"
      /\ b[2] <= clock + MaxSkew
      /\ clock <= due[r] /\ due[r] < b[2] + Window + MaxDelay
  BY DEF Increment, WaitInv
<1>2. /\ clock \in Nat /\ due[r] \in Nat /\ b[2] \in Nat /\ counts[b] \in Nat
      /\ Window \in Nat /\ MaxSkew \in Nat /\ MaxDelay \in Nat /\ Limit \in Nat
      /\ MaxDelay + MaxSkew <= Window
  BY <1>1, BucketInstant, RateAssumption DEF TypeOK
<1>3. clock < b[2] - MaxSkew + 2 * Window
  BY <1>1, <1>2
<1>4. Cardinality(Admitted(b)) <= counts[b]
  BY <1>1, <1>3 DEF CountInv
<1> HIDE DEF b, n
<1>5. IncrementScript(b) /\ UNCHANGED <<clock, bucket>>
      /\ reply' = [reply EXCEPT ![r] = Decision(n)] /\ pc' = [pc EXCEPT ![r] = "done"]
      /\ due' = [due EXCEPT ![r] = 0]
  BY DEF Increment, Finish, Reply, b, n
<1>6. /\ counts' \in [Buckets -> Nat] /\ expiries' \in [Buckets -> Nat] /\ ExpiryInv'
      /\ counts' = [counts EXCEPT ![b] = counts[b] + 1]
  BY <1>1, <1>5, ScriptPreserves
<1>7. TypeOK'
  BY <1>5, <1>6, RateAssumption DEF TypeOK, Decision
<1>8. WaitInv'
  <2> SUFFICES ASSUME NEW q \in Requests PROVE
        /\ pc'[q] \in {"idle", "sent"} => reply'[q] = "none"
        /\ pc'[q] # "idle" => /\ bucket[q] \in Buckets
                              /\ bucket[q][1] = IdentityFor(q)
                              /\ bucket[q][2] <= clock + MaxSkew
        /\ pc'[q] = "sent" => clock <= due'[q] /\ due'[q] < bucket[q][2] + Window + MaxDelay
    BY <1>5 DEF WaitInv
  <2>1. CASE q = r
    BY <1>1, <1>5, <2>1 DEF WaitInv, TypeOK, b
  <2>2. CASE q # r
    BY <1>5, <2>2 DEF WaitInv, TypeOK
  <2> QED  BY <2>1, <2>2
<1>9. CountInv'
  <2> SUFFICES ASSUME NEW c \in Buckets
               PROVE  /\ Cardinality(Admitted(c)') <= Limit
                      /\ clock < c[2] - MaxSkew + 2 * Window => Cardinality(Admitted(c)') <= counts'[c]
    BY <1>5 DEF CountInv
  <2>1. Cardinality(Admitted(c)) \in Nat /\ counts[c] \in Nat
    BY AdmittedFinite DEF TypeOK
  <2>2. CASE c # b \/ Decision(n) # "ok"
    <3>1. Admitted(c)' = Admitted(c)
      BY <1>1, <1>5, <2>2 DEF Admitted, TypeOK, b
    <3>2. counts'[c] \in {counts[c], counts[c] + 1}
      BY <1>1, <1>6 DEF TypeOK
    <3> QED  BY <1>2, <2>1, <3>1, <3>2 DEF CountInv
  <2>3. CASE c = b /\ Decision(n) = "ok"
    <3>1. n <= Limit
      BY <2>3 DEF Decision
    <3>2. Admitted(c)' = Admitted(c) \cup {r} /\ r \notin Admitted(c)
      BY <1>1, <1>5, <2>3 DEF Admitted, TypeOK, b
    <3>3. Cardinality(Admitted(c)') = Cardinality(Admitted(c)) + 1
      BY <3>2, AdmittedFinite, FS_AddElement
    <3>4. counts'[c] = n
      BY <1>1, <1>6, <2>3 DEF TypeOK, n
    <3> QED  BY <1>2, <1>4, <2>1, <2>3, <3>1, <3>3, <3>4 DEF n
  <2> QED  BY <2>2, <2>3
<1> QED  BY <1>6, <1>7, <1>8, <1>9

\* A failure admits nobody under quota.
LEMMA StoreFailsPreserves ==
  ASSUME IInv, NEW r \in Requests, StoreFails(r)
  PROVE  IInv'
<1> USE DEF IInv
<1>1. /\ pc[r] = "sent" /\ UNCHANGED <<clock, bucket, counts, expiries>>
      /\ \E s \in {"orphan", "done"} : pc' = [pc EXCEPT ![r] = s]
      /\ due' = [due EXCEPT ![r] = 0]
      /\ \E a \in {"unmetered", "unavailable"} : reply' = [reply EXCEPT ![r] = a]
  BY DEF StoreFails, Finish, Outage, Reply
<1>2. TypeOK'
  BY <1>1, RateAssumption DEF TypeOK
<1>3. WaitInv' /\ ExpiryInv'
  BY <1>1 DEF WaitInv, ExpiryInv, TypeOK
<1>4. \A b : Admitted(b)' = Admitted(b)
  BY <1>1 DEF Admitted, WaitInv, TypeOK
<1>5. CountInv'
  BY <1>1, <1>4 DEF CountInv
<1> QED  BY <1>2, <1>3, <1>5

\* A command executed for nobody only raises a counter.
LEMMA LateIncrementPreserves ==
  ASSUME IInv, NEW r \in Requests, LateIncrement(r)
  PROVE  IInv'
<1> USE DEF IInv
<1> DEFINE b == bucket[r]
<1>1. /\ pc[r] = "orphan" /\ b \in Buckets /\ b[2] <= clock + MaxSkew
      /\ IncrementScript(b) /\ UNCHANGED <<clock, bucket, reply>>
      /\ pc' = [pc EXCEPT ![r] = "done"] /\ due' = [due EXCEPT ![r] = 0]
  BY DEF LateIncrement, Finish, WaitInv
<1> HIDE DEF b
<1>2. /\ counts' \in [Buckets -> Nat] /\ expiries' \in [Buckets -> Nat] /\ ExpiryInv'
      /\ counts' = [counts EXCEPT ![b] = counts[b] + 1]
  BY <1>1, ScriptPreserves
<1>3. TypeOK'
  BY <1>1, <1>2, RateAssumption DEF TypeOK
<1>4. WaitInv'
  BY <1>1 DEF WaitInv, TypeOK
<1>5. \A c : Admitted(c)' = Admitted(c)
  BY <1>1 DEF Admitted
<1>6. \A c \in Buckets : counts[c] \in Nat /\ counts'[c] \in {counts[c], counts[c] + 1}
  BY <1>1, <1>2 DEF TypeOK
<1>7. CountInv'
  <2> SUFFICES ASSUME NEW c \in Buckets
               PROVE  /\ Cardinality(Admitted(c)) <= Limit
                      /\ clock < c[2] - MaxSkew + 2 * Window => Cardinality(Admitted(c)) <= counts'[c]
    BY <1>1, <1>5 DEF CountInv
  <2> QED  BY <1>6, AdmittedFinite DEF CountInv
<1> QED  BY <1>2, <1>3, <1>4, <1>7

\* A counter disappears only when its bucket can no longer be hit.
LEMMA TickPreserves ==
  ASSUME IInv, Tick
  PROVE  IInv'
<1> USE DEF IInv
<1>1. /\ clock \in Nat /\ clock' = clock + 1 /\ clock < MaxTime /\ MaxTime \in Nat
      /\ Window \in Nat /\ MaxSkew \in Nat /\ MaxDelay \in Nat
      /\ UNCHANGED <<pc, bucket, due, reply>>
  BY RateAssumption DEF Tick, TypeOK
<1>2. TypeOK'
  BY <1>1 DEF Tick, TypeOK
<1>3. WaitInv'
  <2> SUFFICES ASSUME NEW r \in Requests, pc[r] # "idle"
               PROVE  /\ bucket[r][2] <= clock + 1 + MaxSkew
                      /\ pc[r] = "sent" => clock + 1 <= due[r]
    BY <1>1 DEF WaitInv
  <2>1. bucket[r] \in Buckets /\ bucket[r][2] <= clock + MaxSkew /\ bucket[r][2] \in Nat
    BY BucketInstant DEF WaitInv
  <2>2. due[r] \in Nat
    BY RateAssumption DEF TypeOK
  <2> QED  BY <1>1, <2>1, <2>2 DEF Tick
<1>4. ExpiryInv'
  BY DEF Tick, ExpiryInv
<1>5. \A c : Admitted(c)' = Admitted(c)
  BY <1>1 DEF Admitted
<1>6. CountInv'
  <2> SUFFICES ASSUME NEW c \in Buckets, clock + 1 < c[2] - MaxSkew + 2 * Window
               PROVE  Cardinality(Admitted(c)) <= counts'[c]
    BY <1>1, <1>5 DEF CountInv
  <2>1. /\ c[2] \in Nat /\ counts[c] \in Nat /\ expiries[c] \in Nat
        /\ Cardinality(Admitted(c)) \in Nat
    BY BucketInstant, AdmittedFinite DEF TypeOK
  <2>2. Cardinality(Admitted(c)) <= counts[c]
    BY <1>1, <2>1 DEF CountInv
  <2>3. CASE counts[c] = 0
    BY <2>2, <2>3 DEF Tick, Alive
  <2>4. CASE counts[c] # 0
    <3>1. clock + 1 < expiries[c]
      BY <1>1, <2>1, <2>4 DEF ExpiryInv
    <3> QED  BY <2>2, <2>4, <3>1 DEF Tick, Alive
  <2> QED  BY <2>3, <2>4
<1> QED  BY <1>2, <1>3, <1>4, <1>6

\* The inductive invariant: counters outlive the requests of their window, and
\* count every admitted one as long as the window can still be hit.
THEOREM InvariantHolds == Spec => []IInv
<1>1. IInv /\ [Next]_vars => IInv'
  <2> SUFFICES ASSUME IInv, [Next]_vars PROVE IInv'
    OBVIOUS
  <2>1. CASE UNCHANGED vars
    BY <2>1 DEF vars, IInv, TypeOK, WaitInv, ExpiryInv, CountInv, Admitted
  <2>2. CASE Next
    BY <2>2, HitPreserves, IncrementPreserves, StoreFailsPreserves, LateIncrementPreserves,
       TickPreserves DEF Next
  <2> QED  BY <2>1, <2>2
<1> QED  BY <1>1, InitInv, PTL DEF Spec

\* Type correctness of the limiter.
THEOREM TypeCorrect == Spec => []TypeOK
<1>1. IInv => TypeOK  BY DEF IInv
<1> QED  BY <1>1, InvariantHolds, PTL

\* No window admits more requests than the limit, for a valid key or for an
\* address without one, whenever delay and skew together fit into one window:
\* that is what doubling the counter's ttl in hit() buys.
THEOREM QuotaIsKept == Spec => []QuotaPerWindow
<1>1. ASSUME IInv, NEW S, S \subseteq {r \in Requests : reply[r] = "ok"},
             \A q, r \in S : bucket[q] = bucket[r]
      PROVE  Cardinality(S) <= Limit
  <2>1. CASE S = {}
    BY <2>1, FS_EmptySet, RateAssumption
  <2>2. CASE S # {}
    <3>1. PICK r \in S : TRUE
      BY <2>2
    <3>2. bucket[r] \in Buckets
      BY <1>1, <3>1 DEF IInv, WaitInv
    <3>3. S \subseteq Admitted(bucket[r])
      BY <1>1, <3>1 DEF Admitted
    <3>4. Cardinality(S) <= Cardinality(Admitted(bucket[r])) /\ IsFiniteSet(S)
      BY <3>3, AdmittedFinite, FS_Subset
    <3>5. Cardinality(Admitted(bucket[r])) <= Limit
      BY <1>1, <3>2 DEF IInv, CountInv
    <3>6. Cardinality(S) \in Nat /\ Cardinality(Admitted(bucket[r])) \in Nat /\ Limit \in Nat
      BY <3>4, AdmittedFinite, FS_CardinalityType, RateAssumption
    <3> QED  BY <3>4, <3>5, <3>6
  <2> QED  BY <2>1, <2>2
<1>2. ASSUME IInv, NEW r \in Requests, NEW q \in Requests, reply[r] = "ok", reply[q] = "ok",
             Window_(r) = Window_(q), IdentityFor(r) = IdentityFor(q)
      PROVE  bucket[r] = bucket[q]
  <2>1. /\ bucket[r] \in Identities \X Instants /\ bucket[r][1] = IdentityFor(r)
        /\ bucket[q] \in Identities \X Instants /\ bucket[q][1] = IdentityFor(q)
    BY <1>2 DEF IInv, TypeOK, WaitInv, Buckets
  <2>2. bucket[r][2] = bucket[q][2]
    BY <1>2 DEF Window_
  <2> QED  BY <1>2, <2>1, <2>2
<1>3. IInv => QuotaPerWindow
  <2> SUFFICES ASSUME IInv, NEW w \in Instants PROVE
        /\ \A k \in ValidKeys : Cardinality(AdmittedByKey(k, w)) <= Limit
        /\ \A a \in {ClientIp(r) : r \in Requests} : Cardinality(AdmittedByIp(a, w)) <= Limit
    BY DEF QuotaPerWindow
  <2>1. ASSUME NEW k \in ValidKeys PROVE Cardinality(AdmittedByKey(k, w)) <= Limit
    <3>1. \A q, r \in AdmittedByKey(k, w) : bucket[q] = bucket[r]
      BY <1>2 DEF AdmittedByKey, IdentityFor
    <3> QED  BY <1>1, <3>1 DEF AdmittedByKey
  <2>2. ASSUME NEW a PROVE Cardinality(AdmittedByIp(a, w)) <= Limit
    <3>1. \A q, r \in AdmittedByIp(a, w) : bucket[q] = bucket[r]
      BY <1>2 DEF AdmittedByIp, IdentityFor
    <3> QED  BY <1>1, <3>1 DEF AdmittedByIp
  <2> QED  BY <2>1, <2>2
<1> QED  BY <1>3, InvariantHolds, PTL

-----------------------------------------------------------------------------
\* The requests whose command the store has executed, at most.
Executed(b) == {q \in Requests : pc[q] = "done" /\ bucket[q] = b}

\* A counter never runs ahead of the requests that hit it: every increment ends
\* a request, and no command is executed twice.
SpentInv == \A b \in Buckets : counts[b] <= Cardinality(Executed(b))

\* The others that hit the quota of r in its window.
Others(r) == {q \in Requests \ {r} : pc[q] # "idle" /\ bucket[q] = bucket[r]}

LEMMA ExecutedFinite ==
  ASSUME NEW b
  PROVE  IsFiniteSet(Executed(b)) /\ Cardinality(Executed(b)) \in Nat
<1>1. IsFiniteSet(Executed(b))
  BY FS_Subset, RateAssumption DEF Executed
<1> QED  BY <1>1, FS_CardinalityType

LEMMA OthersFinite ==
  ASSUME NEW r
  PROVE  IsFiniteSet(Others(r)) /\ Cardinality(Others(r)) \in Nat
<1>1. IsFiniteSet(Others(r))
  BY FS_Subset, RateAssumption DEF Others
<1> QED  BY <1>1, FS_CardinalityType

\* A request leaves "sent" or "orphan" for "done" and raises its counter by one.
LEMMA ExecutedGrows ==
  ASSUME IInv, SpentInv, NEW r \in Requests, pc[r] \in {"sent", "orphan"},
         pc' = [pc EXCEPT ![r] = "done"], UNCHANGED bucket,
         counts' = [counts EXCEPT ![bucket[r]] = counts[bucket[r]] + 1]
  PROVE  SpentInv'
<1> DEFINE b == bucket[r]
<1>1. b \in Buckets /\ \A c \in Buckets : counts[c] \in Nat
  BY DEF IInv, WaitInv, TypeOK
<1>2. SUFFICES ASSUME NEW c \in Buckets
               PROVE  counts'[c] <= Cardinality(Executed(c)')
  BY DEF SpentInv
<1>3. counts[c] <= Cardinality(Executed(c)) /\ Cardinality(Executed(c)) \in Nat
  BY ExecutedFinite DEF SpentInv
<1>4. CASE c = b
  <2>1. Executed(c)' = Executed(c) \cup {r} /\ r \notin Executed(c)
    BY <1>4 DEF Executed, IInv, TypeOK
  <2>2. Cardinality(Executed(c)') = Cardinality(Executed(c)) + 1
    BY <2>1, ExecutedFinite, FS_AddElement
  <2>3. counts'[c] = counts[c] + 1
    BY <1>1, <1>4 DEF IInv, TypeOK
  <2> QED  BY <1>1, <1>3, <2>2, <2>3
<1>5. CASE c # b
  <2>1. Executed(c)' = Executed(c)
    BY <1>5 DEF Executed, IInv, TypeOK
  <2>2. counts'[c] = counts[c]
    BY <1>5 DEF IInv, TypeOK
  <2> QED  BY <1>3, <2>1, <2>2
<1> QED  BY <1>4, <1>5

\* Nobody leaves the others of a request: what has hit stays.
LEMMA OthersGrow ==
  ASSUME IInv, [Next]_vars, NEW r \in Requests, pc[r] # "idle"
  PROVE  Cardinality(Others(r)) <= Cardinality(Others(r)')
<1>1. \A q \in Requests : pc[q] # "idle" => pc'[q] # "idle" /\ bucket'[q] = bucket[q]
  BY DEF IInv, TypeOK, Next, Hit, Increment, StoreFails, LateIncrement, Tick, Finish, vars
<1>2. Others(r) \subseteq Others(r)'
  BY <1>1 DEF Others
<1>3. IsFiniteSet(Others(r)')
  BY FS_Subset, RateAssumption DEF Others
<1> QED  BY <1>2, <1>3, FS_Subset

\* A request is refused with 429 only when as many others as the limit allows
\* hit the same quota in the same window: increments, late ones included, never
\* exceed hits (RateLimitDecision.allowed over _REDIS_INCREMENT_SCRIPT).
THEOREM RefusalsAreDue == Spec => []RefusedOnlyAtLimit
<1>1. Init => SpentInv /\ RefusedOnlyAtLimit
  <2> SUFFICES ASSUME Init PROVE SpentInv /\ RefusedOnlyAtLimit
    OBVIOUS
  <2>1. \A b \in Buckets : counts[b] = 0
    BY DEF Init
  <2> QED  BY <2>1, ExecutedFinite DEF Init, SpentInv, RefusedOnlyAtLimit
<1>2. IInv /\ SpentInv /\ RefusedOnlyAtLimit /\ [Next]_vars => SpentInv' /\ RefusedOnlyAtLimit'
  <2> SUFFICES ASSUME IInv, SpentInv, RefusedOnlyAtLimit, [Next]_vars
               PROVE  SpentInv' /\ RefusedOnlyAtLimit'
    OBVIOUS
  <2>1. SpentInv'
    <3>1. ASSUME NEW r \in Requests, Hit(r) PROVE SpentInv'
      <4>1. \A b : Executed(b)' = Executed(b)
        BY <3>1 DEF Executed, Hit, IInv, TypeOK
      <4> QED  BY <3>1, <4>1 DEF SpentInv, Hit
    <3>2. ASSUME NEW r \in Requests, Increment(r) \/ LateIncrement(r) PROVE SpentInv'
      <4>1. /\ pc[r] \in {"sent", "orphan"} /\ pc' = [pc EXCEPT ![r] = "done"] /\ bucket' = bucket
            /\ counts' = [counts EXCEPT ![bucket[r]] = counts[bucket[r]] + 1]
        BY <3>2 DEF Increment, LateIncrement, Finish, IncrementScript
      <4> QED  BY <4>1, ExecutedGrows
    <3>3. ASSUME NEW r \in Requests, StoreFails(r) PROVE SpentInv'
      <4>1. \A b : Executed(b) \subseteq Executed(b)' /\ IsFiniteSet(Executed(b)')
        BY <3>3, FS_Subset, RateAssumption DEF Executed, StoreFails, Finish, IInv, TypeOK
      <4>2. \A b : Cardinality(Executed(b)) <= Cardinality(Executed(b)')
        BY <4>1, FS_Subset
      <4>3. \A b : Cardinality(Executed(b)') \in Nat
        BY <4>1, FS_CardinalityType
      <4>4. counts' = counts /\ \A b \in Buckets : counts[b] \in Nat
        BY <3>3 DEF StoreFails, IInv, TypeOK
      <4> QED  BY <4>2, <4>3, <4>4, ExecutedFinite DEF SpentInv
    <3>4. CASE Tick
      <4>1. \A b : Executed(b)' = Executed(b)
        BY <3>4 DEF Executed, Tick
      <4>2. \A b \in Buckets : counts'[b] \in {counts[b], 0}
        BY <3>4 DEF Tick
      <4> QED  BY <4>1, <4>2, ExecutedFinite DEF SpentInv
    <3>5. CASE UNCHANGED vars
      BY <3>5 DEF vars, SpentInv, Executed
    <3> QED  BY <3>1, <3>2, <3>3, <3>4, <3>5 DEF Next
  <2>2. ASSUME NEW r \in Requests, reply'[r] = "limited"
        PROVE  Cardinality(Others(r)') >= Limit
    <3>1. CASE reply[r] = "limited"
      <4>1. pc[r] # "idle" /\ Cardinality(Others(r)) >= Limit
        BY <3>1 DEF RefusedOnlyAtLimit, Others, IInv, WaitInv
      <4>2. Cardinality(Others(r)) <= Cardinality(Others(r)')
        BY <4>1, OthersGrow
      <4>3. IsFiniteSet(Others(r)')
        BY FS_Subset, RateAssumption DEF Others
      <4>4. Cardinality(Others(r)') \in Nat /\ Limit \in Nat
        BY <4>3, FS_CardinalityType, RateAssumption
      <4> QED  BY <4>1, <4>2, <4>4, OthersFinite
    <3>2. CASE reply[r] # "limited"
      <4>1. Increment(r)
        BY <2>2, <3>2 DEF Next, Hit, Increment, StoreFails, LateIncrement, Tick, Reply, Outage, vars, IInv, TypeOK
      <4>2. pc[r] = "sent" /\ counts[bucket[r]] + 1 > Limit /\ bucket[r] \in Buckets
        <5>1. reply' = [reply EXCEPT ![r] = Decision(counts[bucket[r]] + 1)] /\ pc[r] = "sent"
          BY <4>1 DEF Increment, Reply
        <5>2. Decision(counts[bucket[r]] + 1) = "limited"
          BY <2>2, <5>1 DEF IInv, TypeOK
        <5>3. bucket[r] \in Buckets
          BY <5>1 DEF IInv, WaitInv
        <5>4. counts[bucket[r]] \in Nat /\ Limit \in Nat
          BY <5>3, RateAssumption DEF IInv, TypeOK
        <5> QED  BY <5>1, <5>2, <5>3, <5>4 DEF Decision
      <4>3. Executed(bucket[r]) \subseteq Others(r)
        BY <4>2 DEF Executed, Others
      <4>4. Cardinality(Executed(bucket[r])) <= Cardinality(Others(r))
        BY <4>3, OthersFinite, FS_Subset
      <4>5. Cardinality(Others(r)) <= Cardinality(Others(r)')
        BY <4>2, OthersGrow
      <4>6. counts[bucket[r]] <= Cardinality(Executed(bucket[r])) /\ counts[bucket[r]] \in Nat /\ Limit \in Nat
        BY <4>2, RateAssumption DEF SpentInv, IInv, TypeOK
      <4>7. IsFiniteSet(Others(r)')
        BY FS_Subset, RateAssumption DEF Others
      <4>8. Cardinality(Others(r)') \in Nat
        BY <4>7, FS_CardinalityType
      <4> QED  BY <4>2, <4>4, <4>5, <4>6, <4>8, OthersFinite, ExecutedFinite
    <3> QED  BY <3>1, <3>2
  <2>3. RefusedOnlyAtLimit'
    BY <2>2 DEF RefusedOnlyAtLimit, Others
  <2> QED  BY <2>1, <2>3
<1> QED  BY <1>1, <1>2, InvariantHolds, PTL DEF Spec

-----------------------------------------------------------------------------
(* The guard of the vendor requests.                                       *)

\* Every HTTP attempt was charged: the counter of the guard is the number of
\* attempts, so the test before a charge protects the budget.
Charged == sent = spent

\* Only a request whose last attempt is under way has used all of them.
AttemptsLeft == \A r \in Slots : phase[r] # "http" => attempt[r] < MaxAttempts

GuardInv == GuardTypeOK /\ Charged /\ AttemptsLeft /\ SleepsWithinWindow

-----------------------------------------------------------------------------
\* The guard starts with nothing spent and nobody asleep.
LEMMA GuardInitInv == GuardInit => GuardInv
BY GuardAssumption DEF GuardInit, GuardInv, GuardTypeOK, Charged, AttemptsLeft, SleepsWithinWindow, Ages

\* What a pass of acquire() finds is of the right type.
LEMMA PassType ==
  ASSUME GuardTypeOK
  PROVE  /\ WindowCount \in 0..MaxCalls
         /\ WindowAge \in 0..WindowLength /\ (~WindowOver => WindowAge = age)
BY GuardAssumption DEF GuardTypeOK, WindowCount, WindowAge, WindowOver

\* A pass leaves an admitted or refused caller awake, and starts a new window
\* only when nobody can sleep past the old one.
LEMMA PassKeepsSleep ==
  ASSUME GuardInv, NEW r \in Slots, NEW s \in {"idle", "http"},
         age' \in {age, WindowAge}, left' = left, phase' = [phase EXCEPT ![r] = s]
  PROVE  SleepsWithinWindow'
<1> SUFFICES ASSUME NEW q \in Slots, phase'[q] = "asleep", left'[q] > 0
             PROVE  left'[q] <= WindowLength - age'
  BY DEF SleepsWithinWindow
<1>1. phase[q] = "asleep" /\ left[q] <= WindowLength - age
  BY DEF GuardInv, GuardTypeOK, SleepsWithinWindow
<1>2. left[q] \in Nat /\ age \in 0..WindowLength
  BY DEF GuardInv, GuardTypeOK
<1>3. ~WindowOver
  BY <1>1, <1>2, GuardAssumption DEF WindowOver
<1> QED  BY <1>1, <1>3 DEF WindowAge

\* Every step preserves the invariant.
LEMMA GuardNextInv == GuardInv /\ [GuardNext]_guardVars => GuardInv'
<1> SUFFICES ASSUME GuardInv, [GuardNext]_guardVars PROVE GuardInv'
  OBVIOUS
<1> USE GuardAssumption
<1>t. GuardTypeOK
  BY DEF GuardInv
<1>p. /\ WindowCount \in 0..MaxCalls
      /\ WindowAge \in 0..WindowLength /\ (~WindowOver => WindowAge = age)
  BY <1>t, PassType
<1>1. ASSUME NEW r \in Slots, Begin(r) PROVE GuardInv'
  BY <1>1 DEF Begin, GuardInv, GuardTypeOK, Charged, AttemptsLeft, SleepsWithinWindow
<1>2. ASSUME NEW r \in Slots, Admit(r) PROVE GuardInv'
  <2>1. spent < Budget /\ sent < Budget /\ WindowCount < MaxCalls /\ attempt[r] < MaxAttempts
    BY <1>2, <1>t, <1>p
       DEF Admit, Acquiring, HasRoom, Affordable, GuardInv, Charged, AttemptsLeft, GuardTypeOK
  <2>2. /\ spent' = spent + 1 /\ sent' = sent + 1
        /\ recent' = recent \cup {[nth |-> sent + 1, ago |-> 0]}
    BY <1>2, <2>1, <1>t DEF Admit, Charge, Sent, GuardTypeOK
  <2>3. GuardTypeOK'
    BY <1>2, <2>1, <2>2, <1>t, <1>p DEF Admit, GuardTypeOK, Ages
  <2>4. SleepsWithinWindow'
    BY <1>2, PassKeepsSleep DEF Admit
  <2>5. Charged' /\ AttemptsLeft'
    BY <1>2, <2>2, <1>t DEF Admit, GuardInv, GuardTypeOK, Charged, AttemptsLeft
  <2> QED  BY <2>3, <2>4, <2>5 DEF GuardInv
<1>3. ASSUME NEW r \in Slots, EndRequest(r), age' \in {age, WindowAge},
             count' \in {count, WindowCount}
      PROVE  GuardInv'
  <2>1. SleepsWithinWindow'
    BY <1>3, PassKeepsSleep DEF EndRequest
  <2> QED  BY <2>1, <1>3, <1>t, <1>p DEF EndRequest, GuardInv, GuardTypeOK, Charged, AttemptsLeft
<1>4. ASSUME NEW r \in Slots,
             RefuseForBudget(r) \/ RefuseForRate(r) \/ RefuseAdmission(r) \/ Respond(r)
      PROVE  GuardInv'
  BY <1>3, <1>4 DEF RefuseForBudget, RefuseForRate, RefuseAdmission, Respond
<1>5. ASSUME NEW r \in Slots, Sleep(r) PROVE GuardInv'
  <2>1. ~WindowOver /\ WindowLength - age \in Nat
    BY <1>5, <1>t DEF Sleep, HasRoom, WindowCount, WindowOver, GuardTypeOK
  <2> QED  BY <2>1, <1>5, <1>t
           DEF Sleep, Acquiring, WaitSeconds, GuardInv, GuardTypeOK, Charged, AttemptsLeft, SleepsWithinWindow
<1>6. ASSUME NEW r \in Slots, Fail(r) PROVE GuardInv'
  <2>1. CASE EndRequest(r)
    BY <1>3, <1>6, <2>1 DEF Fail
  <2>2. CASE ~EndRequest(r)
    BY <1>6, <2>2, <1>t DEF Fail, GuardInv, GuardTypeOK, Charged, AttemptsLeft, SleepsWithinWindow
  <2> QED  BY <2>1, <2>2
<1>7. ASSUME NEW r \in Slots, Retry(r) PROVE GuardInv'
  BY <1>7 DEF Retry, Awake, GuardInv, GuardTypeOK, Charged, AttemptsLeft, SleepsWithinWindow
<1>8. CASE GuardTick
  <2>1. age' \in 0..WindowLength /\ (~WindowOver => age' = age + 1)
    BY <1>8, <1>t DEF GuardTick, WindowOver, GuardTypeOK
  <2>2. left' \in [Slots -> Nat]
    BY <1>8, <1>t DEF GuardTick, GuardTypeOK
  <2>3. recent' \subseteq [nth: 1..(Budget + 1), ago: Ages]
    BY <1>8, <1>t DEF GuardTick, GuardTypeOK, Ages
  <2>4. SleepsWithinWindow'
    BY <1>8, <1>t, <2>1 DEF GuardTick, WindowOver, GuardInv, GuardTypeOK, SleepsWithinWindow
  <2> QED  BY <1>8, <1>t, <2>1, <2>2, <2>3, <2>4 DEF GuardTick, GuardInv, GuardTypeOK, Charged, AttemptsLeft
<1>9. CASE UNCHANGED guardVars
  BY <1>9 DEF guardVars, GuardInv, GuardTypeOK, Charged, AttemptsLeft, SleepsWithinWindow
<1> QED  BY <1>1, <1>2, <1>4, <1>5, <1>6, <1>7, <1>8, <1>9 DEF GuardNext, Continue, Acquire

\* Every attempt stays charged in every behaviour of the guarded provider.
THEOREM GuardInvariantHolds == GuardSpec => []GuardInv
BY GuardInitInv, GuardNextInv, PTL DEF GuardSpec

\* The state of guard and requests stays of its type, whatever the instance.
THEOREM GuardTypeCorrect == GuardSpec => []GuardTypeOK
<1>1. GuardInv => GuardTypeOK
  BY DEF GuardInv
<1> QED  BY <1>1, GuardInvariantHolds, PTL

\* First attempts and retries of any number of requests never exceed the total
\* budget (acquire() charges what _request_once sends).
THEOREM BudgetIsKept == GuardSpec => []BudgetBound
<1>1. GuardInv => BudgetBound
  BY GuardAssumption DEF GuardInv, GuardTypeOK, Charged, BudgetBound
<1> QED  BY <1>1, GuardInvariantHolds, PTL

\* No sleep outlasts the window it waits for (wait_seconds of acquire()).
THEOREM SleepsAreShort == GuardSpec => []SleepsWithinWindow
<1>1. GuardInv => SleepsWithinWindow
  BY DEF GuardInv
<1> QED  BY <1>1, GuardInvariantHolds, PTL

-----------------------------------------------------------------------------
\* The attempts of the window that is open, and older ones still in sight.
InWindow == {e \in recent : e.ago <= age}
Before   == {e \in recent : e.ago > age}

\* Windows begin at least a window's length apart, so what is still in sight
\* was admitted by two windows at most, each within its limit: the open one has
\* counted its own, and a window that is over leaves nothing that young.
RateInv ==
  /\ ~WindowOver => Cardinality(InWindow) <= count /\ Cardinality(Before) <= MaxCalls
  /\ WindowOver  => Cardinality(recent) <= MaxCalls /\ \A e \in recent : e.ago >= 1

\* The image of a finite set under a function is finite and no larger.
LEMMA ImageSize ==
  ASSUME NEW S, IsFiniteSet(S), NEW f, NEW T, T = {f[x] : x \in S}
  PROVE  IsFiniteSet(T) /\ Cardinality(T) <= Cardinality(S)
<1> DEFINE g == [x \in S |-> f[x]]
<1>1. g \in [S -> T] /\ \A t \in T : \E s \in S : g[s] = t
  OBVIOUS
<1>2. g \in Surjection(S, T)
  BY <1>1 DEF Surjection
<1> QED  BY <1>2, FS_Surjection

LEMMA RecentFinite ==
  ASSUME GuardTypeOK
  PROVE  /\ IsFiniteSet(recent) /\ Cardinality(recent) \in Nat
         /\ \A S : S \subseteq recent => /\ IsFiniteSet(S) /\ Cardinality(S) \in Nat
                                         /\ Cardinality(S) <= Cardinality(recent)
<1>1. IsFiniteSet(1..(Budget + 1)) /\ IsFiniteSet(Ages)
  BY GuardAssumption, FS_Interval DEF Ages
<1>2. IsFiniteSet((1..(Budget + 1)) \X Ages)
  BY <1>1, FS_Product
<1> DEFINE Pairs == (1..(Budget + 1)) \X Ages
           rec == [x \in Pairs |-> [nth |-> x[1], ago |-> x[2]]]
           All == {rec[x] : x \in Pairs}
<1>3. IsFiniteSet(All)
  <2>1. IsFiniteSet(Pairs)
    BY <1>2
  <2> HIDE DEF Pairs, rec
  <2> QED  BY <2>1, ImageSize
<1>4. recent \subseteq All
  <2>1. SUFFICES ASSUME NEW e \in recent PROVE e \in All
    OBVIOUS
  <2>2. e.nth \in 1..(Budget + 1) /\ e.ago \in Ages /\ e = [nth |-> e.nth, ago |-> e.ago]
    BY DEF GuardTypeOK
  <2>3. <<e.nth, e.ago>> \in Pairs /\ e = rec[<<e.nth, e.ago>>]
    BY <2>2
  <2> QED  BY <2>3
<1>5. IsFiniteSet(recent)
  BY <1>3, <1>4, FS_Subset
<1> QED  BY <1>5, FS_Subset, FS_CardinalityType

\* A tick ages what is in sight and drops what is a window old.
LEMMA Aged ==
  ASSUME GuardTypeOK, GuardTick, NEW S, S \subseteq recent
  PROVE  LET T == {[nth |-> e.nth, ago |-> e.ago + 1] : e \in S}
         IN  IsFiniteSet(T) /\ Cardinality(T) \in Nat /\ Cardinality(T) <= Cardinality(S)
<1> DEFINE later == [e \in S |-> [nth |-> e.nth, ago |-> e.ago + 1]]
           T == {[nth |-> e.nth, ago |-> e.ago + 1] : e \in S}
<1>1. IsFiniteSet(S)
  BY RecentFinite
<1>2. T = {later[e] : e \in S}
  OBVIOUS
<1>3. IsFiniteSet(T) /\ Cardinality(T) <= Cardinality(S)
  BY <1>1, <1>2, ImageSize
<1> QED  BY <1>3, FS_CardinalityType

LEMMA TickKeepsRate ==
  ASSUME GuardInv, RateInv, GuardTick
  PROVE  RateInv'
<1> USE GuardAssumption
<1> DEFINE Later(S) == {[nth |-> e.nth, ago |-> e.ago + 1] : e \in S}
           Young == {e \in recent : e.ago + 1 < WindowLength}
<1>1. GuardTypeOK /\ recent' = Later(Young) /\ age \in 0..WindowLength /\ count' = count /\ count \in 0..MaxCalls
      /\ WindowLength \in Nat /\ WindowLength >= 1 /\ MaxCalls \in Nat
  BY DEF GuardInv, GuardTypeOK, GuardTick
<1>2. \A e \in recent : e.ago \in Nat
  BY <1>1 DEF GuardTypeOK, Ages
<1>3. ASSUME NEW S, S \subseteq recent, NEW T, T \subseteq Later(S), NEW n \in Nat, Cardinality(S) <= n
      PROVE  Cardinality(T) <= n
  <2>1. IsFiniteSet(Later(S)) /\ Cardinality(Later(S)) \in Nat /\ Cardinality(Later(S)) <= Cardinality(S)
    BY <1>1, <1>3, Aged
  <2>2. IsFiniteSet(T) /\ Cardinality(T) <= Cardinality(Later(S))
    BY <1>3, <2>1, FS_Subset
  <2>3. Cardinality(T) \in Nat /\ Cardinality(S) \in Nat
    BY <1>1, <1>3, <2>2, RecentFinite, FS_CardinalityType
  <2> QED  BY <1>3, <2>1, <2>2, <2>3
<1>4. \A e \in recent' : e.ago >= 1
  BY <1>1, <1>2
<1>5. CASE WindowOver
  <2>1. age' = age /\ WindowOver' /\ Cardinality(recent) <= MaxCalls
    BY <1>5 DEF GuardTick, WindowOver, RateInv
  <2>2. recent' \subseteq Later(recent)
    BY <1>1
  <2>3. Cardinality(recent') <= MaxCalls
    BY <1>1, <1>3, <2>1, <2>2
  <2> QED  BY <1>4, <2>1, <2>3 DEF RateInv
<1>6. CASE ~WindowOver
  <2>1. /\ age < WindowLength /\ age' = age + 1
        /\ Cardinality(InWindow) <= count /\ Cardinality(Before) <= MaxCalls
    BY <1>1, <1>6 DEF GuardTick, WindowOver, RateInv
  <2>2. InWindow \subseteq recent /\ Before \subseteq recent
    BY DEF InWindow, Before
  <2>3. CASE age + 1 < WindowLength
    <3>1. InWindow' \subseteq Later(InWindow)
      BY <1>1, <1>2, <2>1, <2>3 DEF InWindow
    <3>2. Before' \subseteq Later(Before)
      BY <1>1, <1>2, <2>1, <2>3 DEF Before
    <3>3. Cardinality(InWindow') <= count /\ Cardinality(Before') <= MaxCalls
      BY <1>1, <1>3, <2>1, <2>2, <3>1, <3>2
    <3>4. ~WindowOver'
      BY <1>1, <2>1, <2>3 DEF WindowOver
    <3> QED  BY <1>1, <3>3, <3>4 DEF RateInv
  <2>4. CASE age + 1 = WindowLength
    <3>1. recent' \subseteq Later(InWindow)
      BY <1>1, <1>2, <2>1, <2>4 DEF InWindow
    <3>2. Cardinality(recent') <= count
      BY <1>1, <1>3, <2>1, <2>2, <3>1
    <3>3. Cardinality(recent') \in Nat
      <4>1. IsFiniteSet(Later(Young))
        BY <1>1, Aged
      <4> QED  BY <1>1, <4>1, FS_CardinalityType
    <3>4. Cardinality(recent') <= MaxCalls /\ WindowOver'
      BY <1>1, <2>1, <2>4, <3>2, <3>3 DEF WindowOver
    <3> QED  BY <1>4, <3>4 DEF RateInv
  <2> QED  BY <1>1, <2>1, <2>3, <2>4
<1> QED  BY <1>5, <1>6

\* A pass that finds the window over starts a new one; nothing in sight is its own.
LEMMA PassKeepsRate ==
  ASSUME GuardInv, RateInv, recent' = recent,
         \/ age' = age /\ count' = count
         \/ age' = WindowAge /\ count' = WindowCount
  PROVE  RateInv'
<1> USE GuardAssumption
<1>1. GuardTypeOK /\ age \in 0..WindowLength /\ WindowLength >= 1 /\ WindowLength \in Nat
      /\ \A e \in recent : e.ago \in Nat
  BY DEF GuardInv, GuardTypeOK, Ages
<1>2. CASE age' = age /\ count' = count
  BY <1>2 DEF RateInv, InWindow, Before, WindowOver
<1>3. CASE ~WindowOver /\ age' = WindowAge /\ count' = WindowCount
  BY <1>3 DEF RateInv, InWindow, Before, WindowOver, WindowAge, WindowCount
<1>4. CASE WindowOver /\ age' = WindowAge /\ count' = WindowCount
  <2>1. age' = 0 /\ count' = 0 /\ ~WindowOver'
    BY <1>1, <1>4 DEF WindowAge, WindowCount, WindowOver
  <2>2. InWindow' = {} /\ Before' = recent
    BY <1>1, <1>4, <2>1 DEF InWindow, Before, RateInv
  <2>3. Cardinality(InWindow') = 0
    BY <2>2, FS_EmptySet
  <2> QED  BY <1>4, <2>1, <2>2, <2>3 DEF RateInv
<1> QED  BY <1>2, <1>3, <1>4

\* An attempt is sent only where its window has room.
LEMMA AdmitKeepsRate ==
  ASSUME GuardInv, RateInv, NEW r \in Slots, Admit(r)
  PROVE  RateInv'
<1> USE GuardAssumption
<1> DEFINE new == [nth |-> sent', ago |-> 0]
<1>1. /\ GuardTypeOK /\ age \in 0..WindowLength /\ WindowLength >= 1 /\ WindowLength \in Nat /\ MaxCalls \in Nat
      /\ count \in 0..MaxCalls /\ \A e \in recent : e.ago \in Nat
  BY DEF GuardInv, GuardTypeOK, Ages
<1>2. /\ recent' = recent \cup {new} /\ age' = WindowAge /\ count' = WindowCount + 1
      /\ WindowCount + 1 <= MaxCalls
  BY DEF Admit, Sent, HasRoom
<1>3. new.ago = 0
  OBVIOUS
<1> HIDE DEF new
<1>4. CASE WindowOver
  <2>1. age' = 0 /\ count' = 1 /\ ~WindowOver'
    BY <1>1, <1>2, <1>4 DEF WindowAge, WindowCount, WindowOver
  <2>2. InWindow' = {new} /\ Before' = recent
    BY <1>1, <1>2, <1>3, <1>4, <2>1 DEF InWindow, Before, RateInv
  <2>3. Cardinality(InWindow') = 1
    BY <2>2, FS_Singleton
  <2> QED  BY <1>4, <2>1, <2>2, <2>3 DEF RateInv
<1>5. CASE ~WindowOver
  <2>1. age' = age /\ count' = count + 1 /\ ~WindowOver'
    BY <1>2, <1>5 DEF WindowAge, WindowCount, WindowOver
  <2>2. InWindow' = InWindow \cup {new} /\ Before' = Before
    BY <1>1, <1>2, <1>3, <2>1 DEF InWindow, Before
  <2>3. IsFiniteSet(InWindow) /\ Cardinality(InWindow) \in Nat
    BY <1>1, RecentFinite DEF InWindow
  <2>4. Cardinality(InWindow') <= Cardinality(InWindow) + 1
    <3>1. Cardinality(InWindow \cup {new})
            = IF new \in InWindow THEN Cardinality(InWindow) ELSE Cardinality(InWindow) + 1
      BY <2>3, FS_AddElement
    <3> QED  BY <2>2, <2>3, <3>1
  <2>5. IsFiniteSet(InWindow')
    BY <2>2, <2>3, FS_AddElement
  <2>6. Cardinality(InWindow') \in Nat
    BY <2>5, FS_CardinalityType
  <2> QED  BY <1>1, <1>5, <2>1, <2>2, <2>3, <2>4, <2>6 DEF RateInv
<1> QED  BY <1>4, <1>5

\* The vendor never sees more than twice the limit in any stretch as long as a
\* window, wherever it begins, although windows start on demand, requests retry
\* and sleepers wake together (acquire() looks again after each sleep).
THEOREM RateIsKept == GuardSpec => []SlidingWindowBound
<1>1. GuardInit => RateInv
  <2> SUFFICES ASSUME GuardInit PROVE RateInv
    OBVIOUS
  <2>1. recent = {} /\ WindowOver
    BY DEF GuardInit, WindowOver
  <2>2. Cardinality(recent) = 0
    BY <2>1, FS_EmptySet
  <2> QED  BY <2>1, <2>2, GuardAssumption DEF RateInv
<1>2. GuardInv /\ RateInv /\ [GuardNext]_guardVars => RateInv'
  <2> SUFFICES ASSUME GuardInv, RateInv, [GuardNext]_guardVars PROVE RateInv'
    OBVIOUS
  <2>1. ASSUME NEW r \in Slots, Admit(r) PROVE RateInv'
    BY <2>1, AdmitKeepsRate
  <2>2. ASSUME NEW r \in Slots,
               \/ Begin(r) \/ RefuseForBudget(r) \/ RefuseForRate(r) \/ RefuseAdmission(r)
               \/ Sleep(r) \/ Respond(r) \/ Fail(r) \/ Retry(r)
        PROVE  RateInv'
    <3>1. recent' = recent
      BY <2>2 DEF Begin, RefuseForBudget, RefuseForRate, RefuseAdmission, Sleep, Respond, Fail, Retry, EndRequest
    <3>2. (age' = age /\ count' = count) \/ (age' = WindowAge /\ count' = WindowCount)
      BY <2>2 DEF Begin, RefuseForBudget, RefuseForRate, RefuseAdmission, Sleep, Respond, Fail, Retry, EndRequest
    <3> QED  BY <3>1, <3>2, PassKeepsRate
  <2>3. CASE GuardTick
    BY <2>3, TickKeepsRate
  <2>4. CASE UNCHANGED guardVars
    BY <2>4, PassKeepsRate DEF guardVars
  <2> QED  BY <2>1, <2>2, <2>3, <2>4 DEF GuardNext, Continue, Acquire
<1>3. GuardInv /\ RateInv => SlidingWindowBound
  <2> SUFFICES ASSUME GuardInv, RateInv PROVE Cardinality(recent) <= 2 * MaxCalls
    BY DEF SlidingWindowBound
  <2>1. GuardTypeOK /\ MaxCalls \in Nat /\ count \in 0..MaxCalls /\ age \in 0..WindowLength
        /\ \A e \in recent : e.ago \in Nat
    BY GuardAssumption DEF GuardInv, GuardTypeOK, Ages
  <2>2. Cardinality(recent) \in Nat
    BY <2>1, RecentFinite
  <2>3. CASE WindowOver
    BY <2>1, <2>2, <2>3 DEF RateInv
  <2>4. CASE ~WindowOver
    <3>1. recent = InWindow \cup Before /\ InWindow \subseteq recent /\ Before \subseteq recent
      BY <2>1, GuardAssumption DEF InWindow, Before
    <3>2. /\ IsFiniteSet(InWindow) /\ Cardinality(InWindow) \in Nat
          /\ IsFiniteSet(Before) /\ Cardinality(Before) \in Nat
      BY <2>1, <3>1, RecentFinite
    <3>3. Cardinality(recent) <= Cardinality(InWindow) + Cardinality(Before)
      <4>1. /\ Cardinality(recent) = Cardinality(InWindow) + Cardinality(Before) - Cardinality(InWindow \cap Before)
        BY <3>1, <3>2, FS_Union
      <4>2. InWindow \cap Before = {}
        BY <2>1, GuardAssumption DEF InWindow, Before
      <4>3. Cardinality(InWindow \cap Before) = 0
        BY <4>2, FS_EmptySet
      <4> QED  BY <4>1, <4>3, <3>2, <2>2
    <3>4. Cardinality(InWindow) <= count /\ Cardinality(Before) <= MaxCalls
      BY <2>4 DEF RateInv
    <3> QED  BY <2>1, <2>2, <3>2, <3>3, <3>4
  <2> QED  BY <2>3, <2>4
<1> QED  BY <1>1, <1>2, <1>3, GuardInvariantHolds, PTL DEF GuardSpec

-----------------------------------------------------------------------------
(* What the ledger operators return.                                       *)

\* Every nonempty set of natural numbers has a least element.
LEMMA LeastExists ==
  ASSUME NEW T, T \subseteq Nat, T # {}
  PROVE  \E m \in T : \A n \in T : m <= n
<1> DEFINE R == {ss \in Nat \X Nat : ss[1] < ss[2]}
<1>1. IsWellFoundedOn(R, Nat)
  BY NatLessThanWellFounded DEF OpToRel
<1> HIDE DEF R
<1>2. PICK m \in T : \A n \in T : ~ (<<n, m>> \in R)
  BY <1>1, WFMin
<1>3. \A n \in T : ~ (n < m)
  BY <1>2 DEF R
<1> QED
  BY <1>3

\* The least index of a ledger's headers is one of them.
LEMMA LeastIn ==
  ASSUME NEW S, S \subseteq Nat, S # {}
  PROVE  Least(S) \in S
BY LeastExists DEF Least

\* The greatest index of a ledger's headers is one of them.
LEMMA GreatestIn ==
  ASSUME NEW n \in Nat, NEW S, S \subseteq 1..n, S # {}
  PROVE  Greatest(S) \in S
<1> DEFINE T == {k \in Nat : n - k \in S}
<1>1. \A i \in S : n - i \in T
  BY Z3
<1>2. T \subseteq Nat /\ T # {}
  BY <1>1
<1>3. PICK m \in T : \A k \in T : m <= k
  BY <1>2, LeastExists
<1>4. n - m \in S /\ \A j \in S : j <= n - m
  BY <1>1, <1>3
<1> QED
  BY <1>4 DEF Greatest

\* The call an operation is about is one of those it has left.
LEMMA FirstIn ==
  ASSUME NEW d \in Days, NEW S, S \subseteq Elements(Windows[d]), S # {}
  PROVE  First(d, S) \in S
<1>1. \A c \in S : Position(d, c) \in DOMAIN Windows[d]
  BY DEF Position, Elements
<1>2. Windows[d] \in Seq(Calls)
  BY CampaignAssumption DEF Days
<1>3. DOMAIN Windows[d] \subseteq Nat
  BY <1>2
<1> DEFINE T == {Position(d, c) : c \in S}
<1>4. T \subseteq Nat /\ T # {}
  BY <1>1, <1>3
<1> HIDE DEF T
<1>5. PICK m \in T : \A n \in T : m <= n
  BY <1>4, LeastExists
<1>6. \E c \in S : \A e \in S : Position(d, c) <= Position(d, e)
  BY <1>5 DEF T
<1> QED
  BY <1>6 DEF First

\* A window has no more calls than positions.
LEMMA WindowSize ==
  ASSUME NEW d \in Days
  PROVE  /\ Elements(Windows[d]) \subseteq Calls /\ Len(Windows[d]) \in Nat
         /\ \A S \in SUBSET Elements(Windows[d]) :
              Cardinality(S) \in Nat /\ Cardinality(S) <= Len(Windows[d])
<1>1. Windows[d] \in Seq(Calls)
  BY CampaignAssumption DEF Days
<1>2. /\ Elements(Windows[d]) \subseteq Calls /\ Len(Windows[d]) \in Nat
      /\ DOMAIN Windows[d] = 1..Len(Windows[d])
  BY <1>1 DEF Elements
<1>3. IsFiniteSet(DOMAIN Windows[d]) /\ Cardinality(DOMAIN Windows[d]) = Len(Windows[d])
  BY <1>2, FS_Interval
<1>4. /\ IsFiniteSet(Elements(Windows[d]))
      /\ Cardinality(Elements(Windows[d])) <= Len(Windows[d])
  BY <1>3, ImageSize DEF Elements
<1>5. ASSUME NEW S \in SUBSET Elements(Windows[d])
      PROVE  Cardinality(S) \in Nat /\ Cardinality(S) <= Len(Windows[d])
  <2>1. IsFiniteSet(S) /\ Cardinality(S) <= Cardinality(Elements(Windows[d]))
    BY <1>4, FS_Subset
  <2> QED
    BY <1>2, <1>4, <2>1, FS_CardinalityType
<1> QED
  BY <1>2, <1>5

\* The parts of a campaign record that the budget is computed from.
LEMMA RecordShape ==
  ASSUME NEW r \in CampaignRecords
  PROVE  /\ r.type \in {"authorization", "attempt", "outcome"} /\ r.window \in Days
         /\ r.type = "authorization" =>
              r.base \in Nat /\ r.authorized \in Nat /\ r.base <= Len(Windows[r.window])
BY DEF CampaignRecords, Outcomes

\* The cumulative state of a campaign is made of numbers, and its base of no
\* more than the calls of the window.
LEMMA LedgerState ==
  ASSUME NEW l \in Seq(CampaignRecords), NEW w \in Days
  PROVE  /\ IsFiniteSet(OfWindow(l, w)) /\ Cardinality(OfWindow(l, w)) \in Nat
         /\ \A t : IsFiniteSet(OfType(l, w, t))
         /\ Reserved(l, w) \in Nat /\ Authorized(l, w) \in Nat
         /\ Base(l, w) \in Nat /\ Base(l, w) <= Len(Windows[w])
<1>1. Len(l) \in Nat /\ DOMAIN l = 1..Len(l) /\ \A i \in DOMAIN l : l[i] \in CampaignRecords
  OBVIOUS
<1>2. IsFiniteSet(DOMAIN l)
  BY <1>1, FS_Interval
<1>3. OfWindow(l, w) \subseteq DOMAIN l /\ \A t : OfType(l, w, t) \subseteq DOMAIN l
  BY DEF OfWindow, OfType
<1>4. IsFiniteSet(OfWindow(l, w)) /\ \A t : IsFiniteSet(OfType(l, w, t))
  BY <1>2, <1>3, FS_Subset
<1>5. Cardinality(OfWindow(l, w)) \in Nat /\ Reserved(l, w) \in Nat
  BY <1>4, FS_CardinalityType DEF Reserved
<1>6. Headers(l, w) \subseteq 1..Len(l)
  BY <1>1, <1>3 DEF Headers
<1>7. \A i \in Headers(l, w) :
        l[i].base \in Nat /\ l[i].authorized \in Nat /\ l[i].base <= Len(Windows[w])
  BY <1>1, RecordShape DEF Headers, OfType, OfWindow
<1>8. CASE Headers(l, w) = {}
  BY <1>4, <1>5, <1>8, WindowSize DEF Base, Authorized
<1>9. CASE Headers(l, w) # {}
  <2>1. Least(Headers(l, w)) \in Headers(l, w)
    BY <1>6, <1>9, LeastIn
  <2>2. Greatest(Headers(l, w)) \in Headers(l, w)
    BY <1>1, <1>6, <1>9, GreatestIn
  <2> QED
    BY <1>4, <1>5, <1>7, <1>9, <2>1, <2>2 DEF Base, Authorized
<1> QED
  BY <1>8, <1>9

-----------------------------------------------------------------------------
(* The inductive invariant of the campaign.                                *)

\* An operation under way, from the lock to its end.
Active(p) == op[p].pc \notin {"idle", "granted"}
OfCampaign(p) == p \notin legacy

\* One ledger begins another.
Begins(s, l) == Len(s) <= Len(l) /\ \A i \in 1..Len(s) : s[i] = l[i]

\* A ledger that the database would refuse, or that extends its own.
Behind(l, high) == Len(l) <= Len(high) \/ (Len(l) = Len(high) + 1 /\ Begins(high, l))

Attempted(l, v) ==
  \E r \in Elements(l) : r.type = "attempt" /\ r.auth = v.auth /\ r.call = v.call
                          /\ r.window = v.window

\* The request p may send, and what a record of p is about: its authorization, a reservation or an
\* outcome.
Request(p) == [call |-> Current(p), auth |-> AuthOf(p), window |-> op[p].plan.day]
Recording == {"require", "prepare", "append", "publish", "sent", "observe"}
Ended == {"checkpointed", "failed_before_admission", "failed_after_admission"}

Describes(p, r) ==
  /\ r.auth = AuthOf(p) /\ r.window = op[p].plan.day
  /\ op[p].status = "authorizing" => r.type = "authorization"
  /\ op[p].status = "reserving" => r.type = "attempt" /\ r.call = Current(p)
  /\ op[p].status \in Ended => r.type = "outcome" /\ r.call = Current(p)

\* Control: which status and which calls left go with which step.
ControlOf(p) ==
  /\ op[p].pc \in Recording => op[p].status \in {"authorizing", "reserving"} \cup Ended
  /\ op[p].pc \in {"call", "answer"} => op[p].status = "reserving"
  /\ op[p].pc \in Recording /\ op[p].status # "authorizing" => op[p].todo # {}
  /\ op[p].pc \in {"call", "answer"} => op[p].todo # {}
  /\ p \in legacy => op[p].pc \notin {"require", "publish", "sent", "observe"}
  /\ Active(p) => grants[p] > 0
  /\ op[p].pc # "idle" =>
       /\ op[p].plan.day \in Days
       /\ op[p].plan.calls \subseteq Elements(Windows[op[p].plan.day])
       /\ op[p].todo \subseteq Elements(Windows[op[p].plan.day])

ControlInv == \A p \in Operators : ControlOf(p)

\* A record on its way is in the file it was appended to, unless a cut line
\* swallowed it, and in the ledger whose digest was sent.
RecordOf(p) ==
  /\ op[p].pc \in {"append", "publish", "sent", "observe"} => Describes(p, op[p].rec)
  /\ op[p].pc = "publish" =>
       torn["acquisition"] \/ op[p].rec \in Elements(file["acquisition"])
  /\ op[p].pc \in {"sent", "observe"} =>
       /\ op[p].rec \in Elements(file["acquisition"])
       /\ op[p].rec \in Elements(op[p].sent)
  /\ op[p].pc = "call" /\ OfCampaign(p) => Attempted(file["acquisition"], Request(p))

RecordInv == \A p \in Operators : RecordOf(p)

\* Requests: each names a grant that was begun, a running operation has its
\* own reservations in the file, and no authorization sends a call twice.
RequestInv ==
  /\ \A i \in DOMAIN vendor :
       vendor[i].auth[2] \in 1..grants[vendor[i].auth[1]]
  /\ \A p \in Operators : Active(p) /\ OfCampaign(p) =>
       \A i \in DOMAIN vendor : vendor[i].auth = AuthOf(p) =>
         Attempted(file["acquisition"], vendor[i])
  /\ \A p \in Operators :
       OfCampaign(p) /\ op[p].status = "reserving"
         /\ op[p].pc \in {"append", "publish", "sent", "observe", "call"} =>
       \A i \in DOMAIN vendor :
         ~ (vendor[i].auth = AuthOf(p) /\ vendor[i].call = Current(p))
  /\ \A i, j \in DOMAIN vendor :
       /\ vendor[i].auth[1] \notin legacy
       /\ vendor[i].auth = vendor[j].auth /\ vendor[i].call = vendor[j].call
       => i = j

\* While the file was never replaced, every ledger anyone sent begins it.
PrefixInv ==
  ~restored =>
    /\ Begins(anchor, file["acquisition"])
    /\ \A f \in floating : Begins(f.ledger, file["acquisition"])
    /\ \A p \in Operators : op[p].pc = "sent" => Begins(op[p].sent, file["acquisition"])

\* While the lock connection lives one operation runs, and whatever may still
\* be committed extends the newest row or comes too late.
LockOf(p) ==
  /\ Active(p) => lock = p
  /\ op[p].pc = "sent" => Behind(op[p].sent, anchor)
  /\ op[p].pc = "publish" => Behind(file["acquisition"], anchor)
  /\ op[p].pc \in {"prepare", "append"} /\ OfCampaign(p) =>
       \/ anchor = file["acquisition"]
       \/ Len(file["acquisition"]) < Len(anchor)
  /\ op[p].pc = "append" => ~torn[Lane(p)]

LockInv ==
  ~lockLost => /\ \A p \in Operators : LockOf(p)
               /\ \A f \in floating : Behind(f.ledger, anchor)

\* The anchored ledger covers every request, and its totals are within the
\* budget; the newest row of a campaign has all of its records.
BudgetInv ==
  Orderly =>
    /\ \A w \in Days :
         /\ Cardinality(OfWindow(mark[w], w)) = Cardinality(OfWindow(anchor, w))
         /\ Reserved(anchor, w) <= Len(Windows[w]) + Recovery
    /\ \A i \in DOMAIN vendor :
         vendor[i].auth[1] \notin legacy => Attempted(anchor, vendor[i])
    /\ \A p \in Operators : op[p].pc = "call" /\ OfCampaign(p) =>
         Attempted(anchor, Request(p))

\* What became of request v is on record.
Known(v) ==
  HasOutcome(file["backfill"], v.auth, v.call) \/ HasOutcome(anchor, v.auth, v.call)

\* The request of the operation itself, before its outcome is on record.
Underway(p, v) ==
  /\ v.auth = AuthOf(p) /\ v.call = Current(p)
  /\ op[p].pc = "answer" \/ (op[p].pc \in Recording /\ op[p].status \in Ended)

RetryInv ==
  ~lockLost =>
    /\ \A i \in DOMAIN vendor :
         vendor[i].auth[1] \in legacy => Attempted(file["backfill"], vendor[i])
    /\ \A p \in legacy : op[p].pc = "call" =>
         Attempted(file["backfill"], Request(p))
    /\ \A p \in Operators : Active(p) =>
         \A i \in DOMAIN vendor :
           /\ vendor[i].call \in op[p].todo
           /\ p \in legacy => vendor[i].auth[1] \in legacy
           => Known(vendor[i]) \/ Underway(p, vendor[i])

-----------------------------------------------------------------------------
(* What the steps of one operator do to its operation.                     *)

\* Operator p does something, the others stand still.
Only(p) == op' \in [Operators -> Operations] /\ \A q \in Operators \ {p} : op'[q] = op[q]

\* p goes on with the same plan.
Keeps(p) == Only(p) /\ op'[p].plan = op[p].plan

\* One operation is replaced by another.
LEMMA Moved ==
  ASSUME CampaignTypeOK, NEW p \in Operators, NEW new \in Operations,
         op' = [op EXCEPT ![p] = new]
  PROVE  Only(p) /\ op'[p] = new
BY DEF CampaignTypeOK, Only

\* An operation moves to another step and keeps everything else.
LEMMA Went ==
  ASSUME CampaignTypeOK, NEW p \in Operators, NEW s \in Steps, Go(p, s)
  PROVE  /\ Keeps(p) /\ op'[p].pc = s /\ op'[p].todo = op[p].todo
         /\ op'[p].rec = op[p].rec /\ op'[p].status = op[p].status /\ op'[p].sent = op[p].sent
<1> DEFINE new == [op[p] EXCEPT !.pc = s]
<1>1. op[p] \in Operations /\ op' = [op EXCEPT ![p] = new]
  BY DEF CampaignTypeOK, Go
<1>2. /\ new \in Operations /\ new.pc = s /\ new.plan = op[p].plan /\ new.todo = op[p].todo
      /\ new.rec = op[p].rec /\ new.status = op[p].status /\ new.sent = op[p].sent
  BY <1>1 DEF Operations
<1> HIDE DEF new
<1> QED
  BY <1>1, <1>2, Moved DEF Keeps

\* An operator that does nothing has an operation too.
LEMMA IdleTyped == Idle \in Operations
<1>1. [c \in {} |-> "none"] \in UNION {[S -> Evidence] : S \in SUBSET Calls}
  OBVIOUS
<1>2. 0 \in 0..Len(Windows) /\ <<>> \in Seq(CampaignRecords)
  BY CampaignAssumption, EmptySeq
<1>3. NoPlan \in Plans
  BY <1>1, <1>2 DEF NoPlan, Plans
<1> QED
  BY <1>2, <1>3 DEF Idle, Operations, Steps, Statuses

\* An operation that stops is over, and its operator holds no lock.
LEMMA Stopped ==
  ASSUME CampaignTypeOK, NEW p \in Operators, Stop(p)
  PROVE  /\ Only(p) /\ op'[p] = Idle /\ op'[p].pc = "idle"
         /\ lock' \in {lock, None} /\ lock' # p
<1>1. Only(p) /\ op'[p] = Idle
  BY IdleTyped, Moved DEF Stop
<1>2. None \notin Operators
  BY CampaignAssumption
<1> QED
  BY <1>1, <1>2 DEF Idle, Stop, Release

\* An operation goes on to record what came of its request.
LEMMA Resolved ==
  ASSUME CampaignTypeOK, NEW p \in Operators, NEW s \in Statuses, Resolve(p, s)
  PROVE  /\ Keeps(p) /\ op'[p].pc = (IF p \in legacy THEN "prepare" ELSE "require")
         /\ op'[p].todo = op[p].todo /\ op'[p].status = s
<1> DEFINE step == IF p \in legacy THEN "prepare" ELSE "require"
           new == [op[p] EXCEPT !.pc = step, !.status = s]
<1>1. op[p] \in Operations /\ op' = [op EXCEPT ![p] = new]
  BY DEF CampaignTypeOK, Resolve
<1>2. step \in Steps
  BY DEF Steps
<1>3. new \in Operations /\ new.pc = step /\ new.status = s
      /\ new.todo = op[p].todo /\ new.plan = op[p].plan
  BY <1>1, <1>2 DEF Operations
<1> HIDE DEF new
<1> QED
  BY <1>1, <1>3, Moved DEF Keeps

\* How an operation goes on once its record is in place.
LEMMA Proceeded ==
  ASSUME CampaignTypeOK, NEW p \in Operators, Proceed(p)
  PROVE  \/ Stop(p)
         \/ /\ Keeps(p) /\ UNCHANGED lock
            /\ AfterRecord(p) # "failed" /\ op'[p].pc = AfterRecord(p)
            /\ op'[p].status = op[p].status
            /\ op'[p].todo = IF AfterRecord(p) = "next"
                             THEN op[p].todo \ {Current(p)} ELSE op[p].todo
<1> SUFFICES ASSUME AfterRecord(p) # "failed"
             PROVE  /\ Keeps(p) /\ UNCHANGED lock
                    /\ op'[p].pc = AfterRecord(p) /\ op'[p].status = op[p].status
                    /\ op'[p].todo = IF AfterRecord(p) = "next"
                                     THEN op[p].todo \ {Current(p)} ELSE op[p].todo
  BY DEF Proceed
<1> DEFINE rest == IF AfterRecord(p) = "next" THEN op[p].todo \ {Current(p)} ELSE op[p].todo
           new == [op[p] EXCEPT !.pc = AfterRecord(p), !.rec = None, !.sent = <<>>,
                                !.todo = rest]
<1>1. op[p] \in Operations /\ op' = [op EXCEPT ![p] = new] /\ lock' = lock
  BY DEF CampaignTypeOK, Proceed
<1>2. AfterRecord(p) \in Steps
  BY DEF AfterRecord, Steps
<1>3. rest \in SUBSET Calls
  BY <1>1 DEF Operations
<1>4. <<>> \in Seq(CampaignRecords)
  BY EmptySeq
<1> HIDE DEF rest
<1>5. new \in Operations /\ new.pc = AfterRecord(p) /\ new.status = op[p].status
      /\ new.todo = rest /\ new.plan = op[p].plan
  BY <1>1, <1>2, <1>3, <1>4 DEF Operations
<1> HIDE DEF new
<1>6. Only(p) /\ op'[p] = new
  BY <1>1, <1>5, Moved
<1> QED
  BY <1>1, <1>5, <1>6 DEF Keeps, rest

\* A plan is about the calls of its window that have no evidence.
LEMMA PlanTyped ==
  ASSUME CampaignTypeOK, NEW p \in Operators
  PROVE  /\ PlanOf(p) \in Plans /\ PlanOf(p).day = day
         /\ PlanOf(p).calls = Missing(p, day)
         /\ PlanOf(p).calls \subseteq Elements(Windows[day])
<1>1. Missing(p, day) \subseteq WindowCalls(p, day) /\ WindowCalls(p, day) \subseteq Elements(Windows[day])
  BY DEF Missing, WindowCalls
<1>2. day \in Days /\ day \in 0..Len(Windows)
  BY CampaignAssumption DEF CampaignTypeOK, Days
<1>3. Missing(p, day) \in SUBSET Calls /\ WindowCalls(p, day) \in SUBSET Calls
  BY <1>1, <1>2, WindowSize
<1>4. Coverage(p) \in UNION {[S -> Evidence] : S \in SUBSET Calls}
  <2>1. Coverage(p) \in [WindowCalls(p, day) -> Evidence]
    BY <1>3 DEF Coverage, CampaignTypeOK
  <2> QED
    BY <1>3, <2>1
<1>5. <<>> \in Seq(CampaignRecords) /\ file["acquisition"] \in Seq(CampaignRecords)
  BY EmptySeq DEF CampaignTypeOK, LaneRecords, Lanes
<1>6. PlanOf(p).day = day /\ PlanOf(p).calls = Missing(p, day)
  BY DEF PlanOf, BackfillPlan, CampaignPlan
<1>7. BackfillPlan(p) \in Plans
  BY <1>2, <1>3, <1>4, <1>5 DEF BackfillPlan, Plans
<1>8. CampaignPlan(p) \in Plans
  BY <1>2, <1>3, <1>4, <1>5 DEF CampaignPlan, Plans
<1> QED
  BY <1>1, <1>6, <1>7, <1>8 DEF PlanOf

\* Each action that changes an operation, in terms of that operation.
LEMMA Planned ==
  ASSUME CampaignTypeOK, NEW p \in Operators, Plan(p)
  PROVE  /\ Only(p) /\ op'[p].pc = "granted" /\ op'[p].plan = PlanOf(p) /\ op'[p].todo = {}
<1> DEFINE new == [Idle EXCEPT !.pc = "granted", !.plan = PlanOf(p)]
<1>1. op' = [op EXCEPT ![p] = new]
  BY DEF Plan
<1>2. /\ new \in Operations /\ new.pc = "granted" /\ new.plan = PlanOf(p) /\ new.todo = {}
  BY IdleTyped, PlanTyped DEF Operations, Steps, Idle
<1> HIDE DEF new
<1> QED
  BY <1>1, <1>2, Moved

\* An operation begins with the granted plan and a grant of its own.
LEMMA Started ==
  ASSUME CampaignTypeOK, NEW p \in Operators, Start(p)
  PROVE  /\ Keeps(p) /\ op'[p].pc = (IF p \in legacy THEN "prepare" ELSE "require")
         /\ op'[p].todo = op[p].plan.calls /\ op'[p].status = "authorizing"
         /\ grants' \in [Operators -> Nat] /\ grants'[p] = grants[p] + 1
         /\ \A q \in Operators \ {p} : grants'[q] = grants[q]
<1> DEFINE step == IF p \in legacy THEN "prepare" ELSE "require"
           new == [op[p] EXCEPT !.pc = step, !.todo = op[p].plan.calls,
                                !.status = "authorizing"]
<1>1. op[p] \in Operations /\ op' = [op EXCEPT ![p] = new]
  BY DEF CampaignTypeOK, Start
<1>2. step \in Steps /\ "authorizing" \in Statuses
  BY DEF Steps, Statuses
<1>3. op[p].plan.calls \in SUBSET Calls
  BY <1>1 DEF Operations, Plans
<1>4. /\ new \in Operations /\ new.pc = step /\ new.plan = op[p].plan
      /\ new.todo = op[p].plan.calls /\ new.status = "authorizing"
  BY <1>1, <1>2, <1>3 DEF Operations
<1> HIDE DEF new
<1>5. Keeps(p) /\ op'[p] = new
  BY <1>1, <1>4, Moved DEF Keeps
<1>6. /\ grants' \in [Operators -> Nat] /\ grants'[p] = grants[p] + 1
      /\ \A q \in Operators \ {p} : grants'[q] = grants[q]
  BY DEF Start, CampaignTypeOK
<1> QED
  BY <1>4, <1>5, <1>6

\* The record an operation is about to write has the form of its ledger.
LEMMA RecordTyped ==
  ASSUME CampaignTypeOK, ControlInv, NEW p \in Operators, op[p].pc = "prepare"
  PROVE  NewRecord(p) \in LaneRecords(Lane(p)) /\ Describes(p, NewRecord(p))
<1> DEFINE l == file["acquisition"]
           w == op[p].plan.day
<1>1. /\ w \in Days /\ op[p].plan.calls \subseteq Elements(Windows[w])
      /\ op[p].todo \subseteq Elements(Windows[w])
      /\ op[p].status \in {"authorizing", "reserving"} \cup Ended
      /\ op[p].status # "authorizing" => op[p].todo # {}
  BY DEF CampaignTypeOK, ControlInv, ControlOf, Recording
<1>2. AuthOf(p) \in Auths
  BY DEF CampaignTypeOK, AuthOf, Auths
<1>3. l \in Seq(CampaignRecords)
  BY DEF CampaignTypeOK, LaneRecords, Lanes
<1>4. /\ op[p].plan.calls \in SUBSET Calls
      /\ Cardinality(op[p].plan.calls) \in Nat
      /\ Cardinality(op[p].plan.calls) <= Len(Windows[w])
  BY <1>1, WindowSize
<1>5. op[p].status # "authorizing" => Current(p) \in Calls
  BY <1>1, FirstIn, WindowSize DEF Current
<1>6. op[p].status \in {"authorizing", "reserving"} \cup Ended =>
        op[p].status \in Statuses
  BY DEF Ended, Statuses
<1>7. CASE op[p].status = "authorizing"
  <2>1. /\ Base(l, w) \in Nat /\ Base(l, w) <= Len(Windows[w])
        /\ Authorized(l, w) \in Nat /\ Reserved(l, w) \in Nat
    BY <1>1, <1>3, LedgerState
  <2>2. Deficit(l, w, Cardinality(op[p].plan.calls)) \in Nat
    BY <1>4, <2>1 DEF Deficit
  <2>3. NewHeader(p) \in CampaignRecords
    BY <1>1, <1>2, <1>4, <2>1, <2>2 DEF NewHeader, CampaignRecords
  <2>4. p \in legacy => NewBackfillRecord(p) \in BackfillRecords
    BY <1>1, <1>2, <1>4, <1>7 DEF NewBackfillRecord, BackfillRecords
  <2> QED
    BY <1>7, <2>3, <2>4
       DEF NewRecord, NewHeader, NewBackfillRecord, LaneRecords, Lane, Describes, Ended
<1>8. CASE op[p].status = "reserving"
  <2>1. Reserved(l, w) \in Nat
    BY <1>1, <1>3, LedgerState
  <2>2. \A n \in Lanes : Cardinality(AttemptsOf(file[n], AuthOf(p))) \in Nat
    <3>1. SUFFICES ASSUME NEW n \in Lanes
                   PROVE  Cardinality(AttemptsOf(file[n], AuthOf(p))) \in Nat
      OBVIOUS
    <3>2. DOMAIN file[n] = 1..Len(file[n]) /\ Len(file[n]) \in Nat
      BY DEF CampaignTypeOK
    <3>3. IsFiniteSet(Elements(file[n]))
      <4>1. IsFiniteSet(DOMAIN file[n])
        BY <3>2, FS_Interval
      <4> QED
        BY <4>1, ImageSize DEF Elements
    <3>4. AttemptsOf(file[n], AuthOf(p)) \subseteq Elements(file[n])
      BY DEF AttemptsOf
    <3> QED
      BY <3>3, <3>4, FS_Subset, FS_CardinalityType
  <2>3. NewAttempt(p) \in CampaignRecords
    BY <1>1, <1>2, <1>5, <1>8, <2>1, <2>2 DEF NewAttempt, CampaignRecords, Lanes
  <2>4. p \in legacy => NewBackfillRecord(p) \in BackfillRecords
    BY <1>1, <1>2, <1>5, <1>8, <2>2 DEF NewBackfillRecord, BackfillRecords, Lanes
  <2> QED
    BY <1>8, <2>3, <2>4
       DEF NewRecord, NewAttempt, NewBackfillRecord, LaneRecords, Lane, Describes, Ended
<1>9. CASE op[p].status \in Ended
  <2>1. op[p].status \notin {"authorizing", "reserving"}
    BY <1>9 DEF Ended
  <2>2. NewOutcome(p) \in Outcomes
    BY <1>1, <1>2, <1>5, <1>6, <2>1 DEF NewOutcome, Outcomes
  <2>3. p \in legacy => NewBackfillRecord(p) \in Outcomes
    BY <1>1, <1>2, <1>5, <2>1 DEF NewBackfillRecord, NewOutcome, Outcomes, Statuses
  <2>4. /\ NewRecord(p).type = "outcome" /\ NewRecord(p).auth = AuthOf(p)
        /\ NewRecord(p).window = w /\ NewRecord(p).call = Current(p)
    BY <2>1 DEF NewRecord, NewBackfillRecord, NewOutcome
  <2> QED
    BY <2>1, <2>2, <2>3, <2>4
       DEF NewRecord, LaneRecords, Lane, CampaignRecords, BackfillRecords, Describes
<1> QED
  BY <1>1, <1>7, <1>8, <1>9

\* A record is prepared only when it fits the ledger it was built from; anything else
\* ends the operation.
LEMMA Prepared ==
  ASSUME CampaignTypeOK, ControlInv, NEW p \in Operators, Prepare(p)
  PROVE  \/ Stop(p)
         \/ /\ Keeps(p) /\ op'[p].pc = "append" /\ op'[p].rec = NewRecord(p)
            /\ op'[p].todo = op[p].todo /\ op'[p].status = op[p].status
            /\ UNCHANGED lock
            /\ Readable(Lane(p)) /\ Fits(Lane(p), file[Lane(p)], NewRecord(p))
<1> SUFFICES ASSUME op' = [op EXCEPT ![p].pc = "append", ![p].rec = NewRecord(p)]
             PROVE  /\ Keeps(p) /\ op'[p].pc = "append" /\ op'[p].rec = NewRecord(p)
                    /\ op'[p].todo = op[p].todo /\ op'[p].status = op[p].status
  BY DEF Prepare
<1> DEFINE new == [op[p] EXCEPT !.pc = "append", !.rec = NewRecord(p)]
<1>1. op[p] \in Operations /\ op' = [op EXCEPT ![p] = new]
  BY DEF CampaignTypeOK
<1>2. NewRecord(p) \in CampaignRecords \cup BackfillRecords \cup {None}
  BY RecordTyped DEF Prepare, LaneRecords
<1>3. /\ new \in Operations /\ new.pc = "append" /\ new.rec = NewRecord(p)
      /\ new.todo = op[p].todo /\ new.status = op[p].status /\ new.plan = op[p].plan
  BY <1>1, <1>2 DEF Operations, Steps
<1> HIDE DEF new
<1> QED
  BY <1>1, <1>3, Moved DEF Keeps

\* Only an operation of the campaign whose ledger reads back whole sends its digest.
LEMMA Published ==
  ASSUME CampaignTypeOK, ControlInv, NEW p \in Operators, Publish(p)
  PROVE  \/ Stop(p)
         \/ /\ Keeps(p) /\ op'[p].pc = "sent" /\ op'[p].sent = file["acquisition"]
            /\ op'[p].rec = op[p].rec /\ op'[p].todo = op[p].todo
            /\ op'[p].status = op[p].status
            /\ UNCHANGED lock /\ OfCampaign(p) /\ ~torn["acquisition"]
<1>1. OfCampaign(p) /\ Lane(p) = "acquisition"
  BY DEF ControlInv, ControlOf, Publish, OfCampaign, Lane
<1> SUFFICES ASSUME op' = [op EXCEPT ![p].pc = "sent", ![p].sent = file["acquisition"]]
             PROVE  /\ Keeps(p) /\ op'[p].pc = "sent" /\ op'[p].sent = file["acquisition"]
                    /\ op'[p].rec = op[p].rec /\ op'[p].todo = op[p].todo
                    /\ op'[p].status = op[p].status
  BY <1>1 DEF Publish, Readable
<1> DEFINE new == [op[p] EXCEPT !.pc = "sent", !.sent = file["acquisition"]]
<1>2. op[p] \in Operations /\ op' = [op EXCEPT ![p] = new]
  BY DEF CampaignTypeOK
<1>3. file["acquisition"] \in Seq(CampaignRecords)
  BY DEF CampaignTypeOK, LaneRecords, Lanes
<1>4. /\ new \in Operations /\ new.pc = "sent" /\ new.sent = file["acquisition"]
      /\ new.rec = op[p].rec /\ new.todo = op[p].todo /\ new.status = op[p].status
      /\ new.plan = op[p].plan
  BY <1>2, <1>3 DEF Operations, Steps
<1> HIDE DEF new
<1> QED
  BY <1>2, <1>4, Moved DEF Keeps

\* A skipped call leaves what the operation still has to do.
LEMMA Skipped ==
  ASSUME CampaignTypeOK, NEW p \in Operators, NEW c,
         op' = [op EXCEPT ![p].todo = @ \ {c}]
  PROVE  /\ Keeps(p) /\ op'[p].pc = op[p].pc /\ op'[p].status = op[p].status
         /\ op'[p].todo = op[p].todo \ {c}
<1> DEFINE rest == op[p].todo \ {c}
           new == [op[p] EXCEPT !.todo = rest]
<1>1. op[p] \in Operations /\ op' = [op EXCEPT ![p] = new]
  BY DEF CampaignTypeOK
<1>2. rest \in SUBSET Calls
  BY <1>1 DEF Operations
<1> HIDE DEF rest
<1>3. /\ new \in Operations /\ new.pc = op[p].pc /\ new.status = op[p].status
      /\ new.todo = rest /\ new.plan = op[p].plan
  BY <1>1, <1>2 DEF Operations
<1> HIDE DEF new
<1> QED
  BY <1>1, <1>3, Moved DEF Keeps, rest

\* The next call gets its reservation.
LEMMA Reserving ==
  ASSUME CampaignTypeOK, NEW p \in Operators, NEW s \in Steps,
         op' = [op EXCEPT ![p].pc = s, ![p].status = "reserving"]
  PROVE  /\ Keeps(p) /\ op'[p].pc = s /\ op'[p].status = "reserving"
         /\ op'[p].todo = op[p].todo
<1> DEFINE new == [op[p] EXCEPT !.pc = s, !.status = "reserving"]
<1>1. op[p] \in Operations /\ op' = [op EXCEPT ![p] = new]
  BY DEF CampaignTypeOK
<1>2. /\ new \in Operations /\ new.pc = s /\ new.status = "reserving"
      /\ new.todo = op[p].todo /\ new.plan = op[p].plan
  BY <1>1 DEF Operations, Statuses
<1> HIDE DEF new
<1> QED
  BY <1>1, <1>2, Moved DEF Keeps

-----------------------------------------------------------------------------
(* Types and control.                                                      *)

\* What stays as it is for the other operators.
LEMMA OthersStand ==
  ASSUME NEW p \in Operators, Only(p), legacy' = legacy,
         \A q \in Operators \ {p} : grants'[q] = grants[q]
  PROVE  \A q \in Operators \ {p} :
           /\ op'[q] = op[q] /\ AuthOf(q)' = AuthOf(q) /\ Current(q)' = Current(q)
           /\ Active(q)' <=> Active(q)
           /\ OfCampaign(q)' <=> OfCampaign(q)
           /\ Request(q)' = Request(q)
           /\ ControlOf(q) => ControlOf(q)'
           /\ \A r : Describes(q, r) => Describes(q, r)'
BY DEF Only, AuthOf, Current, Active, OfCampaign, Request, ControlOf, Describes

\* The current call of an operation that keeps its plan and what it has left.
LEMMA SameCall ==
  ASSUME NEW p \in Operators, op'[p].plan = op[p].plan, op'[p].todo = op[p].todo,
         grants'[p] = grants[p]
  PROVE  Current(p)' = Current(p) /\ AuthOf(p)' = AuthOf(p) /\ Request(p)' = Request(p)
BY DEF Current, AuthOf, Request

\* Grants are used up at the start of an operation and nowhere else.
LEMMA GrantsStay ==
  ASSUME NEW p \in Operators, Work(p) \/ Disturb(p), ~ Start(p)
  PROVE  UNCHANGED <<grants, legacy, restored>>
BY DEF Work, Disturb, Plan, Refuse, Require, Prepare, AppendRecord, Publish, Commit, Observe,
       RepairPlan, NextCall, NextSessionCall, Call, Answer, Postflight, RepairCampaign,
       RepairBackfill, AddReceipts, CallFails, LoseReply, Crash, LoseLock, Environment

\* A step of an operator keeps its operation and the lock in order.
LEMMA ControlStep ==
  ASSUME CampaignTypeOK, ControlInv, NEW p \in Operators, Work(p) \/ Disturb(p)
  PROVE  /\ Only(p) /\ ControlOf(p)'
         /\ op'[p].pc = "append" => op'[p].rec \in LaneRecords(Lane(p))
         /\ lock' \in {lock, None, p}
         /\ lock' = p => op'[p].pc \notin {"idle", "granted"}
<1> USE DEF ControlOf, Recording, Ended, Active
<1>c. ControlOf(p) /\ op[p].plan.calls \in SUBSET Calls
  BY DEF ControlInv, CampaignTypeOK, Operations, Plans
<1>t. /\ lock \in Operators \cup {None} /\ None \notin Operators
      /\ lock = p => op[p].pc \notin {"idle", "granted"}
      /\ grants \in [Operators -> Nat]
      /\ \A q \in Operators : op[q] \in Operations
  BY CampaignAssumption DEF CampaignTypeOK
<1>o. op' = op /\ UNCHANGED <<grants, legacy>> => Only(p) /\ ControlOf(p)'
  BY <1>c DEF Only, CampaignTypeOK
<1>s. Stop(p) => Only(p) /\ op'[p].pc = "idle" /\ lock' \in {lock, None} /\ lock' # p
  BY Stopped
<1>i. op'[p].pc = "idle" => ControlOf(p)'
  OBVIOUS
<1>1. CASE Plan(p)
  <2>1. /\ Only(p) /\ op'[p].pc = "granted" /\ op'[p].plan = PlanOf(p) /\ op'[p].todo = {}
    BY <1>1, Planned
  <2>2. /\ PlanOf(p).day \in Days /\ PlanOf(p).calls \subseteq Elements(Windows[PlanOf(p).day])
    BY PlanTyped DEF CampaignTypeOK
  <2>3. lock' = lock /\ lock # p
    BY <1>1, <1>t DEF Plan
  <2> QED
    BY <2>1, <2>2, <2>3
<1>2. CASE Start(p)
  <2>1. /\ Keeps(p) /\ op'[p].pc = (IF p \in legacy THEN "prepare" ELSE "require")
        /\ op'[p].todo = op[p].plan.calls /\ op'[p].status = "authorizing"
        /\ grants'[p] = grants[p] + 1 /\ grants[p] \in Nat
    BY <1>2, <1>t, Started
  <2>2. op[p].pc = "granted" /\ lock' = p /\ legacy' = legacy
    BY <1>2 DEF Start, Environment
  <2> QED
    BY <1>c, <2>1, <2>2 DEF Keeps
<1>3. CASE Refuse(p)
  <2>1. Only(p) /\ op'[p] = Idle
    BY <1>3, IdleTyped, Moved DEF Refuse
  <2>2. lock' = lock /\ lock # p /\ op'[p].pc = "idle"
    BY <1>3, <1>t, <2>1 DEF Refuse, Idle
  <2> QED
    BY <2>1, <2>2, <1>i
<1> SUFFICES ASSUME ~ Start(p), ~ Plan(p), ~ Refuse(p)
             PROVE  /\ Only(p) /\ ControlOf(p)'
                    /\ op'[p].pc = "append" => op'[p].rec \in LaneRecords(Lane(p))
                    /\ lock' \in {lock, None, p}
                    /\ lock' = p => op'[p].pc \notin {"idle", "granted"}
  BY <1>1, <1>2, <1>3
<1>g. UNCHANGED <<grants, legacy>>
  BY GrantsStay
<1>4. CASE Require(p)
  <2>1. Stop(p) \/ (Go(p, "prepare") /\ lock' = lock)
    BY <1>4 DEF Require
  <2>2. Go(p, "prepare") => Keeps(p) /\ op'[p].pc = "prepare" /\ op'[p].todo = op[p].todo
                             /\ op'[p].status = op[p].status
    BY Went DEF Steps
  <2> QED
    BY <1>c, <1>g, <1>s, <1>i, <1>4, <2>1, <2>2 DEF Keeps, Require
<1>5. CASE Prepare(p)
  <2>1. NewRecord(p) \in LaneRecords(Lane(p))
    BY <1>5, RecordTyped DEF Prepare
  <2> QED
    BY <1>c, <1>g, <1>s, <1>i, <1>5, <2>1, Prepared DEF Keeps, Prepare
<1>p. CASE Proceed(p) /\ op[p].pc \in {"append", "observe"}
  <2>1. AfterRecord(p) \in {"repair", "call", "next", "failed"}
    BY DEF AfterRecord
  <2>2. AfterRecord(p) = "call" => op[p].status = "reserving"
    BY <1>c, <1>p DEF AfterRecord
  <2> QED
    BY <1>c, <1>g, <1>s, <1>i, <1>p, <2>1, <2>2, Proceeded DEF Keeps
<1>6. CASE AppendRecord(p)
  <2>1. CASE p \in legacy
    BY <1>p, <1>6, <2>1 DEF AppendRecord
  <2>2. CASE p \notin legacy
    <3>1. Go(p, "publish") /\ lock' = lock /\ op[p].pc = "append"
      BY <1>6, <2>2 DEF AppendRecord
    <3>2. Keeps(p) /\ op'[p].pc = "publish" /\ op'[p].todo = op[p].todo
          /\ op'[p].status = op[p].status
      BY <3>1, Went DEF Steps
    <3> QED
      BY <1>c, <1>g, <2>2, <3>1, <3>2 DEF Keeps
  <2> QED
    BY <2>1, <2>2
<1>7. CASE Publish(p)
  BY <1>c, <1>g, <1>s, <1>i, <1>7, Published DEF Keeps, Publish, OfCampaign
<1>8. CASE Commit(p) \/ LoseReply(p)
  <2>1. Go(p, "observe") /\ lock' = lock /\ op[p].pc = "sent"
    BY <1>8 DEF Commit, LoseReply
  <2>2. Keeps(p) /\ op'[p].pc = "observe" /\ op'[p].todo = op[p].todo
        /\ op'[p].status = op[p].status
    BY <2>1, Went DEF Steps
  <2> QED
    BY <1>c, <1>g, <2>1, <2>2 DEF Keeps
<1>9. CASE Observe(p)
  BY <1>p, <1>s, <1>i, <1>9 DEF Observe
<1>10. CASE RepairPlan(p)
  <2>1. Go(p, "next") /\ lock' = lock /\ op[p].pc = "repair"
    BY <1>10 DEF RepairPlan
  <2>2. Keeps(p) /\ op'[p].pc = "next" /\ op'[p].todo = op[p].todo
    BY <2>1, Went DEF Steps
  <2> QED
    BY <1>c, <1>g, <2>1, <2>2 DEF Keeps
<1>11. CASE NextCall(p) \/ NextSessionCall(p)
  <2>1. op[p].pc = "next" /\ op[p].todo # {}
    BY <1>11 DEF NextCall, NextSessionCall
  <2>2. \/ Stop(p)
        \/ \E c : op' = [op EXCEPT ![p].todo = @ \ {c}] /\ lock' = lock
        \/ /\ p \notin legacy /\ lock' = lock
           /\ op' = [op EXCEPT ![p].pc = "require", ![p].status = "reserving"]
        \/ /\ p \in legacy /\ lock' = lock
           /\ op' = [op EXCEPT ![p].pc = "prepare", ![p].status = "reserving"]
    BY <1>11 DEF NextCall, NextSessionCall
  <2>3. ASSUME NEW c, op' = [op EXCEPT ![p].todo = @ \ {c}]
        PROVE  Only(p) /\ ControlOf(p)' /\ op'[p].pc = "next"
    BY <1>c, <1>g, <2>1, <2>3, Skipped DEF Keeps
  <2>4. ASSUME NEW s \in {"require", "prepare"}, s = "require" => p \notin legacy,
               op' = [op EXCEPT ![p].pc = s, ![p].status = "reserving"]
        PROVE  Only(p) /\ ControlOf(p)' /\ op'[p].pc = s
    <3>1. s \in Steps
      BY DEF Steps
    <3> QED
      BY <1>c, <1>g, <2>1, <2>4, <3>1, Reserving DEF Keeps
  <2> QED
    BY <1>s, <1>i, <2>2, <2>3, <2>4
<1>r. ASSUME NEW s \in Ended, Resolve(p, s), op[p].pc \in {"call", "answer"}, lock' = lock
      PROVE  /\ Only(p) /\ ControlOf(p)'
             /\ op'[p].pc \in {"prepare", "require"}
  <2>1. s \in Statuses
    BY DEF Statuses
  <2> QED
    BY <1>c, <1>g, <1>r, <2>1, Resolved DEF Keeps
<1>12. CASE Call(p)
  <2>1. op[p].pc = "call" /\ lock' = lock
        /\ (Go(p, "answer") \/ Resolve(p, "failed_before_admission"))
    BY <1>12 DEF Call
  <2>2. Go(p, "answer") => Keeps(p) /\ op'[p].pc = "answer" /\ op'[p].todo = op[p].todo
                            /\ op'[p].status = op[p].status
    BY Went DEF Steps
  <2> QED
    BY <1>c, <1>g, <1>r, <2>1, <2>2 DEF Keeps
<1>13. CASE Answer(p) \/ CallFails(p)
  <2>1. /\ op[p].pc = "answer" /\ lock' = lock
        /\ Resolve(p, "checkpointed") \/ Resolve(p, "failed_after_admission")
    BY <1>13 DEF Answer, CallFails
  <2> QED
    BY <1>r, <2>1
<1>14. CASE Postflight(p) \/ Crash(p)
  BY <1>s, <1>i, <1>14 DEF Postflight, Crash
<1>15. CASE RepairCampaign(p) \/ RepairBackfill(p) \/ LoseLock(p)
  <2>1. op' = op /\ lock' \in {lock, None}
    BY <1>15 DEF RepairCampaign, RepairBackfill, AddReceipts, LoseLock
  <2> QED
    BY <1>g, <1>o, <1>t, <2>1 DEF CampaignTypeOK
<1> QED
  BY <1>4, <1>5, <1>6, <1>7, <1>8, <1>9, <1>10, <1>11, <1>12, <1>13, <1>14, <1>15
     DEF Work, Disturb

\* A ledger is replaced by one of its own lane.
LEMMA FileTyped ==
  ASSUME CampaignTypeOK, NEW n \in Lanes, NEW l \in Seq(LaneRecords(n)),
         file' = [file EXCEPT ![n] = l]
  PROVE  /\ file' \in [Lanes -> Seq(CampaignRecords \cup BackfillRecords)]
         /\ \A m \in Lanes : file'[m] \in Seq(LaneRecords(m))
<1>1. LaneRecords(n) \subseteq CampaignRecords \cup BackfillRecords
  BY DEF LaneRecords
<1>2. l \in Seq(CampaignRecords \cup BackfillRecords)
  BY <1>1, SeqMonotonic
<1> QED
  BY <1>2 DEF CampaignTypeOK

\* The database holds ledgers of the campaign only.
LEMMA RowTyped ==
  ASSUME CampaignTypeOK, NEW l \in Seq(CampaignRecords), NEW w \in Days, PublishRow(l, w)
  PROVE  anchor' \in Seq(CampaignRecords) /\ mark' \in [Days -> Seq(CampaignRecords)]
BY DEF CampaignTypeOK, PublishRow

\* Evidence stays evidence.
LEMMA EvidenceTyped ==
  ASSUME CampaignTypeOK, NEW p \in Operators, Work(p) \/ Disturb(p)
  PROVE  evidence' \in [Calls -> Evidence]
<1>1. evidence \in [Calls -> Evidence]
  BY DEF CampaignTypeOK
<1>2. CASE RepairPlan(p)
  BY <1>1, <1>2 DEF RepairPlan, Evidence
<1>3. CASE NextCall(p) \/ NextSessionCall(p)
  BY <1>1, <1>3 DEF NextCall, NextSessionCall, WithReceipt, Evidence
<1>4. CASE Answer(p)
  BY <1>1, <1>4 DEF Answer, Evidence
<1>5. CASE RepairCampaign(p) \/ RepairBackfill(p)
  BY <1>1, <1>5 DEF RepairCampaign, RepairBackfill, AddReceipts, Evidence
<1>6. CASE CallFails(p)
  BY <1>1, <1>6 DEF CallFails, Evidence
<1>7. CASE evidence' = evidence
  BY <1>1, <1>7
<1>8. \/ evidence' = evidence \/ RepairPlan(p) \/ NextCall(p) \/ NextSessionCall(p)
      \/ Answer(p) \/ RepairCampaign(p) \/ RepairBackfill(p) \/ CallFails(p)
  BY DEF Work, Disturb, Plan, Start, Refuse, Require, Prepare, AppendRecord, Publish, Commit,
         Observe, Call, Postflight, LoseReply, Crash, LoseLock, Database
<1> QED
  BY <1>2, <1>3, <1>4, <1>5, <1>6, <1>7, <1>8

\* A request is for a call the operation has left.
LEMMA RequestTyped ==
  ASSUME CampaignTypeOK, ControlInv, NEW p \in Operators, Call(p)
  PROVE  /\ Current(p) \in op[p].todo /\ Current(p) \in Calls
         /\ Request(p) \in [call: Calls, auth: Auths, window: Days]
         /\ vendor' = vendor \/ vendor' = Append(vendor, Request(p))
<1>1. /\ op[p].todo # {} /\ op[p].todo \subseteq Elements(Windows[op[p].plan.day])
      /\ op[p].plan.day \in Days
  BY DEF Call, ControlInv, ControlOf
<1>2. Current(p) \in op[p].todo /\ Current(p) \in Calls
  BY <1>1, FirstIn, WindowSize DEF Current
<1>3. AuthOf(p) \in Auths
  BY DEF AuthOf, Auths, CampaignTypeOK
<1> QED
  BY <1>1, <1>2, <1>3 DEF Request, Call

\* Every variable a step of p writes keeps its kind.
LEMMA DataStep ==
  ASSUME CampaignTypeOK, ControlInv, NEW p \in Operators, Work(p) \/ Disturb(p)
  PROVE  /\ file' \in [Lanes -> Seq(CampaignRecords \cup BackfillRecords)]
         /\ \A n \in Lanes : file'[n] \in Seq(LaneRecords(n))
         /\ torn' \in [Lanes -> BOOLEAN]
         /\ anchor' \in Seq(CampaignRecords) /\ mark' \in [Days -> Seq(CampaignRecords)]
         /\ floating' \subseteq [ledger: Seq(CampaignRecords), window: Days]
         /\ day' = day /\ grants' \in [Operators -> Nat]
         /\ vendor' \in Seq([call: Calls, auth: Auths, window: Days])
         /\ faults' \in 0..MaxFaults /\ lockLost' \in BOOLEAN /\ restored' = restored
         /\ legacy' = legacy
<1>1. /\ file' \in [Lanes -> Seq(CampaignRecords \cup BackfillRecords)]
      /\ \A n \in Lanes : file'[n] \in Seq(LaneRecords(n))
  <2>1. CASE AppendRecord(p)
    <3>1. Lane(p) \in Lanes /\ op[p].rec \in LaneRecords(Lane(p))
      BY <2>1 DEF AppendRecord, CampaignTypeOK, Lane, Lanes
    <3>2. Append(file[Lane(p)], op[p].rec) \in Seq(LaneRecords(Lane(p)))
      BY <3>1 DEF CampaignTypeOK
    <3>3. file' = file \/ file' = [file EXCEPT ![Lane(p)] = Append(file[Lane(p)], op[p].rec)]
      BY <2>1 DEF AppendRecord
    <3>4. CASE file' = file
      BY <3>4 DEF CampaignTypeOK
    <3> QED
      BY <3>1, <3>2, <3>3, <3>4, FileTyped
  <2>2. CASE file' = file
    BY <2>2 DEF CampaignTypeOK
  <2>3. file' = file \/ AppendRecord(p)
    BY DEF Work, Disturb, Plan, Start, Refuse, Require, Prepare, Publish, Commit, Observe,
           RepairPlan, NextCall, NextSessionCall, Call, Answer, Postflight, RepairCampaign,
           RepairBackfill, AddReceipts, CallFails, LoseReply, Crash, LoseLock, Disk
  <2> QED
    BY <2>1, <2>2, <2>3
<1>2. torn' \in [Lanes -> BOOLEAN]
  <2>1. torn' = torn \/ torn' = [torn EXCEPT ![Lane(p)] = TRUE]
    BY DEF Work, Disturb, Plan, Start, Refuse, Require, Prepare, AppendRecord, Publish, Commit,
           Observe, RepairPlan, NextCall, NextSessionCall, Call, Answer, Postflight,
           RepairCampaign, RepairBackfill, AddReceipts, CallFails, LoseReply, Crash, LoseLock, Disk
  <2> QED
    BY <2>1 DEF CampaignTypeOK
<1>3. op[p].sent \in Seq(CampaignRecords) /\ (op[p].pc = "sent" => op[p].plan.day \in Days)
  BY DEF CampaignTypeOK, Operations
<1>4. anchor' \in Seq(CampaignRecords) /\ mark' \in [Days -> Seq(CampaignRecords)]
  <2>1. CASE Commit(p)
    BY <1>3, <2>1, RowTyped DEF Commit
  <2>2. UNCHANGED <<anchor, mark>> \/ Commit(p)
    BY DEF Work, Disturb, Plan, Start, Refuse, Require, Prepare, AppendRecord, Publish, Observe,
           RepairPlan, NextCall, NextSessionCall, Call, Answer, Postflight, RepairCampaign,
           RepairBackfill, AddReceipts, CallFails, LoseReply, Crash, LoseLock, Database
  <2> QED
    BY <2>1, <2>2 DEF CampaignTypeOK
<1>5. floating' \subseteq [ledger: Seq(CampaignRecords), window: Days]
  <2>1. \/ floating' = floating
        \/ /\ op[p].pc = "sent"
           /\ floating' = floating \cup {[ledger |-> op[p].sent, window |-> op[p].plan.day]}
    BY DEF Work, Disturb, Plan, Start, Refuse, Require, Prepare, AppendRecord, Publish, Commit,
           Observe, RepairPlan, NextCall, NextSessionCall, Call, Answer, Postflight,
           RepairCampaign, RepairBackfill, AddReceipts, CallFails, LoseReply, Crash, LoseLock,
           Database
  <2> QED
    BY <1>3, <2>1 DEF CampaignTypeOK
<1>6. grants' \in [Operators -> Nat]
  BY Started, GrantsStay DEF CampaignTypeOK
<1>7. vendor' \in Seq([call: Calls, auth: Auths, window: Days])
  <2>1. CASE Call(p)
    <3> DEFINE R == [call: Calls, auth: Auths, window: Days]
    <3>1. vendor \in Seq(R)
      BY DEF CampaignTypeOK
    <3>2. /\ Request(p) \in R
          /\ vendor' = vendor \/ vendor' = Append(vendor, Request(p))
      BY <2>1, RequestTyped
    <3> HIDE DEF R
    <3>3. vendor' \in Seq(R)
      BY <3>1, <3>2
    <3> QED
      BY <3>3 DEF R
  <2>2. vendor' = vendor \/ Call(p)
    BY DEF Work, Disturb, Plan, Start, Refuse, Require, Prepare, AppendRecord, Publish, Commit,
           Observe, RepairPlan, NextCall, NextSessionCall, Answer, Postflight, RepairCampaign,
           RepairBackfill, AddReceipts, CallFails, LoseReply, Crash, LoseLock
  <2> QED
    BY <2>1, <2>2 DEF CampaignTypeOK
<1>8. /\ day' = day /\ legacy' = legacy /\ restored' = restored
      /\ lockLost' \in {lockLost, TRUE}
      /\ faults' = faults \/ (faults < MaxFaults /\ faults' = faults + 1)
  BY DEF Work, Disturb, Plan, Start, Refuse, Require, Prepare, AppendRecord, Publish, Commit,
         Observe, RepairPlan, NextCall, NextSessionCall, Call, Answer, Postflight,
         RepairCampaign, RepairBackfill, AddReceipts, CallFails, LoseReply, Crash, LoseLock,
         Environment, Fault
<1>9. faults' \in 0..MaxFaults /\ lockLost' \in BOOLEAN
  <2>1. faults \in 0..MaxFaults /\ lockLost \in BOOLEAN /\ MaxFaults \in Nat
    BY CampaignAssumption DEF CampaignTypeOK
  <2>2. faults' \in 0..MaxFaults
    BY <1>8, <2>1
  <2> QED
    BY <1>8, <2>1, <2>2
<1> QED
  BY <1>1, <1>2, <1>4, <1>5, <1>6, <1>7, <1>8, <1>9

\* Nothing is under way at the beginning.
LEMMA TypeInit == CampaignInit => CampaignTypeOK /\ ControlInv
<1> SUFFICES ASSUME CampaignInit PROVE CampaignTypeOK /\ ControlInv
  OBVIOUS
<1>1. \A S : <<>> \in Seq(S)
  BY EmptySeq
<1>2. op \in [Operators -> Operations] /\ \A p \in Operators : op[p].pc = "idle"
  BY IdleTyped DEF CampaignInit, Idle
<1>3. /\ file \in [Lanes -> Seq(CampaignRecords \cup BackfillRecords)]
      /\ \A n \in Lanes : file[n] \in Seq(LaneRecords(n))
      /\ torn \in [Lanes -> BOOLEAN]
      /\ anchor \in Seq(CampaignRecords) /\ mark \in [Days -> Seq(CampaignRecords)]
      /\ floating \subseteq [ledger: Seq(CampaignRecords), window: Days]
      /\ vendor \in Seq([call: Calls, auth: Auths, window: Days])
  BY <1>1 DEF CampaignInit
<1>4. /\ evidence \in [Calls -> Evidence] /\ grants \in [Operators -> Nat]
      /\ lock = None /\ day \in Days /\ legacy \subseteq Operators
      /\ faults \in 0..MaxFaults /\ lockLost \in BOOLEAN /\ restored \in BOOLEAN
  <2>1. MaxFaults \in Nat
    BY CampaignAssumption
  <2>2. faults = 0 /\ lock = None
    BY DEF CampaignInit
  <2>3. evidence = [c \in Calls |-> "none"] /\ grants = [p \in Operators |-> 0]
    BY DEF CampaignInit
  <2>4. day \in Days /\ legacy \subseteq Operators
    BY DEF CampaignInit
  <2>5. lockLost \in BOOLEAN /\ restored \in BOOLEAN
    BY DEF CampaignInit
  <2>6. evidence \in [Calls -> Evidence] /\ grants \in [Operators -> Nat]
    BY <2>3 DEF Evidence
  <2>7. faults \in 0..MaxFaults
    BY <2>1, <2>2
  <2> QED
    BY <2>2, <2>4, <2>5, <2>6, <2>7
<1>5. CampaignTypeOK
  BY <1>2, <1>3, <1>4 DEF CampaignTypeOK
<1> QED
  BY <1>2, <1>5 DEF ControlInv, ControlOf, Recording, Active

\* Every step keeps every variable in its kind and every operation in order.
LEMMA TypeStep ==
  ASSUME CampaignTypeOK, ControlInv, [CampaignNext]_campaignVars
  PROVE  CampaignTypeOK' /\ ControlInv'
<1>t. /\ op \in [Operators -> Operations] /\ None \notin Operators
      /\ lock # None => op[lock].pc \notin {"idle", "granted"}
      /\ \A q \in Operators :
           /\ op[q].pc # "idle" => op[q].plan.day \in Days
           /\ op[q].pc = "append" => op[q].rec \in LaneRecords(Lane(q))
  BY CampaignAssumption DEF CampaignTypeOK
<1>1. ASSUME NEW p \in Operators, Work(p) \/ Disturb(p)
      PROVE  CampaignTypeOK' /\ ControlInv'
  <2>1. /\ Only(p) /\ ControlOf(p)' /\ lock' \in {lock, None, p}
        /\ op'[p].pc = "append" => op'[p].rec \in LaneRecords(Lane(p))
        /\ lock' = p => op'[p].pc \notin {"idle", "granted"}
    BY <1>1, ControlStep
  <2>2. legacy' = legacy /\ \A q \in Operators \ {p} : grants'[q] = grants[q]
    BY <1>1, DataStep, Started, GrantsStay
  <2>3. \A q \in Operators \ {p} : op'[q] = op[q] /\ (ControlOf(q) => ControlOf(q)')
    BY <2>1, <2>2, OthersStand
  <2>4. ControlInv'
    BY <2>1, <2>3 DEF ControlInv
  <2>5. op'[p].pc # "idle" => op'[p].plan.day \in Days
    BY <2>1 DEF ControlOf
  <2>6. op' \in [Operators -> Operations]
    BY <2>1 DEF Only
  <2>7. lock' \in Operators \cup {None} /\ (lock' # None => op'[lock'].pc \notin {"idle", "granted"})
    BY <1>t, <2>1, <2>3 DEF CampaignTypeOK
  <2>8. \A q \in Operators :
          /\ op'[q].pc # "idle" => op'[q].plan.day \in Days
          /\ op'[q].pc = "append" => op'[q].rec \in LaneRecords(Lane(q)')
    BY <1>t, <2>1, <2>2, <2>3, <2>5 DEF Lane
  <2>9. evidence' \in [Calls -> Evidence]
    BY <1>1, EvidenceTyped
  <2>10. day' \in Days /\ restored' \in BOOLEAN /\ legacy' \subseteq Operators
    BY <1>1, DataStep DEF CampaignTypeOK
  <2> QED
    BY <1>1, <2>4, <2>6, <2>7, <2>8, <2>9, <2>10, DataStep DEF CampaignTypeOK
<1>2. ASSUME NEW f \in floating, Land(f) PROVE CampaignTypeOK' /\ ControlInv'
  <2>1. f.ledger \in Seq(CampaignRecords) /\ f.window \in Days
    BY DEF CampaignTypeOK
  <2>2. anchor' \in Seq(CampaignRecords) /\ mark' \in [Days -> Seq(CampaignRecords)]
    BY <1>2, <2>1, RowTyped DEF Land
  <2> QED
    BY <1>2, <2>2 DEF Land, Disk, Environment, CampaignTypeOK, ControlInv, ControlOf, Active, Lane
<1>3. CASE Restore
  <2>1. PICK n \in 0..Len(file["acquisition"]) :
          file' = [file EXCEPT !["acquisition"] = SubSeq(file["acquisition"], 1, n)]
    BY <1>3 DEF Restore
  <2>2. "acquisition" \in Lanes /\ file["acquisition"] \in Seq(LaneRecords("acquisition"))
    BY DEF CampaignTypeOK, Lanes
  <2>3. SubSeq(file["acquisition"], 1, n) \in Seq(LaneRecords("acquisition"))
    BY <2>1, <2>2
  <2>4. /\ file' \in [Lanes -> Seq(CampaignRecords \cup BackfillRecords)]
        /\ \A m \in Lanes : file'[m] \in Seq(LaneRecords(m))
    BY <2>1, <2>2, <2>3, FileTyped
  <2>5. torn' \in [Lanes -> BOOLEAN]
    BY <1>3 DEF Restore, CampaignTypeOK
  <2>6. faults' \in 0..MaxFaults /\ restored' \in BOOLEAN
    BY <1>3, CampaignAssumption DEF Restore, Fault, CampaignTypeOK
  <2>7. UNCHANGED <<anchor, mark, floating, evidence, day, legacy, lock, op, grants, vendor, lockLost>>
    BY <1>3 DEF Restore, Database
  <2> QED
    BY <2>4, <2>5, <2>6, <2>7 DEF CampaignTypeOK, ControlInv, ControlOf, Active, Lane
<1>4. CASE NextSession
  <2>1. day' \in Days
    BY <1>4, CampaignAssumption DEF NextSession, CampaignTypeOK, Days
  <2> QED
    BY <1>4, <2>1 DEF NextSession, Disk, Database, CampaignTypeOK, ControlInv, ControlOf, Active, Lane
<1>5. CASE UNCHANGED campaignVars
  BY <1>5 DEF campaignVars, CampaignTypeOK, ControlInv, ControlOf, Active, Lane
<1> QED
  BY <1>1, <1>2, <1>3, <1>4, <1>5 DEF CampaignNext

-----------------------------------------------------------------------------
(* The course of an operation.                                             *)

Frame == <<file, torn, anchor, mark, floating, vendor>>

\* The step that brought an operation to each point.
LEMMA Course ==
  ASSUME CampaignTypeOK, ControlInv, NEW p \in Operators, Work(p) \/ Disturb(p)
  PROVE  \/ op' = op /\ UNCHANGED Frame
         \/ op'[p].pc \in {"idle", "granted", "repair", "next"}
         \/ /\ Start(p) /\ UNCHANGED Frame
            /\ op'[p].pc = (IF p \in legacy THEN "prepare" ELSE "require")
            /\ op'[p].status = "authorizing"
         \/ /\ Require(p) /\ UNCHANGED Frame /\ op'[p].pc = "prepare" /\ Keeps(p)
            /\ op'[p].todo = op[p].todo /\ op'[p].status = op[p].status
            /\ Readable(Lane(p)) /\ Anchored(Lane(p))
         \/ /\ Prepare(p) /\ UNCHANGED Frame /\ op'[p].pc = "append" /\ Keeps(p)
            /\ op'[p].todo = op[p].todo /\ op'[p].status = op[p].status
            /\ op'[p].rec = NewRecord(p)
            /\ Readable(Lane(p)) /\ Fits(Lane(p), file[Lane(p)], NewRecord(p))
         \/ /\ AppendRecord(p) /\ OfCampaign(p) /\ op'[p].pc = "publish" /\ Keeps(p)
            /\ op'[p].rec = op[p].rec /\ op'[p].todo = op[p].todo
            /\ op'[p].status = op[p].status
         \/ /\ AppendRecord(p) /\ p \in legacy /\ op'[p].pc = "call" /\ Keeps(p)
            /\ op[p].status = "reserving" /\ op'[p].status = op[p].status
            /\ op'[p].todo = op[p].todo
         \/ /\ Publish(p) /\ OfCampaign(p) /\ UNCHANGED Frame /\ op'[p].pc = "sent" /\ Keeps(p)
            /\ op'[p].rec = op[p].rec /\ op'[p].todo = op[p].todo
            /\ op'[p].status = op[p].status /\ op'[p].sent = file["acquisition"]
            /\ ~torn["acquisition"]
         \/ /\ Commit(p) \/ LoseReply(p)
            /\ op'[p].pc = "observe" /\ Keeps(p)
            /\ op'[p].rec = op[p].rec /\ op'[p].todo = op[p].todo
            /\ op'[p].status = op[p].status /\ op'[p].sent = op[p].sent
         \/ /\ Observe(p) /\ UNCHANGED Frame /\ op'[p].pc = "call" /\ Keeps(p)
            /\ op[p].status = "reserving" /\ op'[p].status = op[p].status
            /\ op'[p].todo = op[p].todo /\ anchor = op[p].sent
         \/ /\ NextCall(p) \/ NextSessionCall(p)
            /\ UNCHANGED Frame /\ op'[p].pc \in {"require", "prepare"} /\ Keeps(p)
            /\ op'[p].pc = "prepare" => p \in legacy
            /\ op[p].pc = "next" /\ op'[p].todo = op[p].todo /\ op'[p].status = "reserving"
         \/ /\ Call(p) /\ op'[p].pc = "answer" /\ Keeps(p)
            /\ op'[p].todo = op[p].todo /\ op'[p].status = op[p].status
         \/ /\ op[p].pc \in {"call", "answer"} /\ UNCHANGED Frame
            /\ op'[p].pc = (IF p \in legacy THEN "prepare" ELSE "require")
            /\ Keeps(p) /\ op'[p].todo = op[p].todo /\ op'[p].status \in Ended
<1> DEFINE Goal == \/ op' = op /\ UNCHANGED Frame
                   \/ op'[p].pc \in {"idle", "granted", "repair", "next"}
<1>s. Stop(p) => Goal
  BY Stopped
<1>1. CASE Plan(p)
  BY <1>1, Planned
<1>2. CASE Start(p)
  BY <1>2, Started DEF Start, Frame, Disk, Database
<1>3. CASE Refuse(p)
  <2>1. op'[p] = Idle
    BY <1>3, IdleTyped, Moved DEF Refuse
  <2> QED
    BY <2>1 DEF Idle
<1>4. CASE Require(p)
  <2>1. UNCHANGED Frame
    BY <1>4 DEF Require, Frame, Disk, Database
  <2>2. Stop(p) \/ (Go(p, "prepare") /\ Readable(Lane(p)) /\ Anchored(Lane(p)))
    BY <1>4 DEF Require
  <2>3. "prepare" \in Steps
    BY DEF Steps
  <2> QED
    BY <1>s, <1>4, <2>1, <2>2, <2>3, Went
<1>5. CASE Prepare(p)
  <2>1. UNCHANGED Frame
    BY <1>5 DEF Prepare, Frame, Disk, Database
  <2> QED
    BY <1>s, <1>5, <2>1, Prepared
<1>6. CASE AppendRecord(p)
  <2>1. CASE p \in legacy
    <3>1. Proceed(p) /\ op[p].pc = "append"
      BY <1>6, <2>1 DEF AppendRecord
    <3>2. AfterRecord(p) \in {"repair", "call", "next", "failed"}
          /\ (AfterRecord(p) = "call" => op[p].status = "reserving")
      <4>1. op[p].status \in {"authorizing", "reserving"} \cup Ended
        BY <3>1 DEF ControlInv, ControlOf, Recording
      <4> QED
        BY <4>1 DEF AfterRecord, Ended
    <3> QED
      BY <1>s, <1>6, <2>1, <3>1, <3>2, Proceeded
  <2>2. CASE p \notin legacy
    <3>1. Go(p, "publish") /\ "publish" \in Steps
      BY <1>6, <2>2 DEF AppendRecord, Steps
    <3> QED
      BY <1>6, <2>2, <3>1, Went DEF OfCampaign
  <2> QED
    BY <2>1, <2>2
<1>7. CASE Publish(p)
  <2>1. UNCHANGED Frame
    BY <1>7 DEF Publish, Frame, Disk, Database
  <2> QED
    BY <1>s, <1>7, <2>1, Published
<1>8. CASE Commit(p) \/ LoseReply(p)
  <2>1. Go(p, "observe") /\ "observe" \in Steps
    BY <1>8 DEF Commit, LoseReply, Steps
  <2> QED
    BY <1>8, <2>1, Went
<1>9. CASE Observe(p)
  <2>1. UNCHANGED Frame /\ op[p].pc = "observe" /\ (Stop(p) \/ (Proceed(p) /\ anchor = op[p].sent))
    BY <1>9 DEF Observe, Frame, Disk, Database
  <2>2. AfterRecord(p) \in {"repair", "call", "next", "failed"}
        /\ (AfterRecord(p) = "call" => op[p].status = "reserving")
    <3>1. op[p].status \in {"authorizing", "reserving"} \cup Ended
      BY <2>1 DEF ControlInv, ControlOf, Recording
    <3> QED
      BY <3>1 DEF AfterRecord, Ended
  <2> QED
    BY <1>s, <1>9, <2>1, <2>2, Proceeded
<1>10. CASE RepairPlan(p)
  <2>1. Go(p, "next") /\ "next" \in Steps
    BY <1>10 DEF RepairPlan, Steps
  <2> QED
    BY <2>1, Went
<1>11. CASE NextCall(p) \/ NextSessionCall(p)
  <2>1. op[p].pc = "next" /\ UNCHANGED Frame
    BY <1>11 DEF NextCall, NextSessionCall, Frame, Disk
  <2>2. \/ Stop(p)
        \/ \E c : op' = [op EXCEPT ![p].todo = @ \ {c}]
        \/ op' = [op EXCEPT ![p].pc = "require", ![p].status = "reserving"]
        \/ p \in legacy /\ op' = [op EXCEPT ![p].pc = "prepare", ![p].status = "reserving"]
    BY <1>11 DEF NextCall, NextSessionCall
  <2>3. "require" \in Steps /\ "prepare" \in Steps
    BY DEF Steps
  <2>4. ASSUME NEW c, op' = [op EXCEPT ![p].todo = @ \ {c}] PROVE op'[p].pc = "next"
    BY <2>1, <2>4, Skipped
  <2> QED
    BY <1>s, <1>11, <2>1, <2>2, <2>3, <2>4, Reserving
<1>12. CASE Call(p)
  <2>1. op[p].pc = "call"
        /\ (Go(p, "answer") \/ (UNCHANGED Frame /\ Resolve(p, "failed_before_admission")))
    BY <1>12 DEF Call, Frame, Disk, Database
  <2>2. "answer" \in Steps /\ "failed_before_admission" \in Statuses \cap Ended
    BY DEF Steps, Statuses, Ended
  <2> QED
    BY <1>12, <2>1, <2>2, Went, Resolved
<1>13. CASE Answer(p) \/ CallFails(p)
  <2>1. op[p].pc = "answer" /\ UNCHANGED Frame
        /\ (Resolve(p, "checkpointed") \/ Resolve(p, "failed_after_admission"))
    BY <1>13 DEF Answer, CallFails, Frame, Disk
  <2>2. "checkpointed" \in Statuses \cap Ended /\ "failed_after_admission" \in Statuses \cap Ended
    BY DEF Statuses, Ended
  <2> QED
    BY <2>1, <2>2, Resolved
<1>14. CASE Postflight(p) \/ Crash(p)
  BY <1>s, <1>14 DEF Postflight, Crash
<1>15. CASE RepairCampaign(p) \/ RepairBackfill(p) \/ LoseLock(p)
  BY <1>15 DEF RepairCampaign, RepairBackfill, AddReceipts, LoseLock, Frame, Disk, Database
<1> QED
  BY <1>1, <1>2, <1>3, <1>4, <1>5, <1>6, <1>7, <1>8, <1>9, <1>10, <1>11, <1>12, <1>13, <1>14,
     <1>15 DEF Work, Disturb

-----------------------------------------------------------------------------
(* Ledgers that grow, and the history of the anchor.                       *)

\* Beginning another ledger is a partial order, and records are never lost by it.
LEMMA Beginnings ==
  ASSUME NEW S, NEW T, NEW U, NEW s \in Seq(S), NEW l \in Seq(T), NEW m \in Seq(U)
  PROVE  /\ Begins(s, s)
         /\ Begins(s, l) /\ Begins(l, m) => Begins(s, m)
         /\ Begins(s, m) /\ Begins(l, m) /\ Len(s) <= Len(l) => Begins(s, l)
         /\ Begins(s, l) => Elements(s) \subseteq Elements(l)
         /\ Begins(s, l) => \A v : Attempted(s, v) => Attempted(l, v)
         /\ Begins(s, l) => \A x, c : HasOutcome(s, x, c) => HasOutcome(l, x, c)
<1>1. /\ Len(s) \in Nat /\ Len(l) \in Nat /\ Len(m) \in Nat
      /\ DOMAIN s = 1..Len(s) /\ DOMAIN l = 1..Len(l)
  OBVIOUS
<1>2. Begins(s, s)
  BY <1>1 DEF Begins
<1>3. Begins(s, l) /\ Begins(l, m) => Begins(s, m)
  BY <1>1 DEF Begins
<1>4. Begins(s, m) /\ Begins(l, m) /\ Len(s) <= Len(l) => Begins(s, l)
  BY <1>1 DEF Begins
<1>5. Begins(s, l) => Elements(s) \subseteq Elements(l)
  BY <1>1 DEF Begins, Elements
<1> QED
  BY <1>2, <1>3, <1>4, <1>5 DEF Attempted, HasOutcome

\* A ledger begins the one a record is appended to.
LEMMA Appended ==
  ASSUME NEW S, NEW l \in Seq(S), NEW r
  PROVE  /\ Begins(l, Append(l, r)) /\ Len(Append(l, r)) = Len(l) + 1
         /\ Append(l, r)[Len(l) + 1] = r /\ r \in Elements(Append(l, r))
<1>1. /\ Len(Append(l, r)) = Len(l) + 1 /\ Len(l) \in Nat
      /\ DOMAIN Append(l, r) = 1..(Len(l) + 1)
      /\ \A i \in 1..Len(l) : Append(l, r)[i] = l[i]
      /\ Append(l, r)[Len(l) + 1] = r
  OBVIOUS
<1> QED
  BY <1>1 DEF Begins, Elements

\* The ledgers in the files, in the database and on their way.
LEMMA LedgersTyped ==
  ASSUME CampaignTypeOK
  PROVE  /\ "acquisition" \in Lanes /\ "backfill" \in Lanes /\ \A p : Lane(p) \in Lanes
         /\ file["acquisition"] \in Seq(CampaignRecords)
         /\ file["backfill"] \in Seq(BackfillRecords)
         /\ anchor \in Seq(CampaignRecords)
         /\ \A p \in Operators : op[p].sent \in Seq(CampaignRecords)
         /\ \A f \in floating : f.ledger \in Seq(CampaignRecords) /\ f.window \in Days
BY DEF CampaignTypeOK, Lanes, Lane, LaneRecords, Operations

\* What a step of p does to the files, the database and the requests.
LEMMA Effects ==
  ASSUME CampaignTypeOK, ControlInv, NEW p \in Operators, Work(p) \/ Disturb(p)
  PROVE  /\ \/ file' = file
            \/ /\ AppendRecord(p) /\ ~torn[Lane(p)]
               /\ file' = [file EXCEPT ![Lane(p)] = Append(file[Lane(p)], op[p].rec)]
         /\ \A n \in Lanes : Begins(file[n], file'[n])
         /\ torn' = torn \/ (Crash(p) /\ op[p].pc = "append" /\ torn' = [torn EXCEPT ![Lane(p)] = TRUE])
         /\ UNCHANGED <<anchor, mark>> \/ (Commit(p) /\ PublishRow(op[p].sent, op[p].plan.day))
         /\ \/ floating' = floating
            \/ /\ op[p].pc = "sent"
               /\ floating' = floating \cup {[ledger |-> op[p].sent, window |-> op[p].plan.day]}
         /\ vendor' = vendor \/ (Call(p) /\ vendor' = Append(vendor, Request(p)))
<1>1. \/ file' = file
      \/ /\ AppendRecord(p) /\ ~torn[Lane(p)]
         /\ file' = [file EXCEPT ![Lane(p)] = Append(file[Lane(p)], op[p].rec)]
  BY DEF Work, Disturb, Plan, Start, Refuse, Require, Prepare, AppendRecord, Publish, Commit,
         Observe, RepairPlan, NextCall, NextSessionCall, Call, Answer, Postflight,
         RepairCampaign, RepairBackfill, AddReceipts, CallFails, LoseReply, Crash, LoseLock, Disk
<1>2. ASSUME NEW n \in Lanes PROVE Begins(file[n], file'[n])
  <2>1. file[n] \in Seq(LaneRecords(n)) /\ file \in [Lanes -> Seq(CampaignRecords \cup BackfillRecords)]
    BY DEF CampaignTypeOK
  <2>2. file'[n] = file[n] \/ file'[n] = Append(file[n], op[p].rec)
    BY <1>1, <2>1
  <2>3. CASE file'[n] = file[n]
    BY <2>1, <2>3, Beginnings
  <2>4. CASE file'[n] = Append(file[n], op[p].rec)
    BY <2>1, <2>4, Appended
  <2> QED
    BY <2>2, <2>3, <2>4
<1>3. torn' = torn \/ (Crash(p) /\ op[p].pc = "append" /\ torn' = [torn EXCEPT ![Lane(p)] = TRUE])
  BY DEF Work, Disturb, Plan, Start, Refuse, Require, Prepare, AppendRecord, Publish, Commit,
         Observe, RepairPlan, NextCall, NextSessionCall, Call, Answer, Postflight,
         RepairCampaign, RepairBackfill, AddReceipts, CallFails, LoseReply, Crash, LoseLock, Disk
<1>4. UNCHANGED <<anchor, mark>> \/ (Commit(p) /\ PublishRow(op[p].sent, op[p].plan.day))
  BY DEF Work, Disturb, Plan, Start, Refuse, Require, Prepare, AppendRecord, Publish, Commit,
         Observe, RepairPlan, NextCall, NextSessionCall, Call, Answer, Postflight,
         RepairCampaign, RepairBackfill, AddReceipts, CallFails, LoseReply, Crash, LoseLock,
         Database
<1>5. \/ floating' = floating
      \/ /\ op[p].pc = "sent"
         /\ floating' = floating \cup {[ledger |-> op[p].sent, window |-> op[p].plan.day]}
  BY DEF Work, Disturb, Plan, Start, Refuse, Require, Prepare, AppendRecord, Publish, Commit,
         Observe, RepairPlan, NextCall, NextSessionCall, Call, Answer, Postflight,
         RepairCampaign, RepairBackfill, AddReceipts, CallFails, LoseReply, Crash, LoseLock,
         Database
<1>6. vendor' = vendor \/ Call(p)
  BY DEF Work, Disturb, Plan, Start, Refuse, Require, Prepare, AppendRecord, Publish, Commit,
         Observe, RepairPlan, NextCall, NextSessionCall, Answer, Postflight, RepairCampaign,
         RepairBackfill, AddReceipts, CallFails, LoseReply, Crash, LoseLock
<1> QED
  BY <1>1, <1>2, <1>3, <1>4, <1>5, <1>6, RequestTyped

\* A row extends the newest one by one record when it begins the file, as the
\* newest one does, or when it was sent under the lock.
LEMMA RowExtends ==
  ASSUME CampaignTypeOK, NEW l \in Seq(CampaignRecords), NEW w, PublishRow(l, w),
         \/ Behind(l, anchor)
         \/ Begins(anchor, file["acquisition"]) /\ Begins(l, file["acquisition"])
  PROVE  \/ UNCHANGED <<anchor, mark>>
         \/ /\ anchor' = l /\ Len(l) = Len(anchor) + 1 /\ Begins(anchor, l)
            /\ mark' = [mark EXCEPT ![w] = l]
            /\ WithinBounds(l, w) /\ CampaignExtends(mark[w], l, w)
<1>1. Len(anchor) \in Nat /\ Len(l) \in Nat
  BY LedgersTyped
<1>2. ASSUME Len(l) = Len(anchor) + 1 PROVE Begins(anchor, l)
  <2>1. CASE Behind(l, anchor)
    BY <1>1, <1>2, <2>1 DEF Behind
  <2>2. CASE Begins(anchor, file["acquisition"]) /\ Begins(l, file["acquisition"])
    <3>1. Len(anchor) <= Len(l)
      BY <1>1, <1>2
    <3> QED
      BY <2>2, <3>1, LedgersTyped, Beginnings
  <2> QED
    BY <2>1, <2>2
<1> QED
  BY <1>2 DEF PublishRow

\* The anchor is left alone or extended by the one record that was published.
Advances ==
  \/ UNCHANGED <<anchor, mark>>
  \/ \E w \in Days :
       /\ Len(anchor') = Len(anchor) + 1 /\ Begins(anchor, anchor')
       /\ mark' = [mark EXCEPT ![w] = anchor']
       /\ WithinBounds(anchor', w) /\ CampaignExtends(mark[w], anchor', w)

\* Unless the lock was lost and the file replaced, a new row extends the newest one: its
\* ledger and the newest row's both begin the file, or it was prepared under the lock.
LEMMA AnchorAdvances ==
  ASSUME CampaignTypeOK, ControlInv, PrefixInv, LockInv, [CampaignNext]_campaignVars,
         ~ restored \/ ~ lockLost
  PROVE  Advances
<1>a. ASSUME NEW l \in Seq(CampaignRecords), NEW w \in Days, PublishRow(l, w),
             \/ Behind(l, anchor)
             \/ Begins(anchor, file["acquisition"]) /\ Begins(l, file["acquisition"])
      PROVE  Advances
  <2>1. \/ UNCHANGED <<anchor, mark>>
        \/ /\ anchor' = l /\ Len(l) = Len(anchor) + 1 /\ Begins(anchor, l)
           /\ mark' = [mark EXCEPT ![w] = l]
           /\ WithinBounds(l, w) /\ CampaignExtends(mark[w], l, w)
    BY <1>a, RowExtends
  <2> QED
    BY <2>1 DEF Advances
<1>1. ASSUME NEW p \in Operators, Work(p) \/ Disturb(p) PROVE Advances
  <2>1. CASE UNCHANGED <<anchor, mark>>
    BY <2>1 DEF Advances
  <2>2. CASE Commit(p) /\ PublishRow(op[p].sent, op[p].plan.day)
    <3>1. op[p].pc = "sent" /\ op[p].sent \in Seq(CampaignRecords) /\ op[p].plan.day \in Days
      BY <2>2, LedgersTyped DEF Commit, CampaignTypeOK
    <3>2. ~ restored => Begins(anchor, file["acquisition"]) /\ Begins(op[p].sent, file["acquisition"])
      BY <3>1 DEF PrefixInv
    <3>3. ~ lockLost => Behind(op[p].sent, anchor)
      BY <3>1 DEF LockInv, LockOf
    <3> QED
      BY <1>a, <2>2, <3>1, <3>2, <3>3
  <2> QED
    BY <1>1, <2>1, <2>2, Effects
<1>2. ASSUME NEW f \in floating, Land(f) PROVE Advances
  <2>1. PublishRow(f.ledger, f.window) /\ f.ledger \in Seq(CampaignRecords) /\ f.window \in Days
    BY <1>2, LedgersTyped DEF Land
  <2>2. ~ restored => Begins(anchor, file["acquisition"]) /\ Begins(f.ledger, file["acquisition"])
    BY DEF PrefixInv
  <2>3. ~ lockLost => Behind(f.ledger, anchor)
    BY DEF LockInv
  <2> QED
    BY <1>a, <2>1, <2>2, <2>3
<1>3. CASE Restore \/ NextSession \/ UNCHANGED campaignVars
  BY <1>3 DEF Restore, NextSession, campaignVars, Database, Advances
<1> QED
  BY <1>1, <1>2, <1>3 DEF CampaignNext

\* No step but a rollback takes anything out of the acquisition ledger.
LEMMA PrefixStep ==
  ASSUME CampaignTypeOK, ControlInv, PrefixInv, [CampaignNext]_campaignVars
  PROVE  PrefixInv'
<1> USE LedgersTyped
<1> SUFFICES ASSUME ~ restored'
             PROVE  /\ Begins(anchor', file'["acquisition"])
                    /\ \A f \in floating' : Begins(f.ledger, file'["acquisition"])
                    /\ \A p \in Operators :
                         op'[p].pc = "sent" => Begins(op'[p].sent, file'["acquisition"])
  BY DEF PrefixInv
<1>1. ASSUME NEW p \in Operators, Work(p) \/ Disturb(p)
      PROVE  /\ Begins(anchor', file'["acquisition"])
             /\ \A f \in floating' : Begins(f.ledger, file'["acquisition"])
             /\ \A q \in Operators :
                  op'[q].pc = "sent" => Begins(op'[q].sent, file'["acquisition"])
  <2>1. ~ restored /\ file'["acquisition"] \in Seq(CampaignRecords) /\ Only(p)
    BY <1>1, DataStep, ControlStep DEF LaneRecords
  <2>2. Begins(file["acquisition"], file'["acquisition"])
    BY <1>1, Effects
  <2>3. ASSUME NEW l \in Seq(CampaignRecords), Begins(l, file["acquisition"])
        PROVE  Begins(l, file'["acquisition"])
    BY <2>1, <2>2, <2>3, Beginnings
  <2>4. /\ Begins(anchor, file'["acquisition"])
        /\ \A f \in floating : Begins(f.ledger, file'["acquisition"])
        /\ \A q \in Operators : op[q].pc = "sent" => Begins(op[q].sent, file'["acquisition"])
    BY <2>1, <2>3 DEF PrefixInv
  <2>5. Begins(anchor', file'["acquisition"])
    <3>1. CASE Commit(p) /\ PublishRow(op[p].sent, op[p].plan.day)
      <4>1. op[p].pc = "sent" /\ (anchor' = anchor \/ anchor' = op[p].sent)
        BY <3>1 DEF Commit, PublishRow
      <4> QED
        BY <2>4, <4>1
    <3> QED
      BY <1>1, <2>4, <3>1, Effects
  <2>6. \A f \in floating' : Begins(f.ledger, file'["acquisition"])
    BY <1>1, <2>4, Effects
  <2>7. op'[p].pc = "sent" => Begins(op'[p].sent, file'["acquisition"])
    <3>1. SUFFICES ASSUME op'[p].pc = "sent" PROVE Begins(op'[p].sent, file'["acquisition"])
      OBVIOUS
    <3>2. op' = op \/ op'[p].sent = file["acquisition"]
      BY <1>1, <3>1, Course
    <3> QED
      BY <2>2, <2>4, <3>1, <3>2
  <2> QED
    BY <2>1, <2>4, <2>5, <2>6, <2>7 DEF Only
<1>2. ASSUME NEW f \in floating, Land(f)
      PROVE  /\ Begins(anchor', file'["acquisition"])
             /\ \A g \in floating' : Begins(g.ledger, file'["acquisition"])
             /\ \A q \in Operators :
                  op'[q].pc = "sent" => Begins(op'[q].sent, file'["acquisition"])
  <2>1. /\ ~ restored /\ file' = file /\ op' = op /\ floating' \subseteq floating
        /\ anchor' = anchor \/ anchor' = f.ledger
    BY <1>2 DEF Land, PublishRow, Disk, Environment
  <2> QED
    BY <2>1 DEF PrefixInv
<1>3. ~ Restore
  BY DEF Restore
<1>4. CASE NextSession \/ UNCHANGED campaignVars
  BY <1>4 DEF NextSession, campaignVars, Disk, Database, PrefixInv
<1> QED
  BY <1>1, <1>2, <1>3, <1>4 DEF CampaignNext

\* What a step of p means for the lock.
LEMMA LockMoves ==
  ASSUME CampaignTypeOK, ControlInv, NEW p \in Operators, Work(p) \/ Disturb(p)
  PROVE  /\ Start(p) => lock = None /\ lock' = p /\ ~ Active(p)
         /\ LoseLock(p) => lockLost'
         /\ lockLost => lockLost'
         /\ Active(p)' => Start(p) \/ LoseLock(p) \/ (Active(p) /\ lock' = lock)
         /\ Active(p) \/ Start(p) \/ (lock' = lock /\ UNCHANGED Frame)
<1>1. lockLost => lockLost'
  BY DEF Work, Disturb, Plan, Start, Refuse, Require, Prepare, AppendRecord, Publish, Commit,
         Observe, RepairPlan, NextCall, NextSessionCall, Call, Answer, Postflight,
         RepairCampaign, RepairBackfill, AddReceipts, CallFails, LoseReply, Crash, LoseLock,
         Environment
<1>2. Start(p) => lock = None /\ lock' = p /\ ~ Active(p)
  BY DEF Start, Startable, Active
<1>3. LoseLock(p) => lockLost' /\ Active(p)
  <2>1. (lock # None => op[lock].pc \notin {"idle", "granted"}) /\ p # None
    BY CampaignAssumption DEF CampaignTypeOK
  <2> QED
    BY <2>1 DEF LoseLock, Active
<1>4. CASE Plan(p) \/ Refuse(p) \/ RepairCampaign(p) \/ RepairBackfill(p)
  <2>1. /\ lock' = lock /\ UNCHANGED Frame
        /\ \/ op'[p].pc \in {"idle", "granted"}
           \/ op' = op /\ op[p].pc = "idle"
    <3>1. CASE Plan(p)
      BY <3>1, Planned DEF Plan, Frame, Disk, Database
    <3>2. CASE Refuse(p)
      BY <3>2, IdleTyped, Moved DEF Refuse, Frame, Disk, Database, Idle
    <3>3. CASE RepairCampaign(p) \/ RepairBackfill(p)
      BY <3>3 DEF RepairCampaign, RepairBackfill, AddReceipts, Frame, Disk
    <3> QED
      BY <1>4, <3>1, <3>2, <3>3
  <2>2. ~ Active(p)'
    BY <2>1 DEF Active
  <2> QED
    BY <1>1, <1>2, <1>3, <2>1, <2>2
<1>5. CASE ~ (Plan(p) \/ Refuse(p) \/ RepairCampaign(p) \/ RepairBackfill(p) \/ Start(p) \/ LoseLock(p))
  <2>1. Active(p)
    BY <1>5 DEF Work, Disturb, Active, Require, Prepare, AppendRecord, Publish, Commit, Observe,
           RepairPlan, NextCall, NextSessionCall, Call, Answer, Postflight, CallFails,
           LoseReply, Crash
  <2>2. Active(p)' => lock' = lock
    <3>1. Stop(p) => ~ Active(p)'
      BY Stopped DEF Active
    <3>2. Stop(p) \/ lock' = lock \/ (Proceed(p) /\ (AppendRecord(p) \/ Observe(p)))
      BY <1>5 DEF Work, Disturb, Require, Prepare, AppendRecord, Publish, Commit, Observe,
             RepairPlan, NextCall, NextSessionCall, Call, Answer, Postflight, CallFails,
             LoseReply, Crash
    <3>3. Proceed(p) => Stop(p) \/ lock' = lock
      BY Proceeded
    <3> QED
      BY <3>1, <3>2, <3>3
  <2> QED
    BY <1>1, <1>5, <2>1, <2>2
<1> QED
  BY <1>1, <1>2, <1>3, <1>4, <1>5

\* A ledger that the database would refuse stays refused.
LEMMA BehindStays ==
  ASSUME NEW l \in Seq(CampaignRecords), anchor \in Seq(CampaignRecords), Behind(l, anchor), Advances
  PROVE  Behind(l, anchor')
<1>1. Len(anchor) \in Nat /\ Len(l) \in Nat
  OBVIOUS
<1>2. anchor' = anchor \/ Len(anchor') = Len(anchor) + 1
  BY DEF Advances
<1> QED
  BY <1>1, <1>2 DEF Behind

\* While the lock connection lives, the others stand still and late publications bounce.
LEMMA LockStep ==
  ASSUME CampaignTypeOK, ControlInv, PrefixInv, LockInv, [CampaignNext]_campaignVars
  PROVE  LockInv'
<1> SUFFICES ASSUME ~ lockLost'
             PROVE  /\ \A q \in Operators : LockOf(q)'
                    /\ \A f \in floating' : Behind(f.ledger, anchor')
  BY DEF LockInv
<1> DEFINE L == file["acquisition"]
<1>t. /\ L \in Seq(CampaignRecords) /\ anchor \in Seq(CampaignRecords)
      /\ Len(L) \in Nat /\ Len(anchor) \in Nat
  BY LedgersTyped
<1>1. ASSUME NEW p \in Operators, Work(p) \/ Disturb(p)
      PROVE  /\ \A q \in Operators : LockOf(q)'
             /\ \A f \in floating' : Behind(f.ledger, anchor')
  <2>1. /\ ~ lockLost /\ ~ LoseLock(p)
        /\ Start(p) => lock = None /\ lock' = p /\ ~ Active(p)
        /\ Active(p)' => Start(p) \/ (Active(p) /\ lock' = lock)
        /\ Active(p) \/ Start(p) \/ (lock' = lock /\ UNCHANGED Frame)
    BY <1>1, LockMoves
  <2>2. /\ \A q \in Operators : LockOf(q)
        /\ \A f \in floating : Behind(f.ledger, anchor)
    BY <2>1 DEF LockInv
  <2>3. Advances
    BY <1>1, <2>1, AnchorAdvances DEF CampaignNext
  <2>4. /\ legacy' = legacy /\ Only(p)
        /\ \A q \in Operators \ {p} : op'[q] = op[q] /\ Lane(q)' = Lane(q)
    BY <1>1, DataStep, ControlStep DEF Only, Lane
  <2>5. ASSUME NEW q \in Operators \ {p} PROVE LockOf(q)'
    <3>1. CASE Active(p) \/ Start(p)
      <4>1. ~ Active(q)
        BY <2>1, <2>2, <2>5, <3>1, CampaignAssumption DEF LockOf
      <4> QED
        BY <2>4, <2>5, <4>1 DEF LockOf, Active
    <3>2. CASE lock' = lock /\ UNCHANGED Frame
      BY <2>2, <2>4, <2>5, <3>2 DEF LockOf, Active, Behind, OfCampaign, Frame
    <3> QED
      BY <2>1, <3>1, <3>2
  <2>6. \A f \in floating' : Behind(f.ledger, anchor')
    <3>1. \A f \in floating : Behind(f.ledger, anchor')
      BY <1>t, <2>2, <2>3, BehindStays, LedgersTyped
    <3>2. op[p].pc = "sent" => Behind(op[p].sent, anchor')
      BY <1>t, <2>2, <2>3, BehindStays, LedgersTyped DEF LockOf
    <3>3. \/ floating' = floating
          \/ /\ op[p].pc = "sent"
             /\ floating' = floating \cup {[ledger |-> op[p].sent, window |-> op[p].plan.day]}
      BY <1>1, Effects
    <3> QED
      BY <3>1, <3>2, <3>3
  <2>7. Active(p)' => lock' = p
    BY <2>1, <2>2 DEF LockOf
  <2>8. op'[p].pc = "sent" => Behind(op'[p].sent, anchor')
    <3>1. SUFFICES ASSUME op'[p].pc = "sent" PROVE Behind(op'[p].sent, anchor')
      OBVIOUS
    <3>2. CASE op' = op
      BY <1>t, <2>2, <2>3, <3>1, <3>2, BehindStays, LedgersTyped DEF LockOf
    <3>3. CASE op' # op
      <4>1. Publish(p) /\ UNCHANGED Frame /\ op'[p].sent = L
        BY <1>1, <3>1, <3>3, Course
      <4>2. Behind(L, anchor)
        BY <2>2, <4>1 DEF LockOf, Publish
      <4> QED
        BY <4>1, <4>2 DEF Frame, Behind
    <3> QED
      BY <3>2, <3>3
  <2>9. op'[p].pc = "publish" => Behind(file'["acquisition"], anchor')
    <3>1. SUFFICES ASSUME op'[p].pc = "publish" PROVE Behind(file'["acquisition"], anchor')
      OBVIOUS
    <3>2. CASE op' = op
      <4>1. UNCHANGED Frame
        BY <1>1, <3>1, <3>2, Course DEF AppendRecord
      <4> QED
        BY <2>2, <3>1, <3>2, <4>1 DEF LockOf, Frame, Behind
    <3>3. CASE op' # op
      <4>1. AppendRecord(p) /\ OfCampaign(p) /\ op[p].pc = "append"
        BY <1>1, <3>1, <3>3, Course DEF AppendRecord
      <4>2. anchor' = anchor /\ Lane(p) = "acquisition"
        BY <4>1 DEF AppendRecord, Database, OfCampaign, Lane
      <4>3. anchor = L \/ Len(L) < Len(anchor)
        BY <2>2, <4>1 DEF LockOf
      <4>4. CASE file' = file
        <5>1. Len(L) <= Len(anchor)
          BY <1>t, <4>3
        <5> QED
          BY <4>2, <4>4, <5>1 DEF Behind
      <4>5. CASE file' = [file EXCEPT ![Lane(p)] = Append(file[Lane(p)], op[p].rec)]
        <5>1. file'["acquisition"] = Append(L, op[p].rec)
          BY <4>2, <4>5, LedgersTyped DEF CampaignTypeOK
        <5>2. Len(Append(L, op[p].rec)) = Len(L) + 1 /\ Begins(L, Append(L, op[p].rec))
          BY <1>t, Appended
        <5> QED
          BY <1>t, <4>2, <4>3, <5>1, <5>2 DEF Behind
      <4> QED
        BY <1>1, <4>4, <4>5, Effects
    <3> QED
      BY <3>2, <3>3
  <2>10. op'[p].pc \in {"prepare", "append"} /\ OfCampaign(p)' =>
           anchor' = file'["acquisition"] \/ Len(file'["acquisition"]) < Len(anchor')
    <3>1. SUFFICES ASSUME op'[p].pc \in {"prepare", "append"}, OfCampaign(p)
                   PROVE  UNCHANGED Frame /\ (anchor = L \/ Len(L) < Len(anchor))
      BY <2>4 DEF Frame, OfCampaign
    <3>2. CASE op' = op
      <4>1. UNCHANGED Frame
        BY <1>1, <3>1, <3>2, Course DEF Prepare, Require, NextCall, NextSessionCall, OfCampaign
      <4> QED
        BY <2>2, <3>1, <3>2, <4>1 DEF LockOf
    <3>3. CASE op' # op
      <4>1. \/ Require(p) /\ UNCHANGED Frame /\ Anchored(Lane(p))
            \/ Prepare(p) /\ UNCHANGED Frame
        BY <1>1, <3>1, <3>3, Course DEF OfCampaign
      <4>2. Lane(p) = "acquisition"
        BY <3>1 DEF OfCampaign, Lane
      <4> QED
        BY <2>2, <3>1, <4>1, <4>2 DEF LockOf, Prepare, Anchored
    <3> QED
      BY <3>2, <3>3
  <2>11. op'[p].pc = "append" => ~ torn'[Lane(p)']
    <3>1. SUFFICES ASSUME op'[p].pc = "append" PROVE ~ torn[Lane(p)] /\ torn' = torn
      BY <2>4 DEF Lane
    <3>2. CASE op' = op
      BY <1>1, <2>2, <3>1, <3>2, Course DEF LockOf, Frame
    <3>3. CASE op' # op
      <4>1. UNCHANGED Frame /\ Readable(Lane(p))
        BY <1>1, <3>1, <3>3, Course
      <4> QED
        BY <4>1 DEF Frame, Readable
    <3> QED
      BY <3>2, <3>3
  <2>12. LockOf(p)'
    BY <2>7, <2>8, <2>9, <2>10, <2>11 DEF LockOf
  <2> QED
    BY <2>5, <2>6, <2>12
<1>2. ASSUME NEW f \in floating, Land(f)
      PROVE  /\ \A q \in Operators : LockOf(q)'
             /\ \A g \in floating' : Behind(g.ledger, anchor')
  <2>1. /\ UNCHANGED <<file, torn, lock, op, legacy>> /\ ~ lockLost /\ floating' \subseteq floating
    BY <1>2 DEF Land, Disk, Environment
  <2>2. Advances
    BY <1>2, <2>1, AnchorAdvances DEF CampaignNext
  <2>3. anchor' = anchor \/ Len(anchor') = Len(anchor) + 1
    BY <2>2 DEF Advances
  <2>4. \A g \in floating' : Behind(g.ledger, anchor')
    BY <1>t, <2>1, <2>2, BehindStays, LedgersTyped DEF LockInv
  <2>5. ASSUME NEW q \in Operators PROVE LockOf(q)'
    <3>1. LockOf(q)
      BY <2>1 DEF LockInv
    <3>2. op[q].pc = "sent" => Behind(op[q].sent, anchor')
      BY <1>t, <2>2, <3>1, BehindStays, LedgersTyped DEF LockOf
    <3>3. op[q].pc = "publish" => Behind(L, anchor')
      <4>1. op[q].pc = "publish" => Behind(L, anchor)
        BY <3>1 DEF LockOf
      <4> QED
        BY <1>t, <2>1, <2>3, <4>1 DEF Behind, Advances
    <3>4. anchor = L \/ Len(L) < Len(anchor) => anchor' = L \/ Len(L) < Len(anchor')
      BY <1>t, <2>3
    <3> QED
      BY <2>1, <3>1, <3>2, <3>3, <3>4 DEF LockOf, Active, OfCampaign, Lane
  <2> QED
    BY <2>4, <2>5
<1>3. CASE Restore
  <2>1. /\ \A q \in Operators : op[q].pc \in {"idle", "granted"}
        /\ op' = op /\ floating' = floating /\ anchor' = anchor /\ ~ lockLost
    BY <1>3 DEF Restore, Database
  <2> QED
    BY <2>1 DEF LockInv, LockOf, Active, Behind
<1>4. CASE NextSession \/ UNCHANGED campaignVars
  BY <1>4 DEF NextSession, campaignVars, Disk, Database, LockInv, LockOf, Active, Behind,
              OfCampaign, Lane
<1> QED
  BY <1>1, <1>2, <1>3, <1>4 DEF CampaignNext

-----------------------------------------------------------------------------
(* Records and requests.                                                   *)

\* A record stays a record of an operation that keeps its plan and its calls.
LEMMA DescriptionStays ==
  ASSUME NEW p \in Operators, Keeps(p), op'[p].todo = op[p].todo, op'[p].status = op[p].status,
         grants' = grants
  PROVE  \A r : Describes(p, r) => Describes(p, r)'
BY SameCall DEF Keeps, Describes

\* A step of p leaves the records of the others in place.
LEMMA OthersRecords ==
  ASSUME CampaignTypeOK, ControlInv, RecordInv, NEW p \in Operators, Work(p) \/ Disturb(p)
  PROVE  \A q \in Operators \ {p} : RecordOf(q)'
<1>1. /\ Only(p) /\ legacy' = legacy /\ \A q \in Operators \ {p} : grants'[q] = grants[q]
      /\ file'["acquisition"] \in Seq(CampaignRecords)
      /\ torn["acquisition"] => torn'["acquisition"]
  <2>1. Only(p) /\ legacy' = legacy /\ \A q \in Operators \ {p} : grants'[q] = grants[q]
    BY ControlStep, DataStep, Started, GrantsStay
  <2>2. file'["acquisition"] \in Seq(CampaignRecords)
    BY DataStep, LedgersTyped DEF LaneRecords
  <2>3. torn["acquisition"] => torn'["acquisition"]
    <3>1. torn' = torn \/ torn' = [torn EXCEPT ![Lane(p)] = TRUE]
      BY Effects
    <3> QED
      BY <3>1, LedgersTyped DEF CampaignTypeOK
  <2> QED
    BY <2>1, <2>2, <2>3
<1>2. /\ Elements(file["acquisition"]) \subseteq Elements(file'["acquisition"])
      /\ \A v : Attempted(file["acquisition"], v) => Attempted(file'["acquisition"], v)
  <2>1. Begins(file["acquisition"], file'["acquisition"])
    BY Effects, LedgersTyped
  <2> QED
    BY <1>1, <2>1, LedgersTyped, Beginnings
<1>3. SUFFICES ASSUME NEW q \in Operators \ {p} PROVE RecordOf(q)'
  OBVIOUS
<1>4. /\ op'[q] = op[q] /\ RecordOf(q) /\ (OfCampaign(q)' <=> OfCampaign(q))
      /\ Request(q)' = Request(q) /\ \A r : Describes(q, r) => Describes(q, r)'
  BY <1>1, OthersStand DEF RecordInv
<1> QED
  BY <1>1, <1>2, <1>4 DEF RecordOf

\* A record is where its operation believes it to be.
LEMMA RecordStep ==
  ASSUME CampaignTypeOK, ControlInv, RecordInv, [CampaignNext]_campaignVars
  PROVE  RecordInv'
<1>1. ASSUME NEW p \in Operators, Work(p) \/ Disturb(p) PROVE RecordInv'
  <2> DEFINE L == file["acquisition"]
  <2>o. \A q \in Operators \ {p} : RecordOf(q)'
    BY <1>1, OthersRecords
  <2>r. RecordOf(p)
    BY DEF RecordInv
  <2>e. CASE op' = op
    <3>1. UNCHANGED Frame \/ op[p].pc \in {"idle", "granted", "repair", "next"}
      <4>1. Start(p) \/ AppendRecord(p) \/ Publish(p) \/ Commit(p) \/ LoseReply(p) \/ Call(p)
            \/ Require(p) \/ Prepare(p) \/ Observe(p) =>
            op[p].pc \in {"granted", "append", "publish", "sent", "call", "require", "prepare", "observe"}
        BY DEF Start, AppendRecord, Publish, Commit, LoseReply, Call, Require, Prepare, Observe
      <4> QED
        BY <1>1, <2>e, Course DEF AppendRecord, Commit, LoseReply, Call
    <3>2. CASE UNCHANGED Frame
      <4>1. UNCHANGED <<grants, legacy>>
        <5>1. ~ Start(p)
          BY <2>e, Started DEF CampaignTypeOK, Start
        <5> QED
          BY <1>1, <5>1, GrantsStay
      <4>2. RecordOf(p)'
        BY <2>e, <2>r, <3>2, <4>1
           DEF RecordOf, Frame, Describes, AuthOf, Current, Request, OfCampaign, Attempted
      <4> QED
        BY <2>o, <4>2 DEF RecordInv
    <3>3. CASE op[p].pc \in {"idle", "granted", "repair", "next"}
      <4>1. RecordOf(p)'
        BY <2>e, <3>3 DEF RecordOf
      <4> QED
        BY <2>o, <4>1 DEF RecordInv
    <3> QED
      BY <3>1, <3>2, <3>3
  <2>n. CASE op' # op /\ op'[p].pc \in {"append", "publish", "sent", "observe", "call"}
    <3>1. ~ Start(p)
      BY <1>1, <2>n, Started
    <3>2. UNCHANGED <<grants, legacy>>
      BY <1>1, <3>1, GrantsStay
    <3>3. CASE Prepare(p) /\ op'[p].pc = "append"
      <4>1. /\ Keeps(p) /\ op'[p].rec = NewRecord(p) /\ op'[p].todo = op[p].todo
            /\ op'[p].status = op[p].status
        BY <3>3, Prepared, Stopped
      <4>2. Describes(p, NewRecord(p))
        BY <3>3, RecordTyped DEF Prepare
      <4>3. Describes(p, op[p].rec)'
        BY <3>2, <4>1, <4>2, DescriptionStays DEF Describes
      <4> QED
        BY <2>o, <3>3, <4>3 DEF RecordInv, RecordOf
    <3>4. CASE /\ AppendRecord(p) /\ OfCampaign(p) /\ op'[p].pc = "publish" /\ Keeps(p)
               /\ op'[p].rec = op[p].rec /\ op'[p].todo = op[p].todo
               /\ op'[p].status = op[p].status
      <4>1. op[p].pc = "append" /\ torn' = torn /\ Lane(p) = "acquisition"
        BY <3>4 DEF AppendRecord, OfCampaign, Lane
      <4>2. Describes(p, op[p].rec)'
        BY <2>r, <3>2, <3>4, <4>1, DescriptionStays DEF RecordOf, Describes
      <4>3. torn["acquisition"] \/ op[p].rec \in Elements(file'["acquisition"])
        <5>1. SUFFICES ASSUME ~ torn["acquisition"] PROVE op[p].rec \in Elements(file'["acquisition"])
          OBVIOUS
        <5>2. file'["acquisition"] = Append(L, op[p].rec)
          BY <3>4, <4>1, <5>1, LedgersTyped DEF AppendRecord, CampaignTypeOK
        <5> QED
          BY <5>2, LedgersTyped, Appended
      <4> QED
        BY <2>o, <3>4, <4>1, <4>2, <4>3 DEF RecordInv, RecordOf
    <3>5. CASE /\ Publish(p) /\ UNCHANGED Frame /\ op'[p].pc = "sent" /\ Keeps(p)
               /\ op'[p].rec = op[p].rec /\ op'[p].todo = op[p].todo
               /\ op'[p].status = op[p].status /\ op'[p].sent = file["acquisition"]
               /\ ~ torn["acquisition"]
      <4>1. Describes(p, op[p].rec) /\ op[p].rec \in Elements(L)
        BY <2>r, <3>5 DEF RecordOf, Publish
      <4>2. Describes(p, op[p].rec)'
        BY <3>2, <3>5, <4>1, DescriptionStays DEF Describes
      <4> QED
        BY <2>o, <3>5, <4>1, <4>2 DEF RecordInv, RecordOf, Frame
    <3>6. CASE /\ Commit(p) \/ LoseReply(p)
               /\ op'[p].pc = "observe" /\ Keeps(p)
               /\ op'[p].rec = op[p].rec /\ op'[p].todo = op[p].todo
               /\ op'[p].status = op[p].status /\ op'[p].sent = op[p].sent
      <4>1. op[p].pc = "sent" /\ file' = file
        BY <3>6 DEF Commit, LoseReply, Disk
      <4>2. /\ Describes(p, op[p].rec) /\ op[p].rec \in Elements(L)
            /\ op[p].rec \in Elements(op[p].sent)
        BY <2>r, <4>1 DEF RecordOf
      <4>3. Describes(p, op[p].rec)'
        BY <3>2, <3>6, <4>2, DescriptionStays DEF Describes
      <4> QED
        BY <2>o, <3>6, <4>1, <4>2, <4>3 DEF RecordInv, RecordOf
    <3>7. CASE /\ Observe(p) /\ UNCHANGED Frame /\ op'[p].pc = "call" /\ Keeps(p)
               /\ op[p].status = "reserving" /\ op'[p].todo = op[p].todo
      <4>1. Describes(p, op[p].rec) /\ op[p].rec \in Elements(L)
        BY <2>r, <3>7 DEF RecordOf, Observe
      <4>2. Attempted(L, Request(p))
        BY <3>7, <4>1 DEF Describes, Attempted, Request
      <4>3. Request(p)' = Request(p)
        BY <3>2, <3>7, SameCall DEF Keeps
      <4> QED
        BY <2>o, <3>7, <4>2, <4>3 DEF RecordInv, RecordOf, Frame
    <3>8. CASE p \in legacy /\ op'[p].pc = "call"
      <4>1. ~ OfCampaign(p)'
        BY <3>2, <3>8 DEF OfCampaign
      <4> QED
        BY <2>o, <3>8, <4>1 DEF RecordInv, RecordOf
    <3> QED
      BY <1>1, <2>n, <3>1, <3>3, <3>4, <3>5, <3>6, <3>7, <3>8, Course
  <2>q. CASE op'[p].pc \notin {"append", "publish", "sent", "observe", "call"}
    BY <2>o, <2>q DEF RecordInv, RecordOf
  <2> QED
    BY <2>e, <2>n, <2>q
<1>2. ASSUME NEW f \in floating, Land(f) PROVE RecordInv'
  BY <1>2 DEF Land, Disk, Environment, RecordInv, RecordOf, Describes, AuthOf, Current, Request,
              OfCampaign, Attempted
<1>3. CASE Restore
  <2>1. \A q \in Operators : op'[q].pc \in {"idle", "granted"}
    BY <1>3 DEF Restore
  <2> QED
    BY <2>1 DEF RecordInv, RecordOf
<1>4. CASE NextSession \/ UNCHANGED campaignVars
  <2>1. UNCHANGED <<file, torn, op, grants, legacy>>
    BY <1>4 DEF NextSession, campaignVars, Disk
  <2> QED
    BY <2>1 DEF RecordInv, RecordOf, Describes, AuthOf, Current, Request, OfCampaign, Attempted
<1> QED
  BY <1>1, <1>2, <1>3, <1>4 DEF CampaignNext

-----------------------------------------------------------------------------
(* Requests.                                                               *)

\* Each request has a call, an authorization and a window.
LEMMA RequestsTyped ==
  ASSUME CampaignTypeOK, NEW i \in DOMAIN vendor
  PROVE  /\ vendor[i] \in [call: Calls, auth: Auths, window: Days]
         /\ vendor[i].auth \in Auths /\ vendor[i].window \in Days /\ i \in 1..Len(vendor)
         /\ vendor[i].auth[1] \in Operators /\ Len(vendor) \in Nat
<1> DEFINE Q == [call: Calls, auth: Auths, window: Days]
<1>1. vendor \in Seq(Q)
  BY DEF CampaignTypeOK
<1> HIDE DEF Q
<1>2. vendor[i] \in Q /\ i \in 1..Len(vendor) /\ Len(vendor) \in Nat
  BY <1>1
<1>3. vendor[i].auth \in Auths /\ vendor[i].window \in Days
  BY <1>2 DEF Q
<1>4. vendor[i].auth[1] \in Operators
  BY <1>3 DEF Auths
<1> QED
  BY <1>2, <1>3, <1>4 DEF Q

\* A step of p keeps the requests of the past and may add the one p is about.
LEMMA VendorGrows ==
  ASSUME CampaignTypeOK, ControlInv, NEW p \in Operators, Work(p) \/ Disturb(p)
  PROVE  /\ DOMAIN vendor \subseteq DOMAIN vendor'
         /\ \A i \in DOMAIN vendor : vendor'[i] = vendor[i]
         /\ \A i \in DOMAIN vendor' : i \in DOMAIN vendor
              \/ (Call(p) /\ op[p].pc = "call" /\ i = Len(vendor) + 1 /\ vendor'[i] = Request(p))
         /\ ~ Call(p) => vendor' = vendor
<1>1. vendor \in Seq([call: Calls, auth: Auths, window: Days])
  BY DEF CampaignTypeOK
<1>2. vendor' = vendor \/ (Call(p) /\ vendor' = Append(vendor, Request(p)))
  BY Effects
<1>3. CASE vendor' = vendor
  BY <1>3
<1>4. CASE Call(p) /\ vendor' = Append(vendor, Request(p))
  <2>1. Request(p) \in [call: Calls, auth: Auths, window: Days] /\ op[p].pc = "call"
    BY <1>4, RequestTyped DEF Call
  <2> HIDE DEF Request
  <2> QED
    BY <1>1, <1>4, <2>1
<1> QED
  BY <1>2, <1>3, <1>4

\* An operation goes on, or it has just begun with a fresh grant.
LEMMA StillActive ==
  ASSUME CampaignTypeOK, ControlInv, NEW p \in Operators, Work(p) \/ Disturb(p), Active(p)'
  PROVE  \/ Start(p) /\ AuthOf(p)' = <<p, grants[p] + 1>> /\ vendor' = vendor
         \/ ~ Start(p) /\ Active(p) /\ AuthOf(p)' = AuthOf(p)
<1>1. CASE Start(p)
  BY <1>1, Started DEF AuthOf, Start
<1>2. CASE ~ Start(p)
  <2>1. AuthOf(p)' = AuthOf(p)
    BY <1>2, GrantsStay DEF AuthOf
  <2>2. LoseLock(p) => Active(p)
    BY DEF LoseLock, CampaignTypeOK, Active
  <2> QED
    BY <1>2, <2>1, <2>2, LockMoves
<1> QED
  BY <1>1, <1>2

\* Where a reservation on its way came from.
LEMMA Reservation ==
  ASSUME CampaignTypeOK, ControlInv, NEW p \in Operators, Work(p) \/ Disturb(p),
         OfCampaign(p), op'[p].status = "reserving",
         op'[p].pc \in {"append", "publish", "sent", "observe", "call"}
  PROVE  /\ ~ Start(p) /\ vendor' = vendor
         /\ Current(p)' = Current(p) /\ AuthOf(p)' = AuthOf(p) /\ Request(p)' = Request(p)
         /\ op[p].status = "reserving"
         /\ \/ Prepare(p) /\ AttemptFits(file["acquisition"], NewAttempt(p))
            \/ op[p].pc \in {"append", "publish", "sent", "observe", "call"}
<1>1. ~ Start(p) /\ ~ Call(p)
  <2>1. Call(p) => op'[p].pc \in {"answer", "require", "prepare"}
    <3>1. "answer" \in Steps /\ "failed_before_admission" \in Statuses
      BY DEF Steps, Statuses
    <3> QED
      BY <3>1, Went, Resolved DEF Call
  <2> QED
    BY <2>1, Started
<1>2. vendor' = vendor /\ UNCHANGED <<grants, legacy>>
  BY <1>1, VendorGrows, GrantsStay
<1>3. CASE op' = op
  BY <1>1, <1>2, <1>3, SameCall
<1>4. CASE op' # op
  <2>1. /\ op'[p].plan = op[p].plan /\ op'[p].todo = op[p].todo /\ op'[p].status = op[p].status
        /\ \/ Prepare(p) /\ Fits(Lane(p), file[Lane(p)], NewRecord(p))
           \/ op[p].pc \in {"append", "publish", "sent", "observe"}
    BY <1>1, <1>4, Course DEF Keeps, OfCampaign, AppendRecord, Publish, Commit, LoseReply, Observe
  <2>2. Current(p)' = Current(p) /\ AuthOf(p)' = AuthOf(p) /\ Request(p)' = Request(p)
    BY <1>2, <2>1, SameCall
  <2>3. Lane(p) = "acquisition" /\ NewRecord(p) = NewAttempt(p)
    BY <2>1 DEF OfCampaign, Lane, NewRecord
  <2>4. Fits(Lane(p), file[Lane(p)], NewRecord(p)) => AttemptFits(file["acquisition"], NewAttempt(p))
    BY <2>3 DEF Fits, CampaignFits, NewAttempt
  <2> QED
    BY <1>1, <1>2, <2>1, <2>2, <2>4
<1> QED
  BY <1>3, <1>4

\* No authorization sends a call twice: its reservations are in the file it reads before it
\* reserves another.
LEMMA RequestStep ==
  ASSUME CampaignTypeOK, ControlInv, RecordInv, RequestInv, [CampaignNext]_campaignVars
  PROVE  RequestInv'
<1>1. ASSUME NEW p \in Operators, Work(p) \/ Disturb(p) PROVE RequestInv'
  <2> DEFINE L == file["acquisition"]
  <2>t. /\ legacy' = legacy /\ grants \in [Operators -> Nat] /\ grants' \in [Operators -> Nat]
        /\ Only(p) /\ \A q \in Operators \ {p} : grants'[q] = grants[q]
    BY <1>1, DataStep, ControlStep, Started, GrantsStay DEF CampaignTypeOK
  <2>v. /\ DOMAIN vendor \subseteq DOMAIN vendor'
        /\ \A i \in DOMAIN vendor : vendor'[i] = vendor[i] /\ vendor[i].auth \in Auths
        /\ \A i \in DOMAIN vendor' : i \in DOMAIN vendor
             \/ (Call(p) /\ op[p].pc = "call" /\ i = Len(vendor) + 1 /\ vendor'[i] = Request(p))
    BY <1>1, VendorGrows, RequestsTyped
  <2>1. \A i \in DOMAIN vendor' : vendor'[i].auth[2] \in 1..grants'[vendor'[i].auth[1]]
    <3>1. ASSUME NEW i \in DOMAIN vendor
          PROVE  vendor[i].auth[2] \in 1..grants'[vendor[i].auth[1]]
      <4>1. vendor[i].auth[2] \in 1..grants[vendor[i].auth[1]] /\ vendor[i].auth[1] \in Operators
        BY <2>v DEF RequestInv, Auths
      <4>2. \A q \in Operators : grants[q] <= grants'[q]
        BY <1>1, <2>t, Started, GrantsStay
      <4> QED
        BY <2>t, <4>1, <4>2
    <3>2. op[p].pc = "call" => grants[p] > 0
      BY DEF ControlInv, ControlOf, Active
    <3>3. Call(p) => grants' = grants
      BY DEF Call
    <3> QED
      BY <2>t, <2>v, <3>1, <3>2, <3>3 DEF Request, AuthOf
  <2>2. ASSUME NEW q \in Operators, Active(q)', OfCampaign(q)',
               NEW i \in DOMAIN vendor', vendor'[i].auth = AuthOf(q)'
        PROVE  Attempted(file'["acquisition"], vendor'[i])
    <3>1. \A v : Attempted(L, v) => Attempted(file'["acquisition"], v)
      <4>1. file'["acquisition"] \in Seq(CampaignRecords) /\ L \in Seq(CampaignRecords)
        BY <1>1, DataStep, LedgersTyped DEF LaneRecords
      <4>2. Begins(L, file'["acquisition"])
        BY <1>1, Effects, LedgersTyped
      <4> QED
        BY <4>1, <4>2, Beginnings
    <3>2. OfCampaign(q)
      BY <2>2, <2>t DEF OfCampaign
    <3>3. CASE q # p
      <4>1. Active(q) /\ AuthOf(q)' = AuthOf(q)
        BY <2>2, <2>t, <3>3, OthersStand
      <4>2. i \in DOMAIN vendor
        BY <2>2, <2>v, <3>3, <4>1 DEF Request, AuthOf
      <4> QED
        BY <2>2, <2>v, <3>1, <3>2, <4>1, <4>2 DEF RequestInv
    <3>4. CASE q = p /\ Start(p)
      <4>1. vendor'[i].auth = <<p, grants[p] + 1>> /\ i \in DOMAIN vendor
        BY <1>1, <2>2, <3>4, StillActive
      <4> QED
        BY <2>t, <2>v, <4>1 DEF RequestInv
    <3>5. CASE q = p /\ ~ Start(p)
      <4>1. Active(p) /\ AuthOf(p)' = AuthOf(p)
        BY <1>1, <2>2, <3>5, StillActive
      <4>2. CASE i \in DOMAIN vendor
        BY <2>2, <2>v, <3>1, <3>2, <3>5, <4>1, <4>2 DEF RequestInv
      <4>3. CASE op[p].pc = "call" /\ vendor'[i] = Request(p)
        <5>1. Attempted(L, Request(p))
          BY <3>2, <3>5, <4>3 DEF RecordInv, RecordOf
        <5> QED
          BY <3>1, <4>3, <5>1
      <4> QED
        BY <2>v, <4>2, <4>3
    <3> QED
      BY <3>3, <3>4, <3>5
  <2>3. ASSUME NEW q \in Operators, OfCampaign(q)', op'[q].status = "reserving",
               op'[q].pc \in {"append", "publish", "sent", "observe", "call"},
               NEW i \in DOMAIN vendor'
        PROVE  ~ (vendor'[i].auth = AuthOf(q)' /\ vendor'[i].call = Current(q)')
    <3>1. OfCampaign(q)
      BY <2>3, <2>t DEF OfCampaign
    <3>2. CASE q # p
      <4>1. op'[q] = op[q] /\ AuthOf(q)' = AuthOf(q) /\ Current(q)' = Current(q)
        BY <2>t, <3>2, OthersStand
      <4>2. i \in DOMAIN vendor \/ vendor'[i].auth # AuthOf(q)
        BY <2>v, <3>2 DEF Request, AuthOf
      <4> QED
        BY <2>3, <2>v, <3>1, <4>1, <4>2 DEF RequestInv
    <3>3. CASE q = p
      <4>1. /\ vendor' = vendor /\ Current(p)' = Current(p) /\ AuthOf(p)' = AuthOf(p)
            /\ op[p].status = "reserving"
            /\ \/ Prepare(p) /\ AttemptFits(L, NewAttempt(p))
               \/ op[p].pc \in {"append", "publish", "sent", "observe", "call"}
        BY <1>1, <2>3, <3>1, <3>3, Reservation
      <4>2. CASE op[p].pc \in {"append", "publish", "sent", "observe", "call"}
        BY <2>3, <3>1, <3>3, <4>1, <4>2 DEF RequestInv
      <4>3. CASE Prepare(p) /\ AttemptFits(L, NewAttempt(p))
        <5>1. Current(p) \notin CallsOf(L, AuthOf(p))
          BY <4>3 DEF AttemptFits, NewAttempt
        <5>2. Active(p)
          BY <4>3 DEF Prepare, Active
        <5>3. vendor[i].auth = AuthOf(p) => Attempted(L, vendor[i])
          BY <2>3, <3>1, <3>3, <4>1, <5>2 DEF RequestInv
        <5>4. vendor[i].auth = AuthOf(p) => vendor[i].call \in CallsOf(L, AuthOf(p))
          BY <5>3 DEF Attempted, CallsOf, AttemptsOf
        <5> QED
          BY <3>3, <4>1, <5>1, <5>4
      <4> QED
        BY <4>1, <4>2, <4>3
    <3> QED
      BY <3>2, <3>3
  <2>4. ASSUME NEW i \in DOMAIN vendor', NEW j \in DOMAIN vendor', vendor'[i].auth[1] \notin legacy',
               vendor'[i].auth = vendor'[j].auth, vendor'[i].call = vendor'[j].call
        PROVE  i = j
    <3>1. ASSUME Call(p), op[p].pc = "call", p \notin legacy, NEW k \in DOMAIN vendor
          PROVE  ~ (vendor[k].auth = AuthOf(p) /\ vendor[k].call = Current(p))
      <4>1. op[p].status = "reserving"
        BY <3>1 DEF ControlInv, ControlOf
      <4> QED
        BY <3>1, <4>1 DEF RequestInv, OfCampaign
    <3>2. Request(p).auth = AuthOf(p) /\ Request(p).auth[1] = p /\ Request(p).call = Current(p)
      BY DEF Request, AuthOf
    <3>3. CASE i \in DOMAIN vendor /\ j \in DOMAIN vendor
      BY <2>4, <2>t, <2>v, <3>3 DEF RequestInv
    <3>4. CASE i \in DOMAIN vendor /\ j \notin DOMAIN vendor
      BY <2>4, <2>t, <2>v, <3>1, <3>2, <3>4
    <3>5. CASE i \notin DOMAIN vendor /\ j \in DOMAIN vendor
      BY <2>4, <2>t, <2>v, <3>1, <3>2, <3>5
    <3>6. CASE i \notin DOMAIN vendor /\ j \notin DOMAIN vendor
      BY <2>v, <3>6
    <3> QED
      BY <3>3, <3>4, <3>5, <3>6
  <2> QED
    BY <2>1, <2>2, <2>3, <2>4 DEF RequestInv
<1>2. ASSUME NEW f \in floating, Land(f) PROVE RequestInv'
  <2>1. UNCHANGED <<file, op, grants, legacy, vendor>>
    BY <1>2 DEF Land, Disk, Environment
  <2> QED
    BY <2>1 DEF RequestInv, Active, OfCampaign, AuthOf, Current, Attempted
<1>3. CASE Restore
  <2>1. /\ \A q \in Operators : op'[q].pc \in {"idle", "granted"}
        /\ UNCHANGED <<grants, legacy, vendor>>
    BY <1>3 DEF Restore
  <2> QED
    BY <2>1 DEF RequestInv, Active
<1>4. CASE NextSession \/ UNCHANGED campaignVars
  <2>1. UNCHANGED <<file, op, grants, legacy, vendor>>
    BY <1>4 DEF NextSession, campaignVars, Disk
  <2> QED
    BY <2>1 DEF RequestInv, Active, OfCampaign, AuthOf, Current, Attempted
<1> QED
  BY <1>1, <1>2, <1>3, <1>4 DEF CampaignNext

-----------------------------------------------------------------------------
(* The budget.                                                             *)

\* The database accepts one record more for a campaign: the record is that
\* campaign's, the others' counts stay and the totals are within the bounds.
LEMMA RowCounts ==
  ASSUME NEW h \in Seq(CampaignRecords), NEW l \in Seq(CampaignRecords),
         NEW m \in Seq(CampaignRecords), NEW w \in Days,
         Len(l) = Len(h) + 1, Begins(h, l), WithinBounds(l, w), CampaignExtends(m, l, w),
         Cardinality(OfWindow(m, w)) = Cardinality(OfWindow(h, w))
  PROVE  /\ \A v \in Days \ {w} : OfWindow(l, v) = OfWindow(h, v) /\ Reserved(l, v) = Reserved(h, v)
         /\ Reserved(l, w) <= Len(Windows[w]) + Recovery
<1>1. /\ Len(h) \in Nat /\ DOMAIN h = 1..Len(h) /\ DOMAIN l = 1..(Len(h) + 1)
      /\ \A i \in 1..Len(h) : l[i] = h[i]
  BY DEF Begins
<1>2. ASSUME NEW v \in Days, l[Len(h) + 1].window # v
      PROVE  OfWindow(l, v) = OfWindow(h, v) /\ Reserved(l, v) = Reserved(h, v)
  <2>1. OfWindow(l, v) = OfWindow(h, v)
    BY <1>1, <1>2 DEF OfWindow
  <2>2. OfType(l, v, "attempt") = OfType(h, v, "attempt")
    <3>1. \A i \in OfWindow(h, v) : l[i] = h[i]
      BY <1>1 DEF OfWindow
    <3> QED
      BY <2>1, <3>1 DEF OfType
  <2> QED
    BY <2>1, <2>2 DEF Reserved
<1>3. l[Len(h) + 1].window = w
  <2>1. SUFFICES ASSUME l[Len(h) + 1].window # w PROVE FALSE
    OBVIOUS
  <2>2. Cardinality(OfWindow(l, w)) = Cardinality(OfWindow(h, w)) /\ Cardinality(OfWindow(h, w)) \in Nat
    BY <1>2, <2>1, LedgerState
  <2> QED
    BY <2>2 DEF CampaignExtends
<1>4. Reserved(l, w) <= Len(Windows[w]) + Recovery
  <2>1. /\ Reserved(l, w) \in Nat /\ Authorized(l, w) \in Nat /\ Base(l, w) \in Nat
        /\ Base(l, w) <= Len(Windows[w]) /\ Len(Windows[w]) \in Nat
    BY LedgerState, WindowSize
  <2>2. Reserved(l, w) <= Authorized(l, w) /\ Authorized(l, w) <= HardMax(Base(l, w))
    BY <2>1, CampaignAssumption DEF WithinBounds, HardMax
  <2>3. HardMax(Base(l, w)) \in Nat /\ HardMax(Base(l, w)) <= Base(l, w) + Recovery
    BY <2>1, CampaignAssumption DEF HardMax
  <2> QED
    BY <2>1, <2>2, <2>3, CampaignAssumption
<1> QED
  BY <1>2, <1>3, <1>4

\* No step brings order back.
LEMMA OrderStays ==
  ASSUME CampaignTypeOK, ControlInv, [CampaignNext]_campaignVars, Orderly'
  PROVE  Orderly
<1>1. (lockLost => lockLost') /\ (restored => restored')
  <2>1. ASSUME NEW p \in Operators, Work(p) \/ Disturb(p)
        PROVE  (lockLost => lockLost') /\ restored' = restored
    BY <2>1, LockMoves, DataStep
  <2>2. ASSUME NEW f \in floating, Land(f) PROVE UNCHANGED <<lockLost, restored>>
    BY <2>2 DEF Land, Environment
  <2>3. CASE Restore
    BY <2>3 DEF Restore
  <2>4. CASE NextSession \/ UNCHANGED campaignVars
    BY <2>4 DEF NextSession, campaignVars
  <2> QED
    BY <2>1, <2>2, <2>3, <2>4 DEF CampaignNext
<1> QED
  BY <1>1 DEF Orderly

\* The newest row counts every record of every campaign once, and covers every request.
LEMMA BudgetStep ==
  ASSUME CampaignTypeOK, ControlInv, RecordInv, PrefixInv, LockInv, BudgetInv,
         [CampaignNext]_campaignVars
  PROVE  BudgetInv'
<1> SUFFICES ASSUME Orderly'
             PROVE  /\ \A w \in Days :
                         /\ Cardinality(OfWindow(mark'[w], w)) = Cardinality(OfWindow(anchor', w))
                         /\ Reserved(anchor', w) <= Len(Windows[w]) + Recovery
                    /\ \A i \in DOMAIN vendor' :
                         vendor'[i].auth[1] \notin legacy' => Attempted(anchor', vendor'[i])
                    /\ \A q \in Operators : op'[q].pc = "call" /\ OfCampaign(q)' =>
                         Attempted(anchor', Request(q)')
  BY DEF BudgetInv
<1>o. Orderly
  BY OrderStays
<1>a. Advances
  <2>1. ~ restored \/ ~ lockLost
    BY <1>o DEF Orderly
  <2> QED
    BY <2>1, AnchorAdvances
<1>t. /\ anchor \in Seq(CampaignRecords) /\ mark \in [Days -> Seq(CampaignRecords)]
      /\ anchor' \in Seq(CampaignRecords)
  <2>1. anchor' \in Seq(CampaignRecords)
    BY TypeStep DEF CampaignTypeOK
  <2> QED
    BY <2>1 DEF CampaignTypeOK
<1>1. \A w \in Days :
        /\ Cardinality(OfWindow(mark'[w], w)) = Cardinality(OfWindow(anchor', w))
        /\ Reserved(anchor', w) <= Len(Windows[w]) + Recovery
  <2>1. \A w \in Days :
          /\ Cardinality(OfWindow(mark[w], w)) = Cardinality(OfWindow(anchor, w))
          /\ Reserved(anchor, w) <= Len(Windows[w]) + Recovery
    BY <1>o DEF BudgetInv
  <2>2. CASE UNCHANGED <<anchor, mark>>
    BY <2>1, <2>2
  <2>3. ASSUME NEW v \in Days, Len(anchor') = Len(anchor) + 1, Begins(anchor, anchor'),
               mark' = [mark EXCEPT ![v] = anchor'],
               WithinBounds(anchor', v), CampaignExtends(mark[v], anchor', v)
        PROVE  \A w \in Days :
                 /\ Cardinality(OfWindow(mark'[w], w)) = Cardinality(OfWindow(anchor', w))
                 /\ Reserved(anchor', w) <= Len(Windows[w]) + Recovery
    <3>1. /\ \A w \in Days \ {v} : OfWindow(anchor', w) = OfWindow(anchor, w)
                                     /\ Reserved(anchor', w) = Reserved(anchor, w)
          /\ Reserved(anchor', v) <= Len(Windows[v]) + Recovery
      BY <1>t, <2>1, <2>3, RowCounts
    <3>2. mark'[v] = anchor' /\ \A w \in Days \ {v} : mark'[w] = mark[w]
      BY <1>t, <2>3
    <3> QED
      BY <2>1, <3>1, <3>2
  <2> QED
    BY <1>a, <2>2, <2>3 DEF Advances
<1>2. \A v : Attempted(anchor, v) => Attempted(anchor', v)
  <2>1. Begins(anchor, anchor')
    BY <1>a, <1>t, Beginnings DEF Advances
  <2> QED
    BY <1>t, <2>1, Beginnings
<1>b. /\ \A i \in DOMAIN vendor : vendor[i].auth[1] \notin legacy => Attempted(anchor', vendor[i])
      /\ \A q \in Operators : op[q].pc = "call" /\ OfCampaign(q) => Attempted(anchor', Request(q))
  BY <1>o, <1>2 DEF BudgetInv
<1>3. ASSUME NEW p \in Operators, Work(p) \/ Disturb(p)
      PROVE  /\ \A i \in DOMAIN vendor' :
                  vendor'[i].auth[1] \notin legacy' => Attempted(anchor', vendor'[i])
             /\ \A q \in Operators : op'[q].pc = "call" /\ OfCampaign(q)' =>
                  Attempted(anchor', Request(q)')
  <2>1. /\ legacy' = legacy /\ Only(p) /\ \A q \in Operators \ {p} : grants'[q] = grants[q]
    BY <1>3, DataStep, ControlStep, Started, GrantsStay
  <2>2. ASSUME NEW i \in DOMAIN vendor', vendor'[i].auth[1] \notin legacy'
        PROVE  Attempted(anchor', vendor'[i])
    <3>1. CASE i \in DOMAIN vendor
      BY <1>3, <1>b, <2>1, <2>2, <3>1, VendorGrows
    <3>2. CASE op[p].pc = "call" /\ vendor'[i] = Request(p)
      BY <1>b, <2>1, <2>2, <3>2 DEF Request, AuthOf, OfCampaign
    <3> QED
      BY <1>3, <3>1, <3>2, VendorGrows
  <2>3. ASSUME NEW q \in Operators, op'[q].pc = "call", OfCampaign(q)'
        PROVE  Attempted(anchor', Request(q)')
    <3>1. CASE q # p
      BY <1>b, <2>1, <2>3, <3>1, OthersStand
    <3>2. CASE q = p
      <4>1. ~ Start(p) /\ Request(p)' = Request(p) /\ OfCampaign(p)
        <5>1. OfCampaign(p)
          BY <2>1, <2>3, <3>2 DEF OfCampaign
        <5>2. ~ Start(p)
          BY <1>3, <2>3, <3>2, Started
        <5>3. grants' = grants
          BY <1>3, <5>2, GrantsStay
        <5>4. op'[p].plan = op[p].plan /\ op'[p].todo = op[p].todo
          BY <1>3, <2>3, <3>2, <5>1, Course DEF Keeps, OfCampaign
        <5> QED
          BY <5>1, <5>2, <5>3, <5>4, SameCall
      <4>2. CASE op' = op
        BY <1>b, <2>3, <3>2, <4>1, <4>2
      <4>3. CASE op' # op
        <5>1. Observe(p) /\ op[p].status = "reserving" /\ anchor = op[p].sent
          BY <1>3, <2>3, <3>2, <4>1, <4>3, Course DEF OfCampaign
        <5>2. Describes(p, op[p].rec) /\ op[p].rec \in Elements(anchor)
          BY <5>1 DEF Observe, RecordInv, RecordOf
        <5>3. Attempted(anchor, Request(p))
          BY <5>1, <5>2 DEF Describes, Attempted, Request
        <5> QED
          BY <1>2, <3>2, <4>1, <5>3
      <4> QED
        BY <4>2, <4>3
    <3> QED
      BY <3>1, <3>2
  <2> QED
    BY <2>2, <2>3
<1>4. ASSUME NEW f \in floating, Land(f)
      PROVE  UNCHANGED <<op, grants, legacy, vendor>>
  BY <1>4 DEF Land, Environment
<1>5. Restore \/ NextSession \/ UNCHANGED campaignVars => UNCHANGED <<op, grants, legacy, vendor>>
  BY DEF Restore, NextSession, campaignVars
<1>6. CASE UNCHANGED <<op, grants, legacy, vendor>>
  <2>1. /\ \A q \in Operators : OfCampaign(q)' <=> OfCampaign(q)
        /\ \A q \in Operators : Request(q)' = Request(q)
    BY <1>6 DEF Request, Current, AuthOf, OfCampaign
  <2> QED
    BY <1>1, <1>b, <1>6, <2>1
<1> QED
  BY <1>1, <1>3, <1>4, <1>5, <1>6 DEF CampaignNext

\* The requests a campaign has sent are no more than its reservations in the
\* anchored ledger: each has a reservation of its own.
LEMMA SpentReserved ==
  ASSUME CampaignTypeOK, RequestInv, BudgetInv, Orderly, NEW w \in Days
  PROVE  Spent(w) <= Reserved(anchor, w)
<1> DEFINE S == {i \in DOMAIN vendor : vendor[i].window = w /\ vendor[i].auth[1] \notin legacy}
           T == OfType(anchor, w, "attempt")
           Holds(i, k) == anchor[k].auth = vendor[i].auth /\ anchor[k].call = vendor[i].call
           f == [i \in S |-> CHOOSE k \in T : Holds(i, k)]
<1>1. IsFiniteSet(T)
  BY LedgerState DEF CampaignTypeOK
<1>2. \A i \in S : \E k \in T : Holds(i, k)
  <2>1. SUFFICES ASSUME NEW i \in S PROVE \E k \in T : Holds(i, k)
    OBVIOUS
  <2>2. Attempted(anchor, vendor[i]) /\ vendor[i].window = w
    BY <2>1 DEF BudgetInv
  <2> QED
    BY <2>2 DEF Attempted, Elements, OfType, OfWindow
<1>3. \A i \in S : f[i] \in T /\ Holds(i, f[i])
  BY <1>2
<1>4. \A i, j \in S : f[i] = f[j] => i = j
  <2> HIDE DEF f
  <2> QED
    BY <1>3 DEF RequestInv
<1>5. f \in Injection(S, T)
  <2>1. f \in [S -> T]
    BY <1>3
  <2> HIDE DEF f
  <2> QED
    BY <1>4, <2>1 DEF Injection, IsInjective
<1> HIDE DEF S, T, f
<1>6. Cardinality(S) <= Cardinality(T)
  BY <1>1, <1>5, FS_Injection
<1> QED
  BY <1>6 DEF S, T, Spent, Reserved

\* The budget holds because each request has an attempt of its own in the newest row.
LEMMA BudgetCovered ==
  ASSUME CampaignTypeOK, RequestInv, BudgetInv
  PROVE  BudgetHolds
BY SpentReserved DEF BudgetHolds, BudgetInv

-----------------------------------------------------------------------------
(* Retries.                                                                *)

\* Back at the head of its loop an operation has no open request of its own
\* among the calls it has left.
LEMMA Leaving ==
  ASSUME CampaignTypeOK, ControlInv, NEW p \in Operators, Work(p) \/ Disturb(p),
         op'[p].pc \in {"repair", "next"}
  PROVE  /\ Active(p) /\ ~ Start(p) /\ vendor' = vendor
         /\ op'[p].todo \subseteq op[p].todo
         /\ \A v : Underway(p, v) => v.call \notin op'[p].todo
<1> DEFINE Goal == /\ Active(p) /\ ~ Start(p) /\ vendor' = vendor
                   /\ op'[p].todo \subseteq op[p].todo
                   /\ \A v : Underway(p, v) => v.call \notin op'[p].todo
<1>s. /\ ~ Start(p) /\ ~ Plan(p) /\ ~ Require(p) /\ ~ Prepare(p) /\ ~ Publish(p)
      /\ ~ Commit(p) /\ ~ LoseReply(p) /\ ~ Stop(p)
  <2>1. "prepare" \in Steps /\ "observe" \in Steps
    BY DEF Steps
  <2> QED
    BY <2>1, Stopped, Started, Planned, Prepared, Published, Went DEF Require, Commit, LoseReply
<1>a. ASSUME op[p].pc \in {"repair", "next"} PROVE Active(p) /\ \A v : ~ Underway(p, v)
  BY <1>a DEF Active, Underway, Recording
<1>b. ASSUME Proceed(p), op[p].pc \in {"append", "observe"}, vendor' = vendor PROVE Goal
  <2>1. /\ op'[p].pc = AfterRecord(p)
        /\ op'[p].todo = IF AfterRecord(p) = "next" THEN op[p].todo \ {Current(p)} ELSE op[p].todo
    BY <1>b, <1>s, Proceeded
  <2>2. Active(p)
    BY <1>b DEF Active
  <2>3. CASE AfterRecord(p) = "next"
    BY <1>b, <1>s, <2>1, <2>2, <2>3 DEF Underway
  <2>4. CASE AfterRecord(p) = "repair"
    <3>1. op[p].status = "authorizing"
      BY <2>4 DEF AfterRecord
    <3> QED
      BY <1>b, <1>s, <2>1, <2>2, <2>4, <3>1 DEF Underway, Ended
  <2> QED
    BY <2>1, <2>3, <2>4
<1>1. CASE AppendRecord(p)
  <2>1. vendor' = vendor /\ op[p].pc = "append" /\ (Proceed(p) \/ Go(p, "publish"))
    BY <1>1 DEF AppendRecord
  <2>2. ~ Go(p, "publish")
    BY Went DEF Steps
  <2> QED
    BY <1>b, <2>1, <2>2
<1>2. CASE Observe(p)
  <2>1. vendor' = vendor /\ op[p].pc = "observe" /\ (Proceed(p) \/ Stop(p))
    BY <1>2 DEF Observe
  <2> QED
    BY <1>b, <1>s, <2>1
<1>3. CASE RepairPlan(p)
  <2>1. vendor' = vendor /\ op[p].pc = "repair" /\ Go(p, "next") /\ "next" \in Steps
    BY <1>3 DEF RepairPlan, Steps
  <2> QED
    BY <1>a, <1>s, <2>1, Went
<1>4. CASE NextCall(p) \/ NextSessionCall(p)
  <2>1. op[p].pc = "next" /\ vendor' = vendor
    BY <1>4 DEF NextCall, NextSessionCall
  <2>2. \/ Stop(p)
        \/ \E c : op' = [op EXCEPT ![p].todo = @ \ {c}]
        \/ op' = [op EXCEPT ![p].pc = "require", ![p].status = "reserving"]
        \/ op' = [op EXCEPT ![p].pc = "prepare", ![p].status = "reserving"]
    BY <1>4 DEF NextCall, NextSessionCall
  <2>3. "require" \in Steps /\ "prepare" \in Steps
    BY DEF Steps
  <2>4. ASSUME NEW c, op' = [op EXCEPT ![p].todo = @ \ {c}] PROVE op'[p].todo \subseteq op[p].todo
    BY <2>4, Skipped
  <2>5. op'[p].todo \subseteq op[p].todo
    BY <1>s, <2>2, <2>3, <2>4, Reserving
  <2> QED
    BY <1>a, <1>s, <2>1, <2>5
<1>5. ~ Call(p)
  <2>1. "answer" \in Steps /\ "failed_before_admission" \in Statuses
    BY DEF Steps, Statuses
  <2> QED
    BY <2>1, Went, Resolved DEF Call
<1>6. ~ Answer(p) /\ ~ CallFails(p)
  <2>1. "checkpointed" \in Statuses /\ "failed_after_admission" \in Statuses
    BY DEF Statuses
  <2> QED
    BY <2>1, Resolved DEF Answer, CallFails
<1>7. ~ Refuse(p) /\ ~ Postflight(p) /\ ~ Crash(p)
  <2>1. ~ Refuse(p)
    BY IdleTyped, Moved DEF Refuse, Idle
  <2> QED
    BY <1>s, <2>1 DEF Postflight, Crash
<1>8. CASE RepairCampaign(p) \/ RepairBackfill(p) \/ LoseLock(p)
  <2>1. op' = op /\ vendor' = vendor
    BY <1>8 DEF RepairCampaign, RepairBackfill, AddReceipts, LoseLock
  <2> QED
    BY <1>a, <1>s, <2>1
<1> QED
  BY <1>s, <1>1, <1>2, <1>3, <1>4, <1>5, <1>6, <1>7, <1>8 DEF Work, Disturb

\* What is on record stays on record while the lock lives.
LEMMA KnownStays ==
  ASSUME CampaignTypeOK, ControlInv, PrefixInv, LockInv, [CampaignNext]_campaignVars, ~ lockLost'
  PROVE  /\ ~ lockLost /\ Advances
         /\ \A v : Known(v) => Known(v)'
         /\ \A v : Attempted(file["backfill"], v) => Attempted(file'["backfill"], v)
<1>1. ~ lockLost
  <2>1. ASSUME NEW p \in Operators, Work(p) \/ Disturb(p) PROVE lockLost => lockLost'
    BY <2>1, LockMoves
  <2>2. (\E f \in floating : Land(f)) \/ Restore \/ NextSession \/ UNCHANGED campaignVars
        => lockLost' = lockLost
    BY DEF Land, Environment, Restore, NextSession, campaignVars
  <2> QED
    BY <2>1, <2>2 DEF CampaignNext
<1>2. Advances
  BY <1>1, AnchorAdvances
<1>3. Begins(file["backfill"], file'["backfill"])
  <2>1. ASSUME NEW p \in Operators, Work(p) \/ Disturb(p)
        PROVE  Begins(file["backfill"], file'["backfill"])
    BY <2>1, Effects, LedgersTyped
  <2>2. (\E f \in floating : Land(f)) \/ Restore \/ NextSession \/ UNCHANGED campaignVars
        => file'["backfill"] = file["backfill"]
    BY DEF Land, Disk, Restore, NextSession, campaignVars, CampaignTypeOK, Lanes
  <2>3. Begins(file["backfill"], file["backfill"])
    BY LedgersTyped, Beginnings
  <2> QED
    BY <2>1, <2>2, <2>3 DEF CampaignNext
<1>4. /\ file["backfill"] \in Seq(BackfillRecords) /\ file'["backfill"] \in Seq(BackfillRecords)
      /\ anchor \in Seq(CampaignRecords) /\ anchor' \in Seq(CampaignRecords)
  <2>1. /\ file'["backfill"] \in Seq(LaneRecords("backfill")) /\ anchor' \in Seq(CampaignRecords)
    BY TypeStep, LedgersTyped DEF CampaignTypeOK
  <2> QED
    BY <2>1, LedgersTyped DEF LaneRecords
<1>5. Begins(anchor, anchor')
  BY <1>2, <1>4, Beginnings DEF Advances
<1>6. /\ \A x, c : HasOutcome(file["backfill"], x, c) => HasOutcome(file'["backfill"], x, c)
      /\ \A v : Attempted(file["backfill"], v) => Attempted(file'["backfill"], v)
  BY <1>3, <1>4, Beginnings
<1>7. \A x, c : HasOutcome(anchor, x, c) => HasOutcome(anchor', x, c)
  BY <1>4, <1>5, Beginnings
<1> QED
  BY <1>1, <1>2, <1>6, <1>7 DEF Known

\* An operation begins with no unknown outcome among its calls.
LEMMA FreshStart ==
  ASSUME CampaignTypeOK, BudgetInv, RetryInv, ~ lockLost, NEW p \in Operators, Start(p),
         NEW i \in DOMAIN vendor, vendor[i].call \in op[p].plan.calls,
         p \in legacy => vendor[i].auth[1] \in legacy
  PROVE  Known(vendor[i])
<1> DEFINE v == vendor[i]
<1>1. Ready(p) /\ PlanOf(p) = op[p].plan
  BY DEF Start, Startable
<1>2. v.call \in Missing(p, day)
  BY <1>1, PlanTyped
<1>3. \A l : Attempted(l, v) /\ v.call \notin Unresolved(l) => HasOutcome(l, v.auth, v.call)
  BY DEF Attempted, Unresolved
<1>4. CASE v.auth[1] \in legacy
  <2>1. Attempted(file["backfill"], v)
    BY <1>4 DEF RetryInv
  <2>2. v.call \notin Unresolved(file["backfill"])
    BY <1>1, <1>2 DEF Ready, BackfillReady, CampaignReady, BackfillPlan, CampaignPlan
  <2> QED
    BY <1>3, <2>1, <2>2 DEF Known
<1>5. CASE v.auth[1] \notin legacy
  <2>1. Attempted(anchor, v)
    BY <1>5 DEF BudgetInv, Orderly
  <2>2. anchor = file["acquisition"] /\ v.call \notin Unresolved(file["acquisition"])
    BY <1>1, <1>2, <1>5 DEF Ready, CampaignReady, CampaignPlan, Anchored
  <2> QED
    BY <1>3, <2>1, <2>2 DEF Known
<1> QED
  BY <1>4, <1>5

\* What a running operation may still send is on record or its own request.
LEMMA OwnCalls ==
  ASSUME CampaignTypeOK, ControlInv, PrefixInv, LockInv, BudgetInv, RetryInv,
         NEW p \in Operators, Work(p) \/ Disturb(p), ~ lockLost', Active(p)',
         NEW i \in DOMAIN vendor', NEW v, v = vendor'[i], v.call \in op'[p].todo,
         p \in legacy => v.auth[1] \in legacy
  PROVE  Known(v)' \/ Underway(p, v)'
<1>n. [CampaignNext]_campaignVars
  BY DEF CampaignNext
<1>k. ~ lockLost /\ (Known(v) => Known(v)')
  BY <1>n, KnownStays
<1>l. legacy' = legacy
  BY DataStep
<1>v. \/ i \in DOMAIN vendor /\ vendor'[i] = vendor[i]
      \/ Call(p) /\ op[p].pc = "call" /\ vendor'[i] = Request(p)
  BY VendorGrows
<1>2. CASE Start(p)
  <2>1. i \in DOMAIN vendor /\ v = vendor[i] /\ op'[p].todo = op[p].plan.calls
    BY <1>2, StillActive, Started
  <2>2. Known(vendor[i])
    BY <1>2, <1>k, <1>l, <2>1, FreshStart
  <2> QED
    BY <1>k, <2>1, <2>2
<1>3. CASE ~ Start(p)
  <2>1. Active(p) /\ AuthOf(p)' = AuthOf(p) /\ grants' = grants
    BY <1>3, StillActive, GrantsStay
  <2>2. ASSUME i \in DOMAIN vendor, v = vendor[i], v.call \in op[p].todo
        PROVE  Known(v) \/ Underway(p, v)
    BY <1>k, <1>l, <2>1, <2>2 DEF RetryInv
  <2>3. CASE op'[p].pc \in {"repair", "next"}
    <3>1. i \in DOMAIN vendor /\ v = vendor[i] /\ v.call \in op[p].todo /\ ~ Underway(p, v)
      BY <2>3, Leaving
    <3> QED
      BY <1>k, <2>2, <3>1
  <2>4. CASE op'[p].todo = op[p].todo /\ op'[p].plan = op[p].plan
    <3>1. Current(p)' = Current(p)
      BY <2>1, <2>4, SameCall
    <3>2. CASE Call(p) /\ v = Request(p) /\ op'[p].pc = "answer"
      BY <2>1, <3>1, <3>2 DEF Underway, Request
    <3>3. ASSUME i \in DOMAIN vendor, v = vendor[i], Underway(p, v) =>
                   \/ op'[p].pc = "answer"
                   \/ op'[p].pc \in Recording /\ op'[p].status \in Ended
          PROVE  Known(v)' \/ Underway(p, v)'
      <4>1. Known(v) \/ Underway(p, v)
        BY <2>2, <2>4, <3>3
      <4>2. Underway(p, v) => Underway(p, v)'
        BY <2>1, <3>1, <3>3 DEF Underway
      <4> QED
        BY <1>k, <4>1, <4>2
    <3>4. CASE op' = op /\ UNCHANGED Frame
      <4>1. i \in DOMAIN vendor /\ v = vendor[i]
        BY <3>4 DEF Frame
      <4>2. Underway(p, v) => \/ op'[p].pc = "answer"
                              \/ op'[p].pc \in Recording /\ op'[p].status \in Ended
        BY <3>4 DEF Underway
      <4> QED
        BY <3>3, <4>1, <4>2
    <3>5. CASE /\ op'[p].pc \in Recording /\ op'[p].status = op[p].status
               /\ ~ Call(p) /\ op[p].pc # "answer"
      BY <1>v, <3>3, <3>5 DEF Underway
    <3>6. CASE op[p].pc \in {"call", "answer"} /\ UNCHANGED Frame /\ op'[p].status \in Ended
               /\ op'[p].pc \in {"prepare", "require"}
      <4>1. i \in DOMAIN vendor /\ v = vendor[i]
        BY <3>6 DEF Frame
      <4> QED
        BY <3>3, <3>6, <4>1 DEF Recording
    <3>7. CASE op'[p].pc = "call" /\ op[p].status = "reserving" /\ op[p].pc # "answer" /\ ~ Call(p)
      BY <1>v, <3>3, <3>7 DEF Underway, Ended
    <3>8. CASE op[p].pc = "next" /\ UNCHANGED Frame
      <4>1. i \in DOMAIN vendor /\ v = vendor[i]
        BY <3>8 DEF Frame
      <4> QED
        BY <3>3, <3>8, <4>1 DEF Underway, Recording
    <3>9. CASE Call(p) /\ op'[p].pc = "answer"
      BY <1>v, <3>2, <3>3, <3>9
    <3>10. /\ Require(p) \/ Prepare(p) \/ AppendRecord(p) \/ Publish(p) \/ Commit(p)
              \/ LoseReply(p) \/ Observe(p) => ~ Call(p) /\ op[p].pc # "answer"
           /\ {"prepare", "append", "publish", "sent", "observe"} \subseteq Recording
      BY DEF Require, Prepare, AppendRecord, Publish, Commit, LoseReply, Observe, Call, Recording
    <3>11. op'[p].pc \notin {"idle", "granted"}
      BY DEF Active
    <3>12. \/ op'[p].pc \in {"repair", "next"}
           \/ op' = op /\ UNCHANGED Frame
           \/ op'[p].pc \in Recording /\ op'[p].status = op[p].status /\ ~ Call(p) /\ op[p].pc # "answer"
           \/ /\ op[p].pc \in {"call", "answer"} /\ UNCHANGED Frame /\ op'[p].status \in Ended
              /\ op'[p].pc \in {"prepare", "require"}
           \/ op'[p].pc = "call" /\ op[p].status = "reserving" /\ op[p].pc # "answer" /\ ~ Call(p)
           \/ op[p].pc = "next" /\ UNCHANGED Frame
           \/ Call(p) /\ op'[p].pc = "answer"
      BY <1>3, <3>10, <3>11, Course
    <3> QED
      BY <2>3, <3>4, <3>5, <3>6, <3>7, <3>8, <3>9, <3>12
  <2>5. \/ op'[p].pc \in {"repair", "next"}
        \/ op'[p].todo = op[p].todo /\ op'[p].plan = op[p].plan
    <3>1. op'[p].pc \notin {"idle", "granted"}
      BY DEF Active
    <3> QED
      BY <1>3, <3>1, Course DEF Keeps
  <2> QED
    BY <2>3, <2>4, <2>5
<1> QED
  BY <1>2, <1>3

\* While the lock connection lives, every open request is in a ledger that a later plan
\* reads.
LEMMA RetryStep ==
  ASSUME CampaignTypeOK, ControlInv, RecordInv, PrefixInv, LockInv, BudgetInv, RetryInv,
         [CampaignNext]_campaignVars
  PROVE  RetryInv'
<1> SUFFICES ASSUME ~ lockLost'
             PROVE  /\ \A i \in DOMAIN vendor' : vendor'[i].auth[1] \in legacy' =>
                         Attempted(file'["backfill"], vendor'[i])
                    /\ \A q \in legacy' : op'[q].pc = "call" =>
                         Attempted(file'["backfill"], Request(q)')
                    /\ \A q \in Operators : Active(q)' =>
                         \A i \in DOMAIN vendor' : \A v :
                           /\ v = vendor'[i] /\ v.call \in op'[q].todo
                           /\ q \in legacy' => v.auth[1] \in legacy'
                           => Known(v)' \/ Underway(q, v)'
  BY DEF RetryInv, Known, Underway
<1>k. /\ ~ lockLost
      /\ \A v : Known(v) => Known(v)'
      /\ \A v : Attempted(file["backfill"], v) => Attempted(file'["backfill"], v)
  BY KnownStays
<1>r. /\ \A i \in DOMAIN vendor : vendor[i].auth[1] \in legacy =>
           Attempted(file'["backfill"], vendor[i])
      /\ \A q \in legacy : op[q].pc = "call" => Attempted(file'["backfill"], Request(q))
      /\ legacy \subseteq Operators
  BY <1>k DEF RetryInv, CampaignTypeOK
<1>1. ASSUME NEW p \in Operators, Work(p) \/ Disturb(p)
      PROVE  /\ \A i \in DOMAIN vendor' : vendor'[i].auth[1] \in legacy' =>
                  Attempted(file'["backfill"], vendor'[i])
             /\ \A q \in legacy' : op'[q].pc = "call" =>
                  Attempted(file'["backfill"], Request(q)')
             /\ \A q \in Operators : Active(q)' =>
                  \A i \in DOMAIN vendor' : \A v :
                    /\ v = vendor'[i] /\ v.call \in op'[q].todo
                    /\ q \in legacy' => v.auth[1] \in legacy'
                    => Known(v)' \/ Underway(q, v)'
  <2>1. /\ legacy' = legacy /\ Only(p) /\ \A q \in Operators \ {p} : grants'[q] = grants[q]
    BY <1>1, DataStep, ControlStep, Started, GrantsStay
  <2>2. ASSUME NEW i \in DOMAIN vendor', vendor'[i].auth[1] \in legacy
        PROVE  Attempted(file'["backfill"], vendor'[i])
    <3>1. CASE i \in DOMAIN vendor
      BY <1>1, <1>r, <2>2, <3>1, VendorGrows
    <3>2. CASE op[p].pc = "call" /\ vendor'[i] = Request(p)
      <4>1. p \in legacy
        BY <2>2, <3>2 DEF Request, AuthOf
      <4> QED
        BY <1>r, <3>2, <4>1
    <3> QED
      BY <1>1, <3>1, <3>2, VendorGrows
  <2>3. ASSUME NEW q \in legacy, op'[q].pc = "call"
        PROVE  Attempted(file'["backfill"], Request(q)')
    <3>1. CASE q # p
      BY <1>r, <2>1, <2>3, <3>1, OthersStand
    <3>2. CASE q = p /\ op' = op
      <4>1. ~ Start(p)
        BY <1>1, <2>3, <3>2, Started
      <4>2. Request(p)' = Request(p)
        BY <1>1, <3>2, <4>1, GrantsStay, SameCall
      <4> QED
        BY <1>r, <2>3, <3>2, <4>2
    <3>3. CASE q = p /\ op' # op
      <4>1. /\ AppendRecord(p) /\ op'[p].plan = op[p].plan /\ op[p].status = "reserving"
            /\ op'[p].todo = op[p].todo
        BY <1>1, <2>3, <3>3, Course DEF Keeps, Observe, OfCampaign, ControlInv, ControlOf
      <4>2. Request(p)' = Request(p)
        BY <4>1, SameCall DEF AppendRecord
      <4>3. op[p].pc = "append" /\ Lane(p) = "backfill" /\ ~ torn[Lane(p)]
        <5>1. op[p].pc = "append" /\ Lane(p) = "backfill"
          BY <2>3, <3>3, <4>1 DEF AppendRecord, Lane
        <5> QED
          BY <1>k, <1>1, <5>1 DEF LockInv, LockOf
      <4>4. Describes(p, op[p].rec)
        BY <4>3 DEF RecordInv, RecordOf
      <4>5. op[p].rec \in Elements(file'["backfill"])
        <5>1. file'["backfill"] = Append(file["backfill"], op[p].rec)
          BY <4>1, <4>3, LedgersTyped DEF AppendRecord, CampaignTypeOK
        <5> QED
          BY <5>1, LedgersTyped, Appended
      <4>6. Attempted(file'["backfill"], Request(p))
        BY <4>1, <4>4, <4>5 DEF Describes, Attempted, Request
      <4> QED
        BY <3>3, <4>2, <4>6
    <3> QED
      BY <3>1, <3>2, <3>3
  <2>4. ASSUME NEW q \in Operators, Active(q)', NEW i \in DOMAIN vendor', NEW v, v = vendor'[i],
               v.call \in op'[q].todo, q \in legacy => v.auth[1] \in legacy
        PROVE  Known(v)' \/ Underway(q, v)'
    <3>1. CASE q = p
      BY <1>1, <2>4, <3>1, OwnCalls
    <3>2. CASE q # p
      <4>1. /\ op'[q] = op[q] /\ Active(q) /\ AuthOf(q)' = AuthOf(q) /\ Current(q)' = Current(q)
        BY <2>1, <2>4, <3>2, OthersStand
      <4>2. UNCHANGED Frame
        <5>1. lock = q
          BY <1>k, <4>1 DEF LockInv, LockOf
        <5>2. ~ Active(p)
          BY <1>k, <3>2, <5>1 DEF LockInv, LockOf
        <5>3. ~ Start(p)
          BY <1>1, <5>1, LockMoves, CampaignAssumption
        <5> QED
          BY <1>1, <5>2, <5>3, LockMoves
      <4>3. i \in DOMAIN vendor /\ v = vendor[i]
        BY <2>4, <4>2 DEF Frame
      <4>4. Known(v) \/ Underway(q, v)
        BY <1>k, <2>4, <4>1, <4>3 DEF RetryInv
      <4>5. Underway(q, v) => Underway(q, v)'
        BY <4>1 DEF Underway
      <4> QED
        BY <1>k, <4>4, <4>5
    <3> QED
      BY <3>1, <3>2
  <2> QED
    BY <2>1, <2>2, <2>3, <2>4
<1>2. CASE (\E f \in floating : Land(f)) \/ NextSession \/ UNCHANGED campaignVars
  <2>1. UNCHANGED <<op, grants, legacy, vendor>>
    BY <1>2 DEF Land, Environment, NextSession, campaignVars
  <2>2. \A q \in Operators :
          /\ Request(q)' = Request(q) /\ (Active(q)' <=> Active(q))
          /\ \A v : Underway(q, v) => Underway(q, v)'
    BY <2>1 DEF Request, Current, AuthOf, Active, Underway
  <2>3. \A q \in Operators : Active(q) =>
          \A i \in DOMAIN vendor : \A v :
            /\ v = vendor[i] /\ v.call \in op[q].todo
            /\ q \in legacy => v.auth[1] \in legacy
            => Known(v)' \/ Underway(q, v)
    BY <1>k DEF RetryInv
  <2> QED
    BY <1>r, <2>1, <2>2, <2>3
<1>3. CASE Restore
  <2>1. \A q \in Operators : op'[q].pc \in {"idle", "granted"}
    BY <1>3 DEF Restore
  <2>2. UNCHANGED <<legacy, vendor>>
    BY <1>3 DEF Restore
  <2> QED
    BY <1>r, <2>1, <2>2 DEF Active
<1> QED
  BY <1>1, <1>2, <1>3 DEF CampaignNext

\* A request is repeated only after its outcome was recorded.
LEMMA RetriesKnown ==
  ASSUME CampaignTypeOK, ControlInv, PrefixInv, LockInv, BudgetInv, RetryInv, NoBlindRetry,
         [CampaignNext]_campaignVars
  PROVE  NoBlindRetry'
<1> SUFFICES ASSUME ~ lockLost', NEW i \in DOMAIN vendor', NEW j \in DOMAIN vendor',
                    NEW u, NEW v, u = vendor'[i], v = vendor'[j],
                    i < j, u.call = v.call, v.auth[1] \in legacy' => u.auth[1] \in legacy'
             PROVE  Known(u)'
  BY DEF NoBlindRetry, Known
<1>k. ~ lockLost /\ (Known(u) => Known(u)')
  BY KnownStays
<1>1. CASE i \in DOMAIN vendor /\ j \in DOMAIN vendor /\ u = vendor[i] /\ v = vendor[j]
           /\ legacy' = legacy
  BY <1>k, <1>1 DEF NoBlindRetry, Known
<1>2. ASSUME NEW p \in Operators, Work(p) \/ Disturb(p) PROVE Known(u)'
  <2>1. legacy' = legacy
    BY <1>2, DataStep
  <2>2. CASE j \in DOMAIN vendor
    <3>1. i \in DOMAIN vendor
      <4>1. vendor \in Seq([call: Calls, auth: Auths, window: Days])
            /\ vendor' \in Seq([call: Calls, auth: Auths, window: Days])
        BY <1>2, DataStep DEF CampaignTypeOK
      <4>2. Len(vendor) \in Nat /\ DOMAIN vendor = 1..Len(vendor) /\ DOMAIN vendor' = 1..Len(vendor')
            /\ Len(vendor') \in Nat
        BY <4>1
      <4> QED
        BY <2>2, <4>2
    <3> QED
      BY <1>1, <1>2, <2>1, <2>2, <3>1, VendorGrows
  <2>3. CASE Call(p) /\ op[p].pc = "call" /\ j = Len(vendor) + 1 /\ v = Request(p)
    <3>1. i \in DOMAIN vendor /\ u = vendor[i]
      <4>1. i # Len(vendor) + 1
        BY <1>2, <2>3, VendorGrows, TypeStep
      <4> QED
        BY <1>2, <4>1, VendorGrows
    <3>2. u.call \in op[p].todo /\ (p \in legacy => u.auth[1] \in legacy)
      BY <2>1, <2>3, RequestTyped DEF Request, AuthOf
    <3>3. Active(p) /\ ~ Underway(p, u)
      BY <2>3 DEF Active, Underway, Recording
    <3> QED
      BY <1>k, <3>1, <3>2, <3>3 DEF RetryInv
  <2> QED
    BY <1>2, <2>2, <2>3, VendorGrows
<1>3. CASE (\E f \in floating : Land(f)) \/ Restore \/ NextSession \/ UNCHANGED campaignVars
  <2>1. UNCHANGED <<legacy, vendor>>
    BY <1>3 DEF Land, Environment, Restore, NextSession, campaignVars
  <2> QED
    BY <1>1, <2>1
<1> QED
  BY <1>2, <1>3 DEF CampaignNext

-----------------------------------------------------------------------------
(* The campaign's theorems.                                                *)

\* What every reachable state of the campaign satisfies.
CampaignInv ==
  /\ CampaignTypeOK /\ ControlInv
  /\ RecordInv /\ RequestInv
  /\ PrefixInv /\ LockInv
  /\ BudgetInv /\ RetryInv /\ NoBlindRetry

\* The invariant holds at the beginning.
LEMMA CampaignStarts == CampaignInit => CampaignInv
<1> SUFFICES ASSUME CampaignInit PROVE CampaignInv
  OBVIOUS
<1>1. CampaignTypeOK /\ ControlInv
  BY TypeInit
<1>2. /\ file["acquisition"] = <<>> /\ anchor = <<>> /\ vendor = <<>> /\ floating = {}
      /\ \A w \in Days : mark[w] = <<>>
  BY DEF CampaignInit, Lanes
<1>3. \A p \in Operators : op[p].pc = "idle"
  BY DEF CampaignInit, Idle
<1>4. RecordInv /\ RequestInv
  BY <1>2, <1>3 DEF RecordInv, RecordOf, RequestInv, Active
<1>5. PrefixInv
  BY <1>2, <1>3 DEF PrefixInv, Begins
<1>6. LockInv
  BY <1>2, <1>3 DEF LockInv, LockOf, Active
<1>7. BudgetInv
  <2>1. \A w \in Days : Reserved(anchor, w) = 0
    <3>1. \A w \in Days : OfType(anchor, w, "attempt") = {}
      BY <1>2 DEF OfType, OfWindow
    <3> QED
      BY <3>1, FS_EmptySet DEF Reserved
  <2>2. \A w \in Days : 0 <= Len(Windows[w]) + Recovery
    BY WindowSize, CampaignAssumption
  <2> QED
    BY <1>2, <1>3, <2>1, <2>2 DEF BudgetInv
<1>8. RetryInv /\ NoBlindRetry
  BY <1>1, <1>2, <1>3 DEF RetryInv, NoBlindRetry, Active, CampaignTypeOK
<1> QED
  BY <1>1, <1>4, <1>5, <1>6, <1>7, <1>8 DEF CampaignInv

\* Every step keeps the invariant.
LEMMA CampaignKept == CampaignInv /\ [CampaignNext]_campaignVars => CampaignInv'
BY TypeStep, RecordStep, RequestStep, PrefixStep, LockStep, BudgetStep, RetryStep, RetriesKnown
   DEF CampaignInv

\* The inductive invariant of the campaign.
THEOREM CampaignInvariant == CampaignSpec => []CampaignInv
BY CampaignStarts, CampaignKept, PTL DEF CampaignSpec

\* Whatever operators and faults do, every variable of the campaign holds a value of its
\* kind (_validate_records, the columns and checks of migration 0014).
THEOREM CampaignTyped == CampaignSpec => []CampaignTypeOK
<1>1. CampaignInv => CampaignTypeOK
  BY DEF CampaignInv
<1> QED
  BY <1>1, CampaignInvariant, PTL

\* The requests a campaign sends are covered by the reservations of the newest high-water
\* row, and these by its base and the recovery allowance: for every number of operators,
\* windows and faults of every kind (execute_acquisition, publish of the campaign store).
THEOREM CampaignBudgetIsKept == CampaignSpec => []BudgetHolds
<1>1. CampaignInv => BudgetHolds
  BY BudgetCovered DEF CampaignInv
<1> QED
  BY <1>1, CampaignInvariant, PTL

\* While the lock connection lives no call is sent again before its outcome is on record, by
\* whichever script it was sent (unresolved_call_ids, _build_acquisition_plan).
THEOREM RetriesAreKnown == CampaignSpec => []NoBlindRetry
<1>1. CampaignInv => NoBlindRetry
  BY DEF CampaignInv
<1> QED
  BY <1>1, CampaignInvariant, PTL

\* One step of the history of the rows.
HistoryKept ==
  Orderly' /\ anchor' # anchor =>
    Len(anchor') > Len(anchor) /\ SubSeq(anchor', 1, Len(anchor)) = anchor

\* A new row extends the one before it.
LEMMA HistoryStep == CampaignInv /\ [CampaignNext]_campaignVars => HistoryKept
<1> SUFFICES ASSUME CampaignInv, [CampaignNext]_campaignVars, Orderly', anchor' # anchor
             PROVE  Len(anchor') > Len(anchor) /\ SubSeq(anchor', 1, Len(anchor)) = anchor
  BY DEF HistoryKept
<1>1. Orderly
  BY OrderStays DEF CampaignInv
<1>2. Advances
  <2>1. ~ restored \/ ~ lockLost
    BY <1>1 DEF Orderly
  <2> QED
    BY <2>1, AnchorAdvances DEF CampaignInv
<1>3. Len(anchor') = Len(anchor) + 1 /\ Begins(anchor, anchor')
  BY <1>2 DEF Advances
<1>4. anchor \in Seq(CampaignRecords) /\ anchor' \in Seq(CampaignRecords)
  BY TypeStep DEF CampaignInv, CampaignTypeOK
<1> DEFINE n == Len(anchor)
           s == SubSeq(anchor', 1, n)
<1>5. n \in Nat /\ \A i \in 1..n : anchor'[i] = anchor[i] /\ anchor[i] \in CampaignRecords
  BY <1>3, <1>4 DEF Begins
<1>6. s \in Seq(CampaignRecords) /\ Len(s) = n /\ \A i \in 1..n : s[i] = anchor'[i]
  <2>1. \A i \in 1..n : anchor'[i] \in CampaignRecords
    BY <1>5
  <2>2. /\ s \in Seq(CampaignRecords) /\ Len(s) = (IF 1 <= n THEN n - 1 + 1 ELSE 0)
        /\ \A i \in 1..(n - 1 + 1) : s[i] = anchor'[1 + i - 1]
    BY <1>5, <2>1, SubSeqProperties
  <2> QED
    BY <1>5, <2>2
<1>7. s = anchor
  BY <1>4, <1>5, <1>6, SeqEqual
<1> QED
  BY <1>3, <1>5, <1>7

\* The high-water rows form one history, although the database sees digests only
\* (publish_vendor_acquisition_campaign_anchor, _require_database_high_water).
THEOREM AnchorsFormOneHistory == CampaignSpec => AnchorExtends
<1>1. CampaignInv /\ [CampaignNext]_campaignVars => HistoryKept
  BY HistoryStep
<1> QED
  BY <1>1, CampaignInvariant, PTL DEF CampaignSpec, AnchorExtends, HistoryKept

=============================================================================
