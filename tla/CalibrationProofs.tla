-------------------------- MODULE CalibrationProofs --------------------------
(***************************************************************************)
(* Proofs about Calibration with the two modules it extends, for every set *)
(* of policies, cohorts and observations, every coverage and every number  *)
(* of clients and faults: the finite-sample quantile of Conformal, the     *)
(* registry's promise, and what is recorded and answered about evidence.   *)
(* The second half is about CloseLane and what is computed from its bars:  *)
(* the pages of a walk; adjustment factors for every precision, every      *)
(* window of prices and every set of actions; indicators, forecasts and    *)
(* their scores for every configuration.  Recursive functions are          *)
(* reasoned about by induction over the set of the numbers for which the   *)
(* statement holds (NatInduct); that a function with the recursive         *)
(* equation exists, so that its CHOOSE is one, is proved first (Iteration).*)
(***************************************************************************)
EXTENDS Calibration, CloseLane, FiniteSetTheorems, SequenceTheorems, WellFoundedInduction, TLAPS

-----------------------------------------------------------------------------
(* Conformal: the rank and the order statistic.                            *)

LEMMA CeilingForms ==
  ASSUME NEW x \in Int
  PROVE  (x + 999) \div 1000 = -((-x) \div 1000)
BY Z3

\* _rank (conformal.py:316) and the check of publish_fitted_calibration_set
\* (migration 0015) compute one number, whatever the sample and the coverage:
\* a set the client fitted is never refused for its rank.
THEOREM RanksAgree ==
  \A n \in Nat, millis \in Nat : DatabaseRank(n, millis) = Rank(n, millis)
<1>1. SUFFICES ASSUME NEW n \in Nat, NEW millis \in Nat
               PROVE  DatabaseRank(n, millis) = Rank(n, millis)
  OBVIOUS
<1>2. (n + 1) * millis \in Int
  OBVIOUS
<1>3. PICK x \in Int : x = (n + 1) * millis
  BY <1>2
<1>4. (x + 999) \div 1000 = -((-x) \div 1000)
  BY CeilingForms
<1>5. Rank(n, millis) = (x + 999) \div 1000
  BY <1>3 DEF Rank, CoverageScale
<1>6. DatabaseRank(n, millis) = -((-x) \div 1000)
  BY <1>3 DEF DatabaseRank, CoverageScale
<1> QED
  BY <1>4, <1>5, <1>6

\* Every nonempty set of natural numbers has a least element.
LEMMA LeastElement ==
  ASSUME NEW T, T \subseteq Nat, T # {}
  PROVE  \E m \in T : \A n \in T : m <= n
<1> DEFINE R == {ss \in Nat \X Nat : ss[1] < ss[2]}
<1>1. IsWellFoundedOn(R, Nat)
  BY NatLessThanWellFounded DEF OpToRel
<1> HIDE DEF R
<1>2. PICK m \in T : \A n \in T : ~ (<<n, m>> \in R)
  BY <1>1, WFMin
<1>3. \A n \in T : ~ (n < m)
  BY <1>2 DEF R
<1> QED
  BY <1>3

Value(scores) == {scores[i] : i \in DOMAIN scores}

\* How the two counts relate: both count observations, and every observation
\* strictly between two scores, or at the larger, tells their counts apart.
LEMMA Counts ==
  ASSUME NEW D, IsFiniteSet(D), NEW scores \in [D -> Int]
  PROVE  /\ \A v \in Int : AtMost(scores, v) \in Nat /\ Below(scores, v) \in Nat
         /\ \A v \in Int : AtMost(scores, v) <= Cardinality(D)
         /\ \A v \in Value(scores) : Below(scores, v) < AtMost(scores, v)
         /\ \A v \in Int, w \in Int : w < v => AtMost(scores, w) <= Below(scores, v)
<1> DEFINE Le(v) == {i \in D : scores[i] <= v}
           Lt(v) == {i \in D : scores[i] < v}
<1>0. \A v : AtMost(scores, v) = Cardinality(Le(v)) /\ Below(scores, v) = Cardinality(Lt(v))
  BY DEF AtMost, Below
<1>1. \A i \in D : scores[i] \in Int
  OBVIOUS
<1>2. \A v \in Int : Le(v) \subseteq D /\ Lt(v) \subseteq Le(v)
  BY <1>1
<1>3. \A v \in Int : IsFiniteSet(Le(v)) /\ Cardinality(Le(v)) <= Cardinality(D)
  BY <1>2, FS_Subset
<1>4. \A v \in Int : IsFiniteSet(Lt(v)) /\ Cardinality(Lt(v)) <= Cardinality(Le(v))
  BY <1>2, <1>3, FS_Subset
<1>5. \A v \in Int : Cardinality(Le(v)) \in Nat /\ Cardinality(Lt(v)) \in Nat
  BY <1>3, <1>4, FS_CardinalityType
<1>6. ASSUME NEW v \in Value(scores)
      PROVE  Cardinality(Lt(v)) < Cardinality(Le(v))
  <2>1. PICK i \in D : v = scores[i]
    BY DEF Value
  <2>2. v \in Int /\ i \in Le(v) /\ i \notin Lt(v)
    BY <2>1, <1>1
  <2>3. Cardinality(Le(v)) # Cardinality(Lt(v))
    BY <2>2, <1>2, <1>3, FS_Subset
  <2> QED
    BY <2>2, <2>3, <1>4, <1>5
<1>7. ASSUME NEW v \in Int, NEW w \in Int, w < v
      PROVE  Cardinality(Le(w)) <= Cardinality(Lt(v))
  <2>1. Le(w) \subseteq Lt(v)
    BY <1>1, <1>7
  <2> QED
    BY <2>1, <1>4, FS_Subset
<1> QED
  BY <1>0, <1>3, <1>5, <1>6, <1>7

\* sorted(scores)[k - 1] exists for every k up to the sample size.
LEMMA OrderStatisticExists ==
  ASSUME NEW D, IsFiniteSet(D), NEW scores \in [D -> Int], NEW k \in 1..Cardinality(D)
  PROVE  \E v \in Value(scores) : Below(scores, v) < k /\ k <= AtMost(scores, v)
<1> DEFINE S == Value(scores)
           T == {v \in S : k <= AtMost(scores, v)}
<1>0. S \subseteq Int
  BY DEF Value
<1>1. \A v \in S : AtMost(scores, v) \in Nat /\ Below(scores, v) \in Nat /\ AtMost(scores, v) <= Cardinality(D)
  BY <1>0, Counts
<1>n. Cardinality(D) \in Nat
  BY FS_CardinalityType
\* The largest score is at most itself everywhere.
<1>2. T # {}
  <2> DEFINE G == {Cardinality(D) - AtMost(scores, v) : v \in S}
  <2>1. D # {}
    BY FS_EmptySet
  <2>2. G \subseteq Nat /\ G # {}
    BY <2>1, <1>1, <1>n DEF Value
  <2>3. PICK g \in G : \A h \in G : g <= h
    BY <2>2, LeastElement
  <2>4. PICK v \in S : g = Cardinality(D) - AtMost(scores, v)
    BY <2>3
  <2>5. \A w \in S : AtMost(scores, w) <= AtMost(scores, v)
    <3>1. SUFFICES ASSUME NEW w \in S PROVE AtMost(scores, w) <= AtMost(scores, v)
      OBVIOUS
    <3>2. Cardinality(D) - AtMost(scores, v) <= Cardinality(D) - AtMost(scores, w)
      BY <2>3, <2>4
    <3> QED
      BY <3>2, <1>1, <1>n
  <2>6. \A i \in D : scores[i] <= v
    <3>1. SUFFICES ASSUME NEW i \in D, v < scores[i] PROVE FALSE
      BY <1>0
    <3>2. scores[i] \in S
      BY DEF Value
    <3>3. AtMost(scores, v) <= Below(scores, scores[i]) /\ Below(scores, scores[i]) < AtMost(scores, scores[i])
      BY <3>1, <3>2, <1>0, Counts
    <3> QED
      BY <3>2, <3>3, <2>5, <1>1
  <2>7. {i \in D : scores[i] <= v} = D
    BY <2>6
  <2>8. AtMost(scores, v) = Cardinality(D)
    BY <2>7 DEF AtMost
  <2> QED
    BY <2>8
\* The score with the least count that reaches k.
<1>3. PICK v \in T : \A w \in T : AtMost(scores, v) <= AtMost(scores, w)
  <2> DEFINE A == {AtMost(scores, v) : v \in T}
  <2>1. A \subseteq Nat /\ A # {}
    BY <1>1, <1>2
  <2>2. PICK a \in A : \A b \in A : a <= b
    BY <2>1, LeastElement
  <2> QED
    BY <2>2
<1>4. Below(scores, v) < k
  <2>1. SUFFICES ASSUME k <= Below(scores, v) PROVE FALSE
    BY <1>1
  <2> DEFINE L == {w \in S : w < v}
             G == {Cardinality(D) - AtMost(scores, w) : w \in L}
  <2>2. L # {}
    <3>1. {i \in D : scores[i] < v} # {}
      <4>1. Below(scores, v) = Cardinality({i \in D : scores[i] < v})
        BY DEF Below
      <4> QED
        BY <4>1, <2>1, FS_EmptySet
    <3> QED
      BY <3>1 DEF Value
  <2>3. G \subseteq Nat /\ G # {}
    BY <2>2, <1>1, <1>n
  <2>4. PICK g \in G : \A h \in G : g <= h
    BY <2>3, LeastElement
  <2>5. PICK w \in L : g = Cardinality(D) - AtMost(scores, w)
    BY <2>4
  <2>6. \A x \in L : AtMost(scores, x) <= AtMost(scores, w)
    <3>1. SUFFICES ASSUME NEW x \in L PROVE AtMost(scores, x) <= AtMost(scores, w)
      OBVIOUS
    <3>2. Cardinality(D) - AtMost(scores, w) <= Cardinality(D) - AtMost(scores, x)
      BY <2>4, <2>5
    <3> QED
      BY <3>2, <1>1, <1>n
  <2>7. \A i \in D : scores[i] < v => scores[i] <= w
    <3>1. SUFFICES ASSUME NEW i \in D, scores[i] < v, w < scores[i] PROVE FALSE
      BY <1>0
    <3>2. scores[i] \in L
      BY <3>1 DEF Value
    <3>3. AtMost(scores, w) <= Below(scores, scores[i]) /\ Below(scores, scores[i]) < AtMost(scores, scores[i])
      BY <3>1, <3>2, <1>0, Counts
    <3> QED
      BY <3>2, <3>3, <2>6, <1>1
  <2>8. {i \in D : scores[i] < v} = {i \in D : scores[i] <= w}
    BY <2>7, <1>0
  <2>9. Below(scores, v) = AtMost(scores, w)
    BY <2>8 DEF Below, AtMost
  <2>10. w \in T
    BY <2>1, <2>9
  <2>11. Below(scores, v) < AtMost(scores, v)
    BY Counts
  <2> QED
    BY <2>9, <2>10, <2>11, <1>3, <1>1
<1> QED
  BY <1>3, <1>4

\* The guarantee of finite_sample_quantile: unless it refuses the sample, its
\* value is a score of the sample, at least ceil((n + 1) * coverage) scores do
\* not exceed it, fewer lie below it, and so the share of (n + 1) it covers is
\* no less than the nominal coverage.
THEOREM FiniteSampleGuarantee ==
  \A D, millis \in 1..(CoverageScale - 1) :
    IsFiniteSet(D) =>
      \A scores \in [D -> Int] :
        HasQuantile(scores, millis) =>
          LET q == FiniteSampleQuantile(scores, millis) IN
          /\ \E i \in D : q.value = scores[i]
          /\ Below(scores, q.value) < q.rank /\ q.rank <= AtMost(scores, q.value)
          /\ (Cardinality(D) + 1) * millis <= CoverageScale * AtMost(scores, q.value)
<1>1. SUFFICES ASSUME NEW D, NEW millis \in 1..(CoverageScale - 1), IsFiniteSet(D),
                      NEW scores \in [D -> Int], HasQuantile(scores, millis)
               PROVE  LET q == FiniteSampleQuantile(scores, millis) IN
                      /\ \E i \in D : q.value = scores[i]
                      /\ Below(scores, q.value) < q.rank /\ q.rank <= AtMost(scores, q.value)
                      /\ (Cardinality(D) + 1) * millis <= CoverageScale * AtMost(scores, q.value)
  OBVIOUS
<1> DEFINE n == Cardinality(D)
           r == Rank(n, millis)
           v == OrderStatistic(scores, r)
<1>2. n \in Nat /\ SampleSize(scores) = n
  BY <1>1, FS_CardinalityType DEF SampleSize
<1>3. (n + 1) * millis \in Nat /\ (n + 1) * millis >= 1
  BY <1>2 DEF CoverageScale
<1>4. r \in Int /\ r >= 1 /\ (n + 1) * millis <= 1000 * r
  <2>1. PICK x \in Nat : x = (n + 1) * millis /\ x >= 1
    BY <1>3
  <2>2. r = (x + 999) \div 1000
    BY <2>1 DEF Rank, CoverageScale
  <2>3. (x + 999) \div 1000 >= 1 /\ x <= 1000 * ((x + 999) \div 1000)
    BY <2>1, Z3
  <2> QED
    BY <2>1, <2>2, <2>3
<1>5. r \in 1..n
  BY <1>1, <1>2, <1>4 DEF HasQuantile
<1>6. v \in Value(scores) /\ Below(scores, v) < r /\ r <= AtMost(scores, v)
  <2>1. \E u \in Value(scores) : Below(scores, u) < r /\ r <= AtMost(scores, u)
    BY <1>1, <1>5, OrderStatisticExists
  <2> HIDE DEF r
  <2> QED
    BY <2>1 DEF OrderStatistic, Value
<1>7. AtMost(scores, v) \in Nat
  <2>1. v \in Int
    BY <1>6 DEF Value
  <2> QED
    BY <1>1, <2>1, Counts
<1>8. (n + 1) * millis <= CoverageScale * AtMost(scores, v)
  BY <1>3, <1>4, <1>6, <1>7 DEF CoverageScale
<1>9. FiniteSampleQuantile(scores, millis).value = v /\ FiniteSampleQuantile(scores, millis).rank = r
  BY <1>2 DEF FiniteSampleQuantile
<1> QED
  BY <1>6, <1>8, <1>9 DEF Value

-----------------------------------------------------------------------------
(* The inductive invariant.                                                *)

\* Whose uncommitted row keeps the key of a policy.
Pending(r) == regTxn[r] \in {"inserted", "committing", "doomed"}

\* A row that waits is valid, alone and not registered yet.
PendingInv ==
  \A r \in Clients : Pending(r) =>
    /\ asked[r] \in Policies /\ ValidPolicy(asked[r]) /\ EpochRegistered(asked[r])
    /\ ~ Registered(asked[r])
    /\ \A s \in Clients \ {r} : Pending(s) => asked[s] # asked[r]

RegistryInv ==
  /\ PendingInv
  /\ \A r \in Clients : regStep[r] # "start" => asked[r] \in Policies
  /\ \A r \in Clients : regStep[r] \in {"reread", "insert"} => regTxn[r] = "open"
  /\ \A r \in Clients : regStep[r] = "commit" => regTxn[r] = "inserted"
  /\ \A r \in Clients : regReply[r].kind = "ok" =>
       asked[r] \in Policies /\ Registered(asked[r]) /\ regReply[r].by = creator[asked[r]]
  /\ \A q \in Policies : Registered(q) => ValidPolicy(q) /\ EpochRegistered(q)

\* A set, or a release, that its complete source cohorts give.
SetSound(s) ==
  /\ Complete(s.cohort) /\ s.cohort.purpose = "calibration_fit"
  /\ Reproduces(s, s.cohort.members)

Exact(set, heldout, confidence) == Measured(set, heldout, heldout.members, confidence)

ReleaseSound(d) ==
  /\ Complete(d.set.cohort) /\ Complete(d.heldout)
  /\ Reproducible(d.set, d.set.cohort.members, d.heldout, d.heldout.members, d.confidence)
  /\ d = Exact(d.set, d.heldout, d.confidence)

TableInv ==
  /\ \A c \in sealed : Registered(c.policy)
  /\ \A s \in Docs(sets) : SetSound(s)
  /\ \A d \in Docs(releases) : ReleaseSound(d) /\ d.set \in Docs(sets)
  /\ Docs(receipts) \subseteq Docs(releases)

Unprepared  == {"start", "fit", "heldout", "prepare"}
Publishing  == {"set", "release", "content", "content_wait", "content_matches", "receipt",
                "receipt_commit", "receipt_wait", "receipt_visible"}
Proving     == {"proof_fit", "proof_heldout", "reproduce"}

\* What a call has read and made of it.
CallInv(p) ==
  /\ step[p] \in {"heldout", "prepare"} =>
       Complete(SetOf(p).cohort) /\ seen[p].fit = SetOf(p).cohort.members
  /\ step[p] = "prepare" =>
       Complete(request[p].heldout) /\ seen[p].heldout = request[p].heldout.members
  /\ step[p] \in Publishing \cup Proving \cup {"stored"} =>
       release[p] = Exact(SetOf(p), request[p].heldout, request[p].confidence)
  /\ step[p] \in Publishing => ReleaseSound(release[p])
  /\ step[p] \in Proving => release[p] \in Docs(releases) /\ release[p] \in Docs(receipts)
  /\ step[p] \in {"proof_heldout", "reproduce"} => seen[p].fit = SetOf(p).cohort.members
  /\ step[p] = "reproduce" => seen[p].heldout = request[p].heldout.members
  /\ step[p] \in {"receipt", "receipt_commit", "receipt_wait"} => release[p] \in Docs(releases)

\* What a transaction may still commit.
TxnInv(p) ==
  /\ txn[p].state = "none" => txn[p].rows = {}
  /\ step[p] \in Unprepared => txn[p] = NoTxn
  /\ step[p] \in {"set", "release", "content", "receipt_commit"} => txn[p].state = "open"
  /\ step[p] \in {"content_wait", "receipt_wait"} => txn[p].state = "committing"
  /\ step[p] = "set" => txn[p].rows = {}
  /\ step[p] = "release" => txn[p].rows \subseteq {"set"}
  /\ step[p] \in {"release", "content"} => SetOf(p) \in Docs(sets) \/ "set" \in txn[p].rows
  /\ step[p] \in {"content", "content_wait"} =>
       release[p] \in Docs(releases) \/ "release" \in txn[p].rows
  /\ "set" \in txn[p].rows => SetSound(SetOf(p))
  /\ "release" \in txn[p].rows =>
       /\ ReleaseSound(release[p]) /\ release[p].set = SetOf(p)
       /\ SetOf(p) \in Docs(sets) \/ "set" \in txn[p].rows
       /\ "receipt" \notin txn[p].rows
  /\ "receipt" \in txn[p].rows => release[p] \in Docs(releases)

\* Answers, and whose rows are recorded.
AnswerInv(p) ==
  /\ step[p] # "done" => reply[p].kind = "none"
  /\ reply[p].kind \notin {"conflict", "corrupt"}
  /\ step[p] \in Unprepared \cup {"set", "release", "content"} => \A r \in releases : r.by # p
  /\ reply[p].kind = "ok" =>
       /\ release[p] \in Docs(releases) /\ release[p] \in Docs(receipts)
       /\ Registered(release[p].set.cohort.policy)
  /\ reply[p] = [kind |-> "unavailable", stage |-> "content"] =>
       txn[p].state \in {"none", "doomed"} /\ \A r \in releases : r.by # p

IInv ==
  /\ TypeOK /\ DOMAIN release = Clients
  /\ RegistryInv /\ TableInv
  /\ \A p \in Clients : CallInv(p) /\ TxnInv(p) /\ AnswerInv(p)

-----------------------------------------------------------------------------
(* What does not change.                                                   *)

LEMMA SoundStays ==
  ASSUME \A c : Complete(c) => Complete(c)'
  PROVE  /\ \A s : SetSound(s) => SetSound(s)'
         /\ \A d : ReleaseSound(d) => ReleaseSound(d)'
<1>1. \A s : SetSound(s) => SetSound(s)'
  BY DEF SetSound
<1>2. \A d : ReleaseSound(d) => ReleaseSound(d)'
  BY DEF ReleaseSound
<1> QED
  BY <1>1, <1>2

-----------------------------------------------------------------------------
(* The database accepts what the client prepares.                          *)

LEMMA HorizonSizes ==
  ASSUME NEW c \in Cohorts, NEW h
  PROVE  /\ IsFiniteSet(AtHorizon(c.members, h))
         /\ Cardinality(AtHorizon(c.members, h)) \in Nat
         /\ Cardinality(c.members) \in Nat
<1>1. IsFiniteSet(c.members)
  BY EvidenceAssumption
<1>2. AtHorizon(c.members, h) \subseteq c.members
  BY DEF AtHorizon
<1> QED
  BY <1>1, <1>2, FS_Subset, FS_CardinalityType

LEMMA FittedBucket ==
  ASSUME NEW s, Reproduces(s, s.cohort.members), s.cohort \in Cohorts, NEW h \in DOMAIN s.buckets
  PROVE  /\ DOMAIN s.buckets = Horizons(s.cohort.members)
         /\ s.digest = s.cohort.members
         /\ s.buckets[h].sample = Cardinality(AtHorizon(s.cohort.members, h))
         /\ s.buckets[h].rank = Rank(s.buckets[h].sample, Coverage)
<1>1. s = Fitted(s.cohort, s.method, s.cohort.members)
  BY DEF Reproduces
<1>2. s.buckets = [k \in Horizons(s.cohort.members) |->
                     FiniteSampleQuantile(Scores(s.method, s.cohort.members, k), Coverage)]
  BY <1>1 DEF Fitted
<1>3. s.buckets[h] = FiniteSampleQuantile(Scores(s.method, s.cohort.members, h), Coverage)
  BY <1>2
<1>4. SampleSize(Scores(s.method, s.cohort.members, h)) = Cardinality(AtHorizon(s.cohort.members, h))
  BY DEF SampleSize, Scores
<1>5. s.digest = s.cohort.members
  BY <1>1 DEF Fitted
<1> QED
  BY <1>2, <1>3, <1>4, <1>5 DEF FiniteSampleQuantile

LEMMA RankPositive ==
  ASSUME NEW n \in Nat
  PROVE  Rank(n, Coverage) \in Int /\ Rank(n, Coverage) >= 1
<1>1. Coverage \in Nat /\ Coverage >= 1
  BY EvidenceAssumption DEF CoverageScale
<1>2. (n + 1) * Coverage \in Nat /\ (n + 1) * Coverage >= 1
  BY <1>1
<1>3. PICK x \in Nat : x = (n + 1) * Coverage /\ x >= 1
  BY <1>2
<1>4. Rank(n, Coverage) = (x + 999) \div 1000
  BY <1>3 DEF Rank, CoverageScale
<1>5. (x + 999) \div 1000 \in Int /\ (x + 999) \div 1000 >= 1
  BY <1>3, Z3
<1> QED
  BY <1>4, <1>5

\* publish_fitted_calibration_set takes every set that its cohort gives.
LEMMA SoundSetAccepted ==
  ASSUME TypeOK, NEW s, SetSound(s)
  PROVE  SetAccepted(s)
<1>1. s.cohort \in Cohorts /\ Complete(s.cohort) /\ Reproduces(s, s.cohort.members)
  BY DEF TypeOK, SetSound, Complete
<1>2. ASSUME NEW h \in DOMAIN s.buckets
      PROVE  BucketAccepted(s, s.buckets[h])
  <2>1. BucketHolds(s, s.buckets[h])
    BY <1>1 DEF Reproduces, SetWellFormed
  <2>2. s.buckets[h].sample \in Nat /\ Cardinality(s.digest) \in Nat
    BY <1>1, <1>2, FittedBucket, HorizonSizes
  <2>3. /\ s.buckets[h].sample >= 1 /\ s.buckets[h].sample <= Cardinality(s.digest)
        /\ s.buckets[h].rank = Rank(s.buckets[h].sample, Coverage)
        /\ s.buckets[h].rank <= s.buckets[h].sample
        /\ s.method = "empirical_residual" => s.buckets[h].value >= 0
    BY <2>1 DEF BucketHolds, Selected
  <2>4. s.buckets[h].rank = DatabaseRank(s.buckets[h].sample, Coverage)
    BY <2>2, <2>3, RanksAgree, EvidenceAssumption DEF CoverageScale
  <2>5. s.buckets[h].rank \in Int /\ s.buckets[h].rank >= 1
    BY <2>2, <2>3, RankPositive
  <2> QED
    BY <2>2, <2>3, <2>4, <2>5 DEF BucketAccepted
<1>3. FitCohortExact(s)
  <2>1. s.digest = s.cohort.members
    BY <1>1 DEF Reproduces, Fitted
  <2> QED
    BY <1>1, <2>1 DEF FitCohortExact, SetSound
<1>4. SetHorizonsMatch(s)
  <2>1. DOMAIN s.buckets = Horizons(s.cohort.members)
    BY <1>1 DEF Reproduces, Fitted
  <2> QED
    BY <1>1, <2>1, FittedBucket DEF SetHorizonsMatch
<1> QED
  BY <1>2, <1>3, <1>4 DEF SetAccepted

LEMMA MeasuredParts ==
  ASSUME NEW S, NEW d, d = Measured(d.set, d.heldout, S, d.confidence)
  PROVE  /\ d.digest = S
         /\ d.covered = [h \in DOMAIN d.set.buckets |->
              [sample |-> Cardinality(AtHorizon(S, h)),
               hits   |-> Cardinality({m \in AtHorizon(S, h) :
                            Covered(d.set.method, d.set.buckets[h].value, Observation[m])})]]
<1>1. PICK set, heldout, confidence : set = d.set /\ heldout = d.heldout /\ confidence = d.confidence
  OBVIOUS
<1>2. d = Measured(set, heldout, S, confidence)
  BY <1>1
<1>3. /\ d.digest = S
      /\ d.covered = [h \in DOMAIN set.buckets |->
              [sample |-> Cardinality(AtHorizon(S, h)),
               hits   |-> Cardinality({m \in AtHorizon(S, h) :
                            Covered(set.method, set.buckets[h].value, Observation[m])})]]
  BY <1>2 DEF Measured
<1> QED
  BY <1>1, <1>3

\* publish_forecast_heldout_coverage_release takes every release that its
\* cohorts give, once its set is there.
LEMMA SoundReleaseAccepted ==
  ASSUME TypeOK, NEW p \in Clients, ReleaseSound(release[p]), release[p].set = SetOf(p),
         SetOf(p) \in Docs(sets) \/ "set" \in txn[p].rows
  PROVE  ReleaseAccepted(p)
<1> DEFINE d == release[p]
           T == d.heldout.members
<1>1. /\ d.heldout \in Cohorts /\ Complete(d.heldout)
      /\ Reproducible(d.set, d.set.cohort.members, d.heldout, T, d.confidence)
      /\ d = Measured(d.set, d.heldout, T, d.confidence)
  BY DEF TypeOK, ReleaseSound, Complete, Exact
<1>2. /\ d.digest = T /\ DOMAIN d.covered = DOMAIN d.set.buckets
      /\ \A h \in DOMAIN d.covered : d.covered[h].sample = Cardinality(AtHorizon(T, h))
      /\ \A h \in DOMAIN d.covered : d.covered[h].hits \in Nat
  <2> HIDE DEF d, T
  <2>0. d = Measured(d.set, d.heldout, T, d.confidence)
    BY <1>1
  <2>1. d.digest = T
    BY <2>0, MeasuredParts
  <2>2. d.covered = [h \in DOMAIN d.set.buckets |->
          [sample |-> Cardinality(AtHorizon(T, h)),
           hits   |-> Cardinality({m \in AtHorizon(T, h) :
                        Covered(d.set.method, d.set.buckets[h].value, Observation[m])})]]
    BY <2>0, MeasuredParts
  <2>3. ASSUME NEW h
        PROVE  Cardinality({m \in AtHorizon(T, h) :
                 Covered(d.set.method, d.set.buckets[h].value, Observation[m])}) \in Nat
    BY <1>1, HorizonSizes, FS_Subset, FS_CardinalityType DEF T
  <2> QED
    BY <2>1, <2>2, <2>3
<1>3. ReleaseWellFormed(d)
  BY <1>1 DEF Reproducible
<1>4. ASSUME NEW h \in DOMAIN d.covered PROVE CountsAccepted(d.covered[h])
  <2>1. CountsHold(d.covered[h], Cardinality(d.digest))
    BY <1>3, <1>4 DEF ReleaseWellFormed
  <2>2. d.covered[h].hits \in Nat /\ d.covered[h].sample \in Nat
    BY <1>1, <1>2, <1>4, HorizonSizes
  <2> QED
    BY <2>1, <2>2 DEF CountsHold, CountsAccepted
<1>5. Disjoint(d.set.cohort.members, T) /\ SameEpoch(d.set.cohort, d.heldout)
      /\ Horizons(T) = DOMAIN d.set.buckets /\ d.heldout.purpose = "heldout_evaluation"
  BY <1>1 DEF Reproducible, Compatible
<1>6. SetStored(p)
  BY <1>2 DEF SetStored
<1>7. HeldoutExact(d) /\ HeldoutHorizonsMatch(d) /\ SeparateEvidence(d)
  BY <1>1, <1>2, <1>5 DEF HeldoutExact, HeldoutHorizonsMatch, SeparateEvidence
<1> QED
  BY <1>4, <1>6, <1>7 DEF ReleaseAccepted

-----------------------------------------------------------------------------
(* The registry.                                                           *)

LEMMA RegistryStarts ==
  RegistryInit => RegistryTypeOK /\ RegistryInv
<1> SUFFICES ASSUME RegistryInit PROVE RegistryTypeOK /\ RegistryInv
  OBVIOUS
<1>1. PICK S \in Founded : creator = [q \in Policies |-> IF q \in S THEN Earlier ELSE NoOne]
  BY DEF RegistryInit
<1>2. creator \in [Policies -> Creators]
  BY <1>1 DEF Creators
<1>3. RegistryTypeOK
  BY <1>2, RegistryAssumption
     DEF RegistryInit, RegistryTypeOK, RegSteps, TxnStates, RegKinds, Creators
<1>4. RegistryInv
  BY DEF RegistryInit, RegistryInv, PendingInv, Pending
<1> QED
  BY <1>3, <1>4

\* Only a commit registers, and only a policy that nobody has registered yet.
LEMMA RegistryGrows ==
  ASSUME RegistryTypeOK, RegistryInv, NEW r \in Clients, RegistryStep(r)
  PROVE  /\ asked' = asked
         /\ \A q \in Policies : Registered(q) => creator'[q] = creator[q]
         /\ \A q \in Policies : ~ Registered(q) /\ Registered(q)' =>
              /\ q = asked[r] /\ creator'[q] = r /\ regTxn[r] = "committing"
              /\ ValidPolicy(q) /\ EpochRegistered(q)
<1>1. CASE RegServerCommit(r)
  <2>1. Pending(r)
    BY <1>1 DEF RegServerCommit, Pending
  <2>2. /\ asked[r] \in Policies /\ ValidPolicy(asked[r]) /\ EpochRegistered(asked[r])
        /\ ~ Registered(asked[r])
    BY <2>1 DEF RegistryInv, PendingInv
  <2>3. asked' = asked /\ creator' = [creator EXCEPT ![asked[r]] = r] /\ regTxn[r] = "committing"
    BY <1>1 DEF RegServerCommit
  <2> QED
    BY <2>2, <2>3 DEF RegistryTypeOK, Registered
<1>2. CASE ~ RegServerCommit(r)
  <2>1. creator' = creator /\ asked' = asked
    BY <1>2 DEF RegistryStep, RegClientStep, Register, RegisterDirectly, Preflight, Reread,
         InsertPolicy, CommitPolicy, Reconcile, RegDatabaseError, RegOutcomeUnknown,
         ReconcileFails, RegCrash, RegServerAbort
  <2> QED
    BY <2>1 DEF Registered
<1> QED
  BY <1>1, <1>2

\* What a step may do to the client's own side: an answer "ok" is a
\* registration found, and a row that waits has been inserted after looking.
LEMMA RegistryStepLocal ==
  ASSUME RegistryTypeOK, RegistryInv, NEW r \in Clients, RegistryStep(r)
  PROVE  /\ RegistryTypeOK'
         /\ \A s \in Clients \ {r} : regStep'[s] = regStep[s] /\ regTxn'[s] = regTxn[s]
                                     /\ regReply'[s] = regReply[s]
         /\ asked[r] \in Policies
         /\ regStep'[r] \in {"reread", "insert"} => regTxn'[r] = "open"
         /\ regStep'[r] = "commit" => regTxn'[r] = "inserted"
         /\ regReply'[r] # regReply[r] /\ regReply'[r].kind = "ok" =>
              Registered(asked[r]) /\ regReply'[r].by = creator[asked[r]]
         /\ Pending(r)' => Pending(r) \/ (regStep[r] = "insert" /\ InsertPolicy(r))
         /\ regTxn[r] = "committing" /\ Pending(r)' => creator' = creator
<1>a. ASSUME NEW k \in RegKinds, NEW b \in Creators, RegReply(r, k, b)
      PROVE  /\ regReply' \in [Clients -> [kind: RegKinds, by: Creators]]
             /\ regReply'[r].kind = k /\ regReply'[r].by = b
             /\ \A s \in Clients \ {r} : regReply'[s] = regReply[s] /\ regStep'[s] = regStep[s]
             /\ regStep' \in [Clients -> RegSteps] /\ regStep'[r] = "done"
  <2>1. [kind |-> k, by |-> b] \in [kind: RegKinds, by: Creators]
    BY <1>a
  <2>2. regReply \in [Clients -> [kind: RegKinds, by: Creators]] /\ regStep \in [Clients -> RegSteps]
    BY DEF RegistryTypeOK
  <2>3. regReply' = [regReply EXCEPT ![r] = [kind |-> k, by |-> b]]
    BY <1>a DEF RegReply
  <2>4. regStep' = [regStep EXCEPT ![r] = "done"]
    BY <1>a DEF RegReply, RegGoto
  <2>5. regReply' \in [Clients -> [kind: RegKinds, by: Creators]] /\ regReply'[r] = [kind |-> k, by |-> b]
    BY <2>1, <2>2, <2>3
  <2>6. \A s \in Clients \ {r} : regReply'[s] = regReply[s] /\ regStep'[s] = regStep[s]
    BY <2>2, <2>3, <2>4
  <2>7. regStep' \in [Clients -> RegSteps] /\ regStep'[r] = "done"
    BY <2>2, <2>4 DEF RegSteps
  <2> QED
    BY <2>5, <2>6, <2>7
<1> USE DEF RegistryTypeOK, RegistryInv, RegSteps, TxnStates, RegKinds, RegGoto, Pending
<1>1. NoOne \in Creators /\ \A q \in Policies : creator[q] \in Creators
  BY DEF Creators
<1>2. CASE Register(r)
  <2>1. asked[r] \in Policies /\ creator' = creator /\ asked' = asked /\ regTxn' = regTxn /\ faults' = faults
    BY <1>2 DEF Register
  <2>2. CASE ValidPolicy(asked[r])
    BY <1>2, <2>1, <2>2 DEF Register
  <2>3. CASE ~ ValidPolicy(asked[r])
    <3>1. RegReply(r, "invalid", NoOne)
      BY <1>2, <2>3 DEF Register
    <3> QED
      BY <1>1, <1>a, <2>1, <3>1
  <2> QED
    BY <2>2, <2>3
<1>3. CASE RegisterDirectly(r)
  BY <1>1, <1>3 DEF RegisterDirectly
<1>4. CASE Preflight(r)
  BY <1>1, <1>a, <1>4 DEF Preflight, Found
<1>5. CASE Reread(r)
  <2>1. regTxn[r] = "open" /\ asked[r] \in Policies
    BY <1>5 DEF Reread
  <2>2. CASE Registered(asked[r])
    <3>1. /\ RegReply(r, "ok", creator[asked[r]])
          /\ regTxn' = [regTxn EXCEPT ![r] = "none"]
          /\ creator' = creator /\ asked' = asked /\ faults' = faults
      BY <1>5, <2>2 DEF Reread, Found
    <3>2. /\ regReply'[r].kind = "ok" /\ regReply'[r].by = creator[asked[r]]
          /\ regStep'[r] = "done"
      BY <1>1, <1>a, <2>1, <3>1
    <3> QED
      BY <1>1, <1>a, <2>1, <2>2, <3>1, <3>2
  <2>3. CASE ~ Registered(asked[r])
    BY <1>5, <2>1, <2>3 DEF Reread
  <2> QED
    BY <2>2, <2>3
<1>6. CASE InsertPolicy(r)
  <2>1. regTxn[r] = "open" /\ asked[r] \in Policies
    BY <1>6 DEF InsertPolicy
  <2>2. creator' = creator /\ asked' = asked /\ faults' = faults
    BY <1>6 DEF InsertPolicy
  <2>3. CASE ~ ValidPolicy(asked[r]) \/ ~ EpochRegistered(asked[r])
    BY <1>1, <1>a, <1>6, <2>1, <2>2, <2>3 DEF InsertPolicy, RegFail, RegDoomed
  <2>4. CASE ~ (~ ValidPolicy(asked[r]) \/ ~ EpochRegistered(asked[r]))
    BY <1>6, <2>1, <2>2, <2>4, ZenonT(60) DEF InsertPolicy, RegDoomed
  <2> QED
    BY <2>3, <2>4
<1>7. CASE CommitPolicy(r)
  BY <1>1, <1>7 DEF CommitPolicy
<1>8. CASE Reconcile(r)
  <2>1. asked[r] \in Policies
    BY <1>8 DEF Reconcile
  <2>2. CASE Registered(asked[r])
    BY <1>1, <1>a, <1>8, <2>1, <2>2 DEF Reconcile, Found
  <2>3. CASE ~ Registered(asked[r])
    BY <1>1, <1>a, <1>8, <2>1, <2>3 DEF Reconcile, AbsentKind
  <2> QED
    BY <2>2, <2>3
<1>9. CASE RegDatabaseError(r)
  <2>1. /\ asked[r] \in Policies /\ creator' = creator /\ asked' = asked
        /\ faults' \in 0..MaxFaults
    BY <1>9, RegistryAssumption DEF RegDatabaseError, Fault
  <2>2. regTxn' \in [Clients -> TxnStates] /\ regTxn' = RegDoomed(r)
    BY <1>9 DEF RegDatabaseError, RegFail, RegDoomed
  <2> QED
    BY <1>1, <1>a, <1>9, <2>1, <2>2 DEF RegDatabaseError, RegFail, RegDoomed
<1>10. CASE RegOutcomeUnknown(r)
  BY <1>1, <1>10, RegistryAssumption DEF RegOutcomeUnknown, Fault, RegDoomed
<1>11. CASE ReconcileFails(r)
  BY <1>1, <1>a, <1>11, RegistryAssumption DEF ReconcileFails, Fault, AbsentKind
<1>12. CASE RegCrash(r)
  BY <1>1, <1>a, <1>12, RegistryAssumption DEF RegCrash, Fault, RegFail, RegDoomed
<1>13. CASE RegServerCommit(r)
  <2>1. r \in Creators /\ asked[r] \in Policies
    BY <1>13 DEF Creators, PendingInv, RegServerCommit
  <2> QED
    BY <1>1, <2>1, <1>13 DEF RegServerCommit
<1>14. CASE RegServerAbort(r)
  <2>1. asked[r] \in Policies
    BY <1>14 DEF PendingInv, RegServerAbort
  <2> QED
    BY <1>1, <1>a, <2>1, <1>14, RegistryAssumption DEF RegServerAbort, Fault
<1> QED
  BY <1>2, <1>3, <1>4, <1>5, <1>6, <1>7, <1>8, <1>9, <1>10, <1>11, <1>12, <1>13, <1>14
     DEF RegistryStep, RegClientStep

LEMMA RegistryPreserved ==
  ASSUME RegistryTypeOK, RegistryInv, NEW r \in Clients, RegistryStep(r)
  PROVE  RegistryTypeOK' /\ RegistryInv'
<1>1. /\ asked' = asked
      /\ \A q \in Policies : Registered(q) => creator'[q] = creator[q] /\ Registered(q)'
      /\ \A q \in Policies : ~ Registered(q) /\ Registered(q)' =>
           /\ q = asked[r] /\ creator'[q] = r /\ regTxn[r] = "committing"
           /\ ValidPolicy(q) /\ EpochRegistered(q)
  BY RegistryGrows DEF Registered
<1>2. \A q \in Policies : EpochRegistered(q) => EpochRegistered(q)'
  BY <1>1, RegistryAssumption DEF EpochRegistered, Policies
<1>3. \A s \in Clients : asked[s] \in Policies \cup {NoPolicy}
  BY DEF RegistryTypeOK
<1>4. PendingInv'
  <2> SUFFICES ASSUME NEW s \in Clients, Pending(s)', NEW q, q = asked[s]
               PROVE  /\ q \in Policies /\ ValidPolicy(q) /\ EpochRegistered(q)' /\ ~ Registered(q)'
                      /\ \A t \in Clients \ {s} : Pending(t)' => asked[t] # q
    BY <1>1 DEF PendingInv, EpochRegistered, Registered, ValidPolicy, WindowsOrdered,
                StudySupported, EpochBounded
  <2>1. \A t \in Clients \ {r} : Pending(t)' => Pending(t)
    BY RegistryStepLocal DEF Pending
  <2>2. \A t \in Clients : Pending(t) => ~ Registered(asked[t]) /\ asked[t] \in Policies
                             /\ ValidPolicy(asked[t]) /\ EpochRegistered(asked[t])
    BY DEF RegistryInv, PendingInv
  <2>3. \A t \in Clients, u \in Clients : Pending(t) /\ Pending(u) /\ t # u => asked[t] # asked[u]
    BY DEF RegistryInv, PendingInv
  <2>4. CASE Pending(r)' => Pending(r)
    <3>1. Pending(s) /\ \A t \in Clients : Pending(t)' => Pending(t)
      BY <2>1, <2>4
    <3>2. q \in Policies /\ ValidPolicy(q) /\ EpochRegistered(q) /\ ~ Registered(q)
      BY <3>1, <2>2
    <3>3. ~ Registered(q)'
      <4>1. SUFFICES ASSUME Registered(q)' PROVE FALSE
        OBVIOUS
      <4>2. q = asked[r] /\ regTxn[r] = "committing"
        BY <4>1, <3>2, <1>1
      <4>3. Pending(r)
        BY <4>2 DEF Pending
      <4>4. s = r
        BY <4>2, <4>3, <3>1, <2>3
      <4>5. creator' = creator
        BY <4>2, <4>4, RegistryStepLocal
      <4> QED
        BY <4>5, <4>1, <3>2 DEF Registered
    <3>4. \A t \in Clients \ {s} : Pending(t)' => asked[t] # q
      BY <3>1, <2>3
    <3> QED
      BY <3>2, <3>3, <3>4, <1>2
  <2>5. CASE Pending(r)' /\ ~ Pending(r)
    <3>1. regStep[r] = "insert" /\ InsertPolicy(r) /\ asked[r] \in Policies
      BY <2>5, RegistryStepLocal
    <3>2. regTxn[r] = "open"
      BY <3>1 DEF RegistryInv
    <3>3. regTxn'[r] # "open" /\ regTxn'[r] # "none"
      BY <2>5 DEF Pending
    <3>4. /\ ValidPolicy(asked[r]) /\ EpochRegistered(asked[r]) /\ Ahead(r) = {}
          /\ ~ Registered(asked[r]) /\ creator' = creator
      BY <3>1, <3>2, <3>3 DEF InsertPolicy, RegFail, RegDoomed, RegistryTypeOK
    <3>5. \A t \in Clients \ {r} : Pending(t)' => asked[t] # asked[r]
      BY <3>4, <2>1 DEF Ahead, Pending
    <3>6. q \in Policies /\ ValidPolicy(q) /\ EpochRegistered(q) /\ ~ Registered(q)
      BY <3>1, <3>4, <2>1, <2>2
    <3>7. ~ Registered(q)'
      BY <3>4, <3>6 DEF Registered
    <3>8. \A t \in Clients \ {s} : Pending(t)' => asked[t] # q
      BY <3>5, <2>1, <2>3
    <3> QED
      BY <3>6, <3>7, <3>8, <1>2
  <2> QED
    BY <2>4, <2>5
<1>5. \A s \in Clients : regReply'[s].kind = "ok" =>
        asked[s] \in Policies /\ Registered(asked[s]) /\ regReply'[s].by = creator[asked[s]]
  BY RegistryStepLocal DEF RegistryInv
<1> QED
  BY <1>1, <1>2, <1>4, <1>5, RegistryStepLocal DEF RegistryInv

-----------------------------------------------------------------------------
(* Evidence: what a step leaves alone.                                     *)

Own(p) == CallInv(p) /\ TxnInv(p) /\ AnswerInv(p)

\* A call that a step does not touch keeps what it knows: cohorts stay
\* complete, records stay, and the rows that others record are not its own.
LEMMA Frame ==
  ASSUME IInv, NEW q \in Clients,
         step'[q] = step[q], seen'[q] = seen[q], release'[q] = release[q],
         txn'[q] = txn[q], reply'[q] = reply[q], request' = request,
         \A c : Complete(c) => Complete(c)',
         \A x \in Policies : Registered(x) => Registered(x)',
         sets \subseteq sets', releases \subseteq releases', receipts \subseteq receipts',
         \A r \in releases' \ releases : r.by # q
  PROVE  Own(q)'
<1>1. /\ \A x : x \in Docs(sets) => x \in Docs(sets)'
      /\ \A x : x \in Docs(releases) => x \in Docs(releases)'
      /\ \A x : x \in Docs(receipts) => x \in Docs(receipts)'
  BY DEF Docs
<1>2. CallInv(q) /\ TxnInv(q) /\ AnswerInv(q)
  BY DEF IInv
<1>3. CallInv(q)'
  BY <1>1, <1>2 DEF CallInv, SetOf, Complete, ReleaseSound
<1>4. TxnInv(q)'
  BY <1>1, <1>2 DEF TxnInv, SetOf, Complete, ReleaseSound, SetSound
<1>5. AnswerInv(q)'
  <2>1. reply[q].kind = "ok" => release[q].set.cohort.policy \in Policies
    BY <1>2, EvidenceAssumption
       DEF AnswerInv, IInv, TableInv, ReleaseSound, Complete, TypeOK, Policies
  <2> QED
    BY <1>1, <1>2, <2>1 DEF AnswerInv, Registered
<1> QED
  BY <1>3, <1>4, <1>5 DEF Own

\* The other calls in a step of p.
Local(p) ==
  \A q \in Clients \ {p} :
    /\ step'[q] = step[q] /\ seen'[q] = seen[q] /\ release'[q] = release[q]
    /\ txn'[q] = txn[q] /\ reply'[q] = reply[q]

\* A step of the call p that records nothing.
LEMMA ClientKeeps ==
  ASSUME IInv, NEW p \in Clients, Local(p),
         UNCHANGED <<evidence, tables, request, registry>>,
         TypeOK', DOMAIN release' = Clients, Own(p)'
  PROVE  IInv'
<1> USE DEF evidence, tables, registry, registration
<1>1. RegistryInv'
  BY DEF IInv, RegistryInv, PendingInv, Pending, ValidPolicy, EpochRegistered, Registered
<1>2. TableInv'
  BY DEF IInv, TableInv, SetSound, ReleaseSound, Complete, Registered
<1>3. ASSUME NEW q \in Clients PROVE Own(q)'
  <2>1. CASE q = p
    BY <2>1
  <2>2. CASE q # p
    BY <2>2, Frame DEF Local, Complete, Registered
  <2> QED
    BY <2>1, <2>2
<1> QED
  BY <1>1, <1>2, <1>3 DEF IInv, Own

-----------------------------------------------------------------------------
(* Evidence: a call that is answered.                                      *)

LEMMA DoomedTxn ==
  ASSUME TypeOK, NEW p \in Clients, txn' = txn \/ txn' = Doomed(p), TxnInv(p)
  PROVE  /\ txn' \in [Clients -> [state: TxnStates, rows: SUBSET {"set", "release", "receipt"}]]
         /\ \A q \in Clients \ {p} : txn'[q] = txn[q]
         /\ txn'[p].rows = txn[p].rows
         /\ txn'[p].state = "none" => txn'[p].rows = {}
         /\ txn'[p].state \in {"none", "doomed"} \/ txn'[p].state = txn[p].state
         /\ txn' = Doomed(p) => txn'[p].state # "open"
BY DEF TypeOK, Doomed, NoTxn, TxnInv, TxnStates

LEMMA AnswerKeeps ==
  ASSUME IInv, NEW p \in Clients, NEW kind \in Kinds \ {"conflict", "corrupt"}, Answer(p, kind),
         UNCHANGED <<evidence, tables, request, seen, release, registry>>, faults' \in 0..MaxFaults,
         txn' = txn \/ txn' = Doomed(p),
         kind = "ok" => /\ release[p] \in Docs(releases) /\ release[p] \in Docs(receipts)
                        /\ Registered(release[p].set.cohort.policy),
         kind = "unavailable" => /\ txn' = Doomed(p)
                                 /\ step[p] \notin {"content_wait", "content_matches"}
  PROVE  IInv'
<1> USE DEF evidence, tables, registry, registration
<1>1. CallInv(p) /\ TxnInv(p) /\ AnswerInv(p) /\ TypeOK
  BY DEF IInv
<1>2. /\ step' = [step EXCEPT ![p] = "done"]
      /\ reply' = [reply EXCEPT ![p] = [kind |-> kind, stage |-> Stage(p)]]
  BY DEF Answer, Goto
<1>3. Stage(p) \in {"none", "content", "receipt", "proof"}
  BY DEF Stage
<1>4. TypeOK'
  <2>1. RegistryTypeOK'
    BY <1>1 DEF TypeOK, RegistryTypeOK
  <2>2. step' \in [Clients -> Steps]
    BY <1>1, <1>2 DEF TypeOK, Steps
  <2>3. reply' \in [Clients -> [kind: Kinds, stage: {"none", "content", "receipt", "proof"}]]
    BY <1>1, <1>2, <1>3 DEF TypeOK
  <2>4. txn' \in [Clients -> [state: TxnStates, rows: SUBSET {"set", "release", "receipt"}]]
    BY <1>1, DoomedTxn
  <2> QED
    BY <1>1, <2>1, <2>2, <2>3, <2>4 DEF TypeOK
<1>5. Local(p)
  BY <1>1, <1>2, DoomedTxn DEF Local, TypeOK
<1>6. step'[p] = "done" /\ reply'[p] = [kind |-> kind, stage |-> Stage(p)]
  BY <1>1, <1>2 DEF TypeOK
<1>7. CallInv(p)'
  BY <1>6 DEF CallInv, Publishing, Proving
<1>8. TxnInv(p)'
  <2>1. /\ txn'[p].rows = txn[p].rows
        /\ txn'[p].state = "none" => txn'[p].rows = {}
    BY <1>1, DoomedTxn
  <2> QED
    BY <1>1, <1>6, <2>1 DEF TxnInv, Unprepared, SetSound, ReleaseSound, Complete, SetOf
<1>9. AnswerInv(p)'
  <2>1. reply'[p].kind = kind /\ reply'[p].stage = Stage(p)
    BY <1>6
  <2>2. kind = "ok" => /\ release'[p] \in Docs(releases)' /\ release'[p] \in Docs(receipts)'
                       /\ Registered(release[p].set.cohort.policy)'
    BY DEF Registered
  <2>3. ASSUME kind = "unavailable", Stage(p) = "content"
        PROVE  txn'[p].state \in {"none", "doomed"} /\ \A r \in releases' : r.by # p
    <3>1. step[p] \in {"set", "release", "content"}
      BY <2>3 DEF Stage
    <3>2. txn[p].state = "open" /\ \A r \in releases : r.by # p
      BY <1>1, <3>1 DEF TxnInv, AnswerInv
    <3> QED
      BY <1>1, <2>3, <3>2, DoomedTxn
  <2> QED
    BY <1>6, <2>1, <2>2, <2>3 DEF AnswerInv, Unprepared
<1> QED
  BY <1>4, <1>5, <1>7, <1>8, <1>9, ClientKeeps DEF Own, IInv

-----------------------------------------------------------------------------
(* Evidence: what TypeOK and the call's own invariant say at hand.         *)

LEMMA Typed ==
  ASSUME IInv, NEW p \in Clients
  PROVE  /\ TypeOK /\ CallInv(p) /\ TxnInv(p) /\ AnswerInv(p) /\ TableInv
         /\ step \in [Clients -> Steps] /\ DOMAIN release = Clients
         /\ txn \in [Clients -> [state: TxnStates, rows: SUBSET {"set", "release", "receipt"}]]
         /\ faults \in 0..MaxFaults /\ (Fault => faults' \in 0..MaxFaults)
BY RegistryAssumption DEF IInv, TypeOK, RegistryTypeOK, Fault

\* A step that moves the call and its transaction on, without an answer.
LEMMA MoveKeeps ==
  ASSUME IInv, NEW p \in Clients, NEW s \in Steps, Goto(p, s),
         UNCHANGED <<evidence, tables, request, seen, release, reply, registry>>,
         faults' \in 0..MaxFaults,
         txn' \in [Clients -> [state: TxnStates, rows: SUBSET {"set", "release", "receipt"}]],
         \A q \in Clients \ {p} : txn'[q] = txn[q],
         CallInv(p)', TxnInv(p)', AnswerInv(p)'
  PROVE  IInv'
<1> USE DEF evidence, tables, registry, registration
<1>1. TypeOK' /\ Local(p)
  BY Typed DEF TypeOK, RegistryTypeOK, Local, Goto
<1> QED
  BY <1>1, ClientKeeps DEF Own, IInv

LEMMA BeginKeeps ==
  ASSUME IInv, NEW p \in Clients, Begin(p)
  PROVE  IInv'
<1> USE DEF evidence, tables, registry, registration
<1>1. /\ step[p] = "start" /\ Goto(p, "fit") /\ step'[p] = "fit"
      /\ UNCHANGED <<evidence, tables, request, seen, release, reply, txn, registry, faults>>
  BY Typed DEF Begin, Goto
<1>2. CallInv(p)' /\ TxnInv(p)' /\ AnswerInv(p)'
  BY <1>1, Typed DEF CallInv, TxnInv, AnswerInv, Unprepared, Publishing, Proving,
       SetSound, ReleaseSound, Complete, SetOf, Registered
<1> QED
  BY <1>1, <1>2, Typed, MoveKeeps DEF Steps

LEMMA SendCommitKeeps ==
  ASSUME IInv, NEW p \in Clients, SendCommit(p)
  PROVE  IInv'
<1> USE DEF evidence, tables, registry, registration
<1>1. /\ UNCHANGED <<evidence, tables, request, seen, release, reply, registry, faults>>
      /\ txn' = [txn EXCEPT ![p].state = "committing"]
      /\ step[p] \in {"content", "receipt_commit"}
  BY DEF SendCommit
<1>2. txn'[p].state = "committing" /\ txn'[p].rows = txn[p].rows
      /\ txn' \in [Clients -> [state: TxnStates, rows: SUBSET {"set", "release", "receipt"}]]
      /\ \A q \in Clients \ {p} : txn'[q] = txn[q]
  BY <1>1, Typed DEF TxnStates
<1>3. PICK s \in {"content_wait", "receipt_wait"} :
        Goto(p, s) /\ (s = "content_wait" <=> step[p] = "content")
  BY <1>1 DEF SendCommit
<1>4. step'[p] = s
  BY <1>3, Typed DEF Goto
<1>5. CallInv(p)'
  BY <1>1, <1>3, <1>4, Typed DEF CallInv, Publishing, Proving, ReleaseSound, Complete, SetOf
<1>6. TxnInv(p)'
  BY <1>1, <1>2, <1>3, <1>4, Typed DEF TxnInv, Unprepared, ReleaseSound, SetSound, Complete, SetOf
<1>7. AnswerInv(p)'
  BY <1>1, <1>3, <1>4, Typed DEF AnswerInv, Unprepared
<1> QED
  BY <1>1, <1>2, <1>3, <1>5, <1>6, <1>7, Typed, MoveKeeps DEF Steps

LEMMA ContentMatchesKeeps ==
  ASSUME IInv, NEW p \in Clients, ContentMatches(p)
  PROVE  IInv'
<1> USE DEF evidence, tables, registry, registration
<1>1. /\ step[p] = "content_matches"
      /\ UNCHANGED <<evidence, tables, request, seen, release, txn, registry, faults>>
  BY DEF ContentMatches
<1>2. CASE release[p] \in Docs(releases)
  <2>1. Goto(p, "receipt") /\ reply' = reply /\ step'[p] = "receipt"
    BY <1>2, Typed DEF ContentMatches, Goto
  <2>2. CallInv(p)'
    BY <1>1, <1>2, <2>1, Typed DEF CallInv, Publishing, Proving, ReleaseSound, Complete, SetOf
  <2>3. TxnInv(p)'
    BY <1>1, <2>1, Typed DEF TxnInv, Unprepared, ReleaseSound, SetSound, Complete, SetOf
  <2>4. AnswerInv(p)'
    BY <1>1, <2>1, Typed DEF AnswerInv, Unprepared
  <2> QED
    BY <1>1, <2>1, <2>2, <2>3, <2>4, Typed, MoveKeeps DEF Steps
<1>3. CASE release[p] \notin Docs(releases)
  <2>1. Answer(p, "unknown")
    BY <1>3 DEF ContentMatches
  <2> QED
    BY <1>1, <2>1, Typed, AnswerKeeps DEF Kinds
<1> QED
  BY <1>2, <1>3

LEMMA ReceiptVisibleKeeps ==
  ASSUME IInv, NEW p \in Clients, ReceiptVisible(p)
  PROVE  IInv'
<1> USE DEF evidence, tables, registry, registration
<1>1. /\ step[p] = "receipt_visible"
      /\ UNCHANGED <<evidence, tables, request, seen, release, txn, registry, faults>>
  BY DEF ReceiptVisible
<1>2. CASE release[p] \in Docs(receipts)
  <2>1. Goto(p, "stored") /\ reply' = reply /\ step'[p] = "stored"
    BY <1>2, Typed DEF ReceiptVisible, Goto
  <2>2. CallInv(p)'
    BY <1>1, <2>1, Typed DEF CallInv, Publishing, Proving, ReleaseSound, Complete, SetOf
  <2>3. TxnInv(p)'
    BY <1>1, <2>1, Typed DEF TxnInv, Unprepared, ReleaseSound, SetSound, Complete, SetOf
  <2>4. AnswerInv(p)'
    BY <1>1, <2>1, Typed DEF AnswerInv, Unprepared
  <2> QED
    BY <1>1, <2>1, <2>2, <2>3, <2>4, Typed, MoveKeeps DEF Steps
<1>3. CASE release[p] \notin Docs(receipts)
  <2>1. Answer(p, "unknown")
    BY <1>3 DEF ReceiptVisible
  <2> QED
    BY <1>1, <2>1, Typed, AnswerKeeps DEF Kinds
<1> QED
  BY <1>2, <1>3

LEMMA ReadStoredKeeps ==
  ASSUME IInv, NEW p \in Clients, ReadStored(p)
  PROVE  IInv'
<1> USE DEF evidence, tables, registry, registration
<1>1. /\ step[p] = "stored"
      /\ UNCHANGED <<evidence, tables, request, seen, release, txn, registry, faults>>
  BY DEF ReadStored
<1>2. CASE release[p] \in Docs(releases) /\ release[p] \in Docs(receipts)
  <2>1. Goto(p, "proof_fit") /\ reply' = reply /\ step'[p] = "proof_fit"
    BY <1>2, Typed DEF ReadStored, Goto
  <2>2. CallInv(p)'
    BY <1>1, <1>2, <2>1, Typed DEF CallInv, Publishing, Proving, ReleaseSound, Complete, SetOf
  <2>3. TxnInv(p)'
    BY <1>1, <2>1, Typed DEF TxnInv, Unprepared, ReleaseSound, SetSound, Complete, SetOf
  <2>4. AnswerInv(p)'
    BY <1>1, <2>1, Typed DEF AnswerInv, Unprepared
  <2> QED
    BY <1>1, <2>1, <2>2, <2>3, <2>4, Typed, MoveKeeps DEF Steps
<1>3. CASE ~ (release[p] \in Docs(releases) /\ release[p] \in Docs(receipts))
  <2>1. PICK kind \in {"missing", "incomplete"} : Answer(p, kind)
    BY <1>3 DEF ReadStored
  <2> QED
    BY <1>1, <2>1, Typed, AnswerKeeps DEF Kinds
<1> QED
  BY <1>2, <1>3

-----------------------------------------------------------------------------
(* Evidence: reading the cohorts.                                          *)

\* What a stored release says of its cohorts.
LEMMA StoredIsSound ==
  ASSUME IInv, NEW p \in Clients, step[p] \in Proving
  PROVE  /\ Complete(SetOf(p).cohort) /\ Complete(request[p].heldout)
         /\ Reproducible(SetOf(p), SetOf(p).cohort.members, request[p].heldout,
                         request[p].heldout.members, request[p].confidence)
         /\ release[p] = Exact(SetOf(p), request[p].heldout, request[p].confidence)
<1>1. ReleaseSound(release[p]) /\ release[p] = Exact(SetOf(p), request[p].heldout, request[p].confidence)
  BY Typed DEF CallInv, TableInv, Publishing
<1>2. /\ release[p].set = SetOf(p) /\ release[p].heldout = request[p].heldout
      /\ release[p].confidence = request[p].confidence
  <2>1. release[p] = Measured(SetOf(p), request[p].heldout, request[p].heldout.members, request[p].confidence)
    BY <1>1 DEF Exact
  <2> QED
    BY <2>1 DEF Measured
<1> QED
  BY <1>1, <1>2 DEF ReleaseSound

LEMMA ReloadKeeps ==
  ASSUME IInv, NEW p \in Clients, Reload(p)
  PROVE  IInv'
<1> USE DEF evidence, tables, registry, registration
<1>1. /\ step[p] \in {"fit", "heldout", "proof_fit", "proof_heldout"}
      /\ UNCHANGED <<evidence, tables, request, release, txn, registry, faults>>
  BY DEF Reload
<1>2. Source(p) = IF step[p] \in {"fit", "proof_fit"} THEN SetOf(p).cohort ELSE request[p].heldout
  BY DEF Source
<1>3. CASE ReadKind(Source(p)) = "ok"
  <2>1. Complete(Source(p)) /\ Joined(Source(p)) = Source(p).members
    BY <1>3 DEF ReadKind, Complete, Joined
  <2>2. Goto(p, AfterReload(p)) /\ seen' = Loaded(p) /\ reply' = reply
    BY <1>3 DEF Reload
  <2>3. /\ step[p] = "fit" => step'[p] = "heldout"
        /\ step[p] = "heldout" => step'[p] = "prepare"
        /\ step[p] = "proof_fit" => step'[p] = "proof_heldout"
        /\ step[p] = "proof_heldout" => step'[p] = "reproduce"
        /\ step' \in [Clients -> Steps]
        /\ \A q \in Clients \ {p} : step'[q] = step[q]
    BY <1>1, <2>2, Typed DEF Goto, AfterReload, Steps
  <2>4. Source(p).members \subseteq Members
    BY <2>1, Typed DEF Complete, TypeOK, Members
  <2>5. seen \in [Clients -> [fit: SUBSET Members, heldout: SUBSET Members]]
    BY Typed DEF TypeOK
  <2>6. /\ step[p] \in {"fit", "proof_fit"} =>
             seen'[p].fit = Source(p).members /\ seen'[p].heldout = seen[p].heldout
        /\ step[p] \notin {"fit", "proof_fit"} =>
             seen'[p].fit = seen[p].fit /\ seen'[p].heldout = Source(p).members
        /\ \A q \in Clients \ {p} : seen'[q] = seen[q]
        /\ seen' \in [Clients -> [fit: SUBSET Members, heldout: SUBSET Members]]
    BY <2>1, <2>2, <2>4, <2>5 DEF Loaded
  <2>7. TypeOK' /\ Local(p)
    BY <1>1, <2>2, <2>3, <2>6, Typed DEF TypeOK, RegistryTypeOK, Local
  <2>8. CallInv(p)'
    BY <1>1, <1>2, <2>1, <2>3, <2>6, Typed DEF CallInv, Publishing, Proving, Complete, SetOf
  <2>9. TxnInv(p)'
    BY <1>1, <2>3, Typed DEF TxnInv, Unprepared, ReleaseSound, SetSound, Complete, SetOf
  <2>10. AnswerInv(p)'
    BY <1>1, <2>2, <2>3, Typed DEF AnswerInv, Unprepared
  <2> QED
    BY <1>1, <2>7, <2>8, <2>9, <2>10, Typed, ClientKeeps DEF Own
<1>4. CASE ReadKind(Source(p)) # "ok"
  <2>1. step[p] \in {"fit", "heldout"}
    BY <1>1, <1>2, <1>4, StoredIsSound DEF Proving, ReadKind, Complete
  <2>2. PICK kind \in {"incomplete", "not_ready"} : Answer(p, kind) /\ seen' = seen
    BY <1>4, <2>1 DEF Reload, ReadKind
  <2> QED
    BY <1>1, <2>2, Typed, AnswerKeeps DEF Kinds
<1> QED
  BY <1>3, <1>4

\* A step that gives the call its release.
LEMMA PreparedTyped ==
  ASSUME IInv, NEW p \in Clients, NEW s \in Steps, Goto(p, s), NEW S,
         release' = [release EXCEPT ![p] = Measured(SetOf(p), request[p].heldout, S, request[p].confidence)],
         UNCHANGED <<evidence, tables, request, seen, reply, registry, faults>>,
         txn' \in [Clients -> [state: TxnStates, rows: SUBSET {"set", "release", "receipt"}]],
         \A q \in Clients \ {p} : txn'[q] = txn[q]
  PROVE  /\ TypeOK' /\ Local(p) /\ DOMAIN release' = Clients /\ step'[p] = s
         /\ release'[p] = Measured(SetOf(p), request[p].heldout, S, request[p].confidence)
<1> USE DEF evidence, tables, registry, registration
<1>1. DOMAIN release' = Clients /\ \A q \in Clients \ {p} : release'[q] = release[q]
  BY Typed
<1>2. release'[p] = Measured(SetOf(p), request[p].heldout, S, request[p].confidence)
  BY Typed
<1>3. release'[p].set = request[p].set
  BY <1>2 DEF Measured, SetOf
<1>4. step' \in [Clients -> Steps] /\ step'[p] = s /\ \A q \in Clients \ {p} : step'[q] = step[q]
  BY Typed DEF Goto
<1>5. \A q \in Clients : release'[q] # NoDoc => release'[q].set = request'[q].set
  BY <1>1, <1>3, Typed DEF TypeOK
<1>6. TypeOK'
  BY <1>4, <1>5, Typed DEF TypeOK, RegistryTypeOK
<1>7. Local(p)
  BY <1>1, <1>4 DEF Local
<1> QED
  BY <1>1, <1>2, <1>4, <1>6, <1>7

LEMMA PrepareKeeps ==
  ASSUME IInv, NEW p \in Clients, Prepare(p)
  PROVE  IInv'
<1> USE DEF evidence, tables, registry, registration
<1>1. /\ step[p] = "prepare"
      /\ UNCHANGED <<evidence, tables, request, seen, registry, faults>>
  BY DEF Prepare
<1> DEFINE OK == Reproducible(SetOf(p), seen[p].fit, request[p].heldout, seen[p].heldout,
                              request[p].confidence)
<1>2. CASE OK
  <2>1. /\ Complete(SetOf(p).cohort) /\ seen[p].fit = SetOf(p).cohort.members
        /\ Complete(request[p].heldout) /\ seen[p].heldout = request[p].heldout.members
    BY <1>1, Typed DEF CallInv
  <2>2. /\ release' = [release EXCEPT ![p] =
               Measured(SetOf(p), request[p].heldout, seen[p].heldout, request[p].confidence)]
        /\ Goto(p, "set") /\ txn' = [txn EXCEPT ![p].state = "open"] /\ reply' = reply
    BY <1>2 DEF Prepare
  <2>3. /\ txn[p] = NoTxn /\ txn'[p].state = "open" /\ txn'[p].rows = {}
        /\ txn' \in [Clients -> [state: TxnStates, rows: SUBSET {"set", "release", "receipt"}]]
        /\ \A q \in Clients \ {p} : txn'[q] = txn[q]
    BY <1>1, <2>2, Typed DEF TxnInv, Unprepared, NoTxn, TxnStates
  <2>4. /\ TypeOK' /\ Local(p) /\ DOMAIN release' = Clients /\ step'[p] = "set"
        /\ release'[p] = Measured(SetOf(p), request[p].heldout, seen[p].heldout, request[p].confidence)
    BY <1>1, <2>2, <2>3, PreparedTyped DEF Steps
  <2>5. release'[p] = Exact(SetOf(p), request[p].heldout, request[p].confidence)
    BY <2>1, <2>4 DEF Exact
  <2>6. /\ release'[p].set = SetOf(p) /\ release'[p].heldout = request[p].heldout
        /\ release'[p].confidence = request[p].confidence
    BY <2>4 DEF Measured
  <2>7. ReleaseSound(release[p])'
    BY <1>1, <1>2, <2>1, <2>5, <2>6 DEF ReleaseSound, Complete
  <2>8. CallInv(p)'
    BY <1>1, <2>4, <2>5, <2>7 DEF CallInv, Publishing, Proving, SetOf
  <2>9. TxnInv(p)'
    BY <2>3, <2>4 DEF TxnInv, Unprepared
  <2>10. AnswerInv(p)'
    BY <1>1, <2>2, <2>4, Typed DEF AnswerInv, Unprepared
  <2> QED
    BY <1>1, <2>4, <2>8, <2>9, <2>10, ClientKeeps DEF Own
<1>3. CASE ~ OK
  <2>1. Answer(p, "invalid") /\ release' = release /\ txn' = txn
    BY <1>3 DEF Prepare
  <2> QED
    BY <1>1, <2>1, Typed, AnswerKeeps DEF Kinds
<1> QED
  BY <1>2, <1>3

LEMMA BeginReadKeeps ==
  ASSUME IInv, NEW p \in Clients, BeginRead(p)
  PROVE  IInv'
<1> USE DEF evidence, tables, registry, registration
<1>1. /\ step[p] = "start" /\ Goto(p, "stored")
      /\ UNCHANGED <<evidence, tables, request, seen, reply, txn, registry, faults>>
      /\ release' = [release EXCEPT ![p] =
           Measured(SetOf(p), request[p].heldout, request[p].heldout.members, request[p].confidence)]
  BY DEF BeginRead
<1>2. /\ TypeOK' /\ Local(p) /\ DOMAIN release' = Clients /\ step'[p] = "stored"
      /\ release'[p] = Measured(SetOf(p), request[p].heldout, request[p].heldout.members, request[p].confidence)
  BY <1>1, Typed, PreparedTyped DEF Steps
<1>3. CallInv(p)'
  BY <1>1, <1>2 DEF CallInv, Publishing, Proving, SetOf, Exact
<1>4. TxnInv(p)'
  BY <1>1, <1>2, Typed DEF TxnInv, Unprepared, NoTxn
<1>5. AnswerInv(p)'
  BY <1>1, <1>2, Typed DEF AnswerInv, Unprepared
<1> QED
  BY <1>1, <1>2, <1>3, <1>4, <1>5, ClientKeeps DEF Own

\* What the stored release says is recomputed from complete cohorts, and agrees.
LEMMA ReproduceKeeps ==
  ASSUME IInv, NEW p \in Clients, Reproduce(p)
  PROVE  IInv'
<1> USE DEF evidence, tables, registry, registration
<1>1. /\ step[p] = "reproduce"
      /\ UNCHANGED <<evidence, tables, request, seen, release, txn, registry, faults>>
  BY DEF Reproduce
<1>2. /\ Complete(SetOf(p).cohort)
      /\ Reproducible(SetOf(p), SetOf(p).cohort.members, request[p].heldout,
                      request[p].heldout.members, request[p].confidence)
      /\ release[p] = Measured(SetOf(p), request[p].heldout, request[p].heldout.members, request[p].confidence)
  BY <1>1, StoredIsSound DEF Proving, Exact
<1>3. /\ release[p].set = SetOf(p) /\ release[p].heldout = request[p].heldout
      /\ release[p].confidence = request[p].confidence
  BY <1>2 DEF Measured
<1>4. /\ seen[p].fit = SetOf(p).cohort.members /\ seen[p].heldout = request[p].heldout.members
      /\ release[p] \in Docs(releases) /\ release[p] \in Docs(receipts)
  BY <1>1, Typed DEF CallInv, Proving
<1>5. Answer(p, "ok")
  BY <1>2, <1>3, <1>4 DEF Reproduce
<1>6. Registered(release[p].set.cohort.policy)
  BY <1>2, <1>3, Typed DEF TableInv, Complete
<1> QED
  BY <1>1, <1>4, <1>5, <1>6, Typed, AnswerKeeps DEF Kinds

-----------------------------------------------------------------------------
(* Evidence: recording.                                                    *)

\* One fit exists for a cohort and method, and one coverage for an analysis:
\* what two publishers make of the same cohorts is the same record.
LEMMA SameFitSameSet ==
  ASSUME NEW s, NEW t, SetSound(s), SetSound(t), SameFit(s, t)
  PROVE  s = t
<1>1. /\ s = Fitted(s.cohort, s.method, s.cohort.members)
      /\ t = Fitted(t.cohort, t.method, t.cohort.members)
  BY DEF SetSound, Reproduces
<1>2. s.cohort = t.cohort /\ s.method = t.method
  BY DEF SameFit
<1>3. Fitted(s.cohort, s.method, s.cohort.members) = Fitted(t.cohort, t.method, t.cohort.members)
  BY <1>2
<1> QED
  BY <1>1, <1>3

LEMMA SameAnalysisSameRelease ==
  ASSUME NEW d, NEW e, ReleaseSound(d), ReleaseSound(e), SameAnalysis(d, e)
  PROVE  d = e
<1>1. d = Exact(d.set, d.heldout, d.confidence) /\ e = Exact(e.set, e.heldout, e.confidence)
  BY DEF ReleaseSound
<1>2. d.set = e.set /\ d.heldout = e.heldout /\ d.confidence = e.confidence
  BY DEF SameAnalysis
<1>3. Exact(d.set, d.heldout, d.confidence) = Exact(e.set, e.heldout, e.confidence)
  BY <1>2
<1> QED
  BY <1>1, <1>3

\* The release that a publisher carries is about the set it carries.
LEMMA PreparedRelease ==
  ASSUME IInv, NEW p \in Clients, step[p] \in Publishing
  PROVE  /\ ReleaseSound(release[p]) /\ release[p].set = SetOf(p) /\ SetSound(SetOf(p))
<1>1. ReleaseSound(release[p]) /\ release[p] = Exact(SetOf(p), request[p].heldout, request[p].confidence)
  BY Typed DEF CallInv
<1>2. release[p].set = SetOf(p)
  <2>1. release[p] = Measured(SetOf(p), request[p].heldout, request[p].heldout.members, request[p].confidence)
    BY <1>1 DEF Exact
  <2> QED
    BY <2>1 DEF Measured
<1> QED
  BY <1>1, <1>2 DEF ReleaseSound, SetSound, Reproducible

LEMMA PublishSetKeeps ==
  ASSUME IInv, NEW p \in Clients, PublishSet(p)
  PROVE  IInv'
<1> USE DEF evidence, tables, registry, registration
<1>1. /\ step[p] = "set"
      /\ UNCHANGED <<evidence, tables, request, seen, release, registry, faults>>
  BY DEF PublishSet
<1>2. ReleaseSound(release[p]) /\ release[p].set = SetOf(p) /\ SetSound(SetOf(p))
  BY <1>1, PreparedRelease DEF Publishing
<1>3. SetAccepted(SetOf(p))
  BY <1>2, Typed, SoundSetAccepted
<1>4. \A d \in Docs(sets) : SameFit(d, SetOf(p)) => d = SetOf(p)
  BY <1>2, Typed, SameFitSameSet DEF TableInv
<1>5. /\ Goto(p, "release") /\ reply' = reply
      /\ \/ SetOf(p) \in Docs(sets) /\ txn' = txn
         \/ txn' = [txn EXCEPT ![p].rows = @ \cup {"set"}]
  BY <1>3, <1>4 DEF PublishSet
<1>6. txn[p].state = "open" /\ txn[p].rows = {}
  BY <1>1, Typed DEF TxnInv
<1>7. /\ txn' \in [Clients -> [state: TxnStates, rows: SUBSET {"set", "release", "receipt"}]]
      /\ \A q \in Clients \ {p} : txn'[q] = txn[q]
      /\ txn'[p].state = "open" /\ txn'[p].rows \subseteq {"set"}
      /\ SetOf(p) \in Docs(sets) \/ "set" \in txn'[p].rows
  BY <1>5, <1>6, Typed
<1>8. step'[p] = "release"
  BY <1>5, Typed DEF Goto
<1>9. CallInv(p)'
  BY <1>1, <1>2, <1>8, Typed DEF CallInv, Publishing, Proving, ReleaseSound, Complete, SetOf
<1>10. TxnInv(p)'
  <2>1. SetSound(SetOf(p))' /\ (SetOf(p) \in Docs(sets))' = (SetOf(p) \in Docs(sets))
    BY <1>1, <1>2 DEF SetSound, Complete, SetOf
  <2> QED
    BY <1>7, <1>8, <2>1 DEF TxnInv, Unprepared
<1>11. AnswerInv(p)'
  BY <1>1, <1>5, <1>8, Typed DEF AnswerInv, Unprepared
<1> QED
  BY <1>1, <1>5, <1>7, <1>9, <1>10, <1>11, Typed, MoveKeeps DEF Steps

LEMMA PublishReleaseKeeps ==
  ASSUME IInv, NEW p \in Clients, PublishRelease(p)
  PROVE  IInv'
<1> USE DEF evidence, tables, registry, registration
<1>1. /\ step[p] = "release"
      /\ UNCHANGED <<evidence, tables, request, seen, release, registry, faults>>
  BY DEF PublishRelease
<1>2. ReleaseSound(release[p]) /\ release[p].set = SetOf(p) /\ SetSound(SetOf(p))
  BY <1>1, PreparedRelease DEF Publishing
<1>3. /\ txn[p].state = "open" /\ txn[p].rows \subseteq {"set"}
      /\ SetOf(p) \in Docs(sets) \/ "set" \in txn[p].rows
  BY <1>1, Typed DEF TxnInv
<1>4. ReleaseAccepted(p)
  BY <1>2, <1>3, Typed, SoundReleaseAccepted
<1>5. \A d \in Docs(releases) : SameAnalysis(d, release[p]) => d = release[p]
  BY <1>2, Typed, SameAnalysisSameRelease DEF TableInv
<1>6. /\ Goto(p, "content") /\ reply' = reply
      /\ \/ release[p] \in Docs(releases) /\ txn' = txn
         \/ txn' = [txn EXCEPT ![p].rows = @ \cup {"release"}]
  BY <1>4, <1>5 DEF PublishRelease
<1>7. /\ txn' \in [Clients -> [state: TxnStates, rows: SUBSET {"set", "release", "receipt"}]]
      /\ \A q \in Clients \ {p} : txn'[q] = txn[q]
      /\ txn'[p].state = "open" /\ txn'[p].rows \subseteq {"set", "release"}
      /\ release[p] \in Docs(releases) \/ "release" \in txn'[p].rows
      /\ SetOf(p) \in Docs(sets) \/ "set" \in txn'[p].rows
  BY <1>3, <1>6, Typed
<1>8. step'[p] = "content"
  BY <1>6, Typed DEF Goto
<1>9. CallInv(p)'
  BY <1>1, <1>2, <1>8, Typed DEF CallInv, Publishing, Proving, ReleaseSound, Complete, SetOf
<1>10. TxnInv(p)'
  <2>1. /\ SetSound(SetOf(p))' /\ ReleaseSound(release[p])' /\ (release[p].set = SetOf(p))'
        /\ (SetOf(p) \in Docs(sets))' = (SetOf(p) \in Docs(sets))
        /\ (release[p] \in Docs(releases))' = (release[p] \in Docs(releases))
    BY <1>1, <1>2 DEF SetSound, ReleaseSound, Complete, SetOf
  <2> QED
    BY <1>7, <1>8, <2>1 DEF TxnInv, Unprepared
<1>11. AnswerInv(p)'
  BY <1>1, <1>6, <1>8, Typed DEF AnswerInv, Unprepared
<1> QED
  BY <1>1, <1>6, <1>7, <1>9, <1>10, <1>11, Typed, MoveKeeps DEF Steps

\* The receipt's transaction finds the release: the content has been committed.
LEMMA PublishReceiptKeeps ==
  ASSUME IInv, NEW p \in Clients, PublishReceipt(p)
  PROVE  IInv'
<1> USE DEF evidence, tables, registry, registration
<1>1. /\ step[p] = "receipt" /\ txn[p].state = "none"
      /\ UNCHANGED <<evidence, tables, request, seen, release, registry, faults>>
  BY DEF PublishReceipt
<1>2. ReleaseSound(release[p]) /\ release[p] \in Docs(releases) /\ txn[p].rows = {}
  BY <1>1, Typed DEF CallInv, Publishing, TxnInv
<1>3. /\ Goto(p, "receipt_commit") /\ reply' = reply
      /\ txn' = [txn EXCEPT ![p].state = "open",
                   ![p].rows = IF release[p] \in Docs(receipts) THEN {} ELSE {"receipt"}]
  BY <1>2 DEF PublishReceipt
<1>4. /\ txn' \in [Clients -> [state: TxnStates, rows: SUBSET {"set", "release", "receipt"}]]
      /\ \A q \in Clients \ {p} : txn'[q] = txn[q]
      /\ txn'[p].state = "open" /\ txn'[p].rows \subseteq {"receipt"}
  BY <1>3, Typed DEF TxnStates
<1>5. step'[p] = "receipt_commit"
  BY <1>3, Typed DEF Goto
<1>6. CallInv(p)'
  BY <1>1, <1>2, <1>5, Typed DEF CallInv, Publishing, Proving, ReleaseSound, Complete, SetOf
<1>7. TxnInv(p)'
  <2>1. (release[p] \in Docs(releases))'
    BY <1>1, <1>2
  <2> QED
    BY <1>4, <1>5, <2>1 DEF TxnInv, Unprepared
<1>8. AnswerInv(p)'
  BY <1>1, <1>3, <1>5, Typed DEF AnswerInv, Unprepared
<1> QED
  BY <1>1, <1>3, <1>4, <1>6, <1>7, <1>8, Typed, MoveKeeps DEF Steps

\* Asked for at once, a receipt is refused unless the release was there before.
LEMMA ReceiptAtOnceKeeps ==
  ASSUME IInv, NEW p \in Clients, ReceiptAtOnce(p)
  PROVE  IInv'
<1> USE DEF evidence, tables, registry, registration
<1>1. /\ step[p] = "content"
      /\ UNCHANGED <<evidence, tables, request, seen, release, registry, faults>>
  BY DEF ReceiptAtOnce
<1>2. CASE InsideCreation(p)
  <2>1. Answer(p, "refused") /\ txn' = Doomed(p)
    BY <1>2 DEF ReceiptAtOnce, Refuse
  <2> QED
    BY <1>1, <2>1, Typed, AnswerKeeps DEF Kinds
<1>3. CASE ~ InsideCreation(p)
  <2>1. step' = step /\ reply' = reply /\ txn' = [txn EXCEPT ![p].rows = @ \cup {"receipt"}]
    BY <1>3 DEF ReceiptAtOnce
  <2>2. "release" \notin txn[p].rows /\ release[p] \in Docs(releases) /\ txn[p].state = "open"
    BY <1>1, <1>3, Typed DEF InsideCreation, TxnInv
  <2>3. /\ txn' \in [Clients -> [state: TxnStates, rows: SUBSET {"set", "release", "receipt"}]]
        /\ \A q \in Clients \ {p} : txn'[q] = txn[q]
        /\ txn'[p].state = "open" /\ "release" \notin txn'[p].rows
        /\ "set" \in txn[p].rows <=> "set" \in txn'[p].rows
    BY <2>1, <2>2, Typed
  <2>4. TxnInv(p)'
    BY <1>1, <2>1, <2>2, <2>3, Typed DEF TxnInv, Unprepared, SetSound, Complete, SetOf
  <2>5. CallInv(p)'
    BY <1>1, <2>1, Typed DEF CallInv, Publishing, Proving, ReleaseSound, Complete, SetOf
  <2>6. AnswerInv(p)'
    BY <1>1, <2>1, Typed DEF AnswerInv, Unprepared
  <2>7. Goto(p, "content")
    BY <1>1, <2>1, Typed DEF Goto
  <2> QED
    BY <1>1, <2>1, <2>3, <2>4, <2>5, <2>6, <2>7, Typed, MoveKeeps DEF Steps
<1> QED
  BY <1>2, <1>3

-----------------------------------------------------------------------------
(* Evidence: faults.                                                       *)

LEMMA RefusalKeeps ==
  ASSUME IInv, NEW p \in Clients,
         DatabaseError(p) \/ Crash(p) \/ MatchFails(p)
  PROVE  IInv'
<1>1. CASE DatabaseError(p)
  BY <1>1, Typed, AnswerKeeps DEF DatabaseError, InStatement, Refuse, Kinds
<1>2. CASE Crash(p)
  BY <1>2, Typed, AnswerKeeps DEF Crash, Refuse, Kinds
<1>3. CASE MatchFails(p)
  BY <1>3, Typed, AnswerKeeps DEF MatchFails, Kinds
<1> QED
  BY <1>1, <1>2, <1>3

LEMMA OutcomeUnknownKeeps ==
  ASSUME IInv, NEW p \in Clients, OutcomeUnknown(p)
  PROVE  IInv'
<1> USE DEF evidence, tables, registry, registration
<1>1. /\ step[p] \in InStatement \cup {"content_wait", "receipt_wait"} /\ Fault /\ txn' = Doomed(p)
      /\ UNCHANGED <<evidence, tables, request, seen, release, reply, registry>>
  BY DEF OutcomeUnknown
<1>2. PICK s \in {"content_matches", "receipt_visible"} : Goto(p, s)
  BY DEF OutcomeUnknown
<1>3. step'[p] = s
  BY <1>2, Typed DEF Goto
<1>4. /\ txn' \in [Clients -> [state: TxnStates, rows: SUBSET {"set", "release", "receipt"}]]
      /\ \A q \in Clients \ {p} : txn'[q] = txn[q]
      /\ txn'[p].rows = txn[p].rows
      /\ txn'[p].state = "none" => txn'[p].rows = {}
  BY <1>1, Typed, DoomedTxn
<1>5. CallInv(p)'
  BY <1>1, <1>3, Typed DEF CallInv, Publishing, Proving, InStatement, ReleaseSound, Complete, SetOf
<1>6. TxnInv(p)'
  BY <1>1, <1>3, <1>4, Typed DEF TxnInv, Unprepared, ReleaseSound, SetSound, Complete, SetOf
<1>7. AnswerInv(p)'
  BY <1>1, <1>3, Typed DEF AnswerInv, Unprepared, InStatement
<1> QED
  BY <1>1, <1>2, <1>4, <1>5, <1>6, <1>7, Typed, MoveKeeps DEF Steps

-----------------------------------------------------------------------------
(* Evidence: the server.                                                   *)

LEMMA ServerAbortKeeps ==
  ASSUME IInv, NEW p \in Clients, ServerAbort(p)
  PROVE  IInv'
<1> USE DEF evidence, tables, registry, registration
<1>1. /\ txn[p].state \in {"doomed", "committing"} /\ txn' = [txn EXCEPT ![p] = NoTxn]
      /\ UNCHANGED <<evidence, tables, request, seen, release, reply, registry>>
      /\ faults' = faults \/ Fault
  BY DEF ServerAbort
<1>2. /\ txn' \in [Clients -> [state: TxnStates, rows: SUBSET {"set", "release", "receipt"}]]
      /\ \A q \in Clients \ {p} : txn'[q] = txn[q]
      /\ txn'[p].rows = {} /\ txn'[p].state = "none"
  BY <1>1, Typed DEF NoTxn, TxnStates
<1>3. step[p] \notin Unprepared \cup {"set", "release", "content", "receipt_commit"}
  BY <1>1, Typed DEF TxnInv, NoTxn
<1>4. PICK s \in Steps :
        /\ Goto(p, s)
        /\ \/ step[p] = "content_wait" /\ s = "content_matches"
           \/ step[p] = "receipt_wait" /\ s = "receipt_visible"
           \/ step[p] \notin {"content_wait", "receipt_wait"} /\ s = step[p]
  <2>1. txn[p].state = "doomed" => step[p] \notin {"content_wait", "receipt_wait"}
    BY Typed DEF TxnInv
  <2>2. step' = step => Goto(p, step[p])
    BY Typed DEF Goto
  <2>3. step[p] \in Steps
    BY Typed
  <2>4. CASE step[p] = "content_wait"
    BY <2>1, <2>4 DEF ServerAbort, Steps
  <2>5. CASE step[p] = "receipt_wait"
    BY <2>1, <2>5 DEF ServerAbort, Steps
  <2>6. CASE step[p] \notin {"content_wait", "receipt_wait"}
    BY <2>2, <2>3, <2>6 DEF ServerAbort
  <2> QED
    BY <2>4, <2>5, <2>6
<1>5. step'[p] = s
  BY <1>4, Typed DEF Goto
<1>6. CallInv(p)'
  BY <1>1, <1>3, <1>4, <1>5, Typed DEF CallInv, Publishing, Proving, Unprepared, ReleaseSound, Complete, SetOf
<1>7. TxnInv(p)'
  BY <1>2, <1>3, <1>4, <1>5 DEF TxnInv, Unprepared
<1>8. AnswerInv(p)'
  BY <1>1, <1>2, <1>3, <1>4, <1>5, Typed DEF AnswerInv, Unprepared, Registered
<1> QED
  BY <1>1, <1>2, <1>4, <1>6, <1>7, <1>8, Typed, MoveKeeps

\* What a commit adds to a table.
LEMMA RecordedDocs ==
  ASSUME NEW p \in Clients, NEW row, NEW T, NEW doc
  PROVE  /\ T \subseteq Recorded(p, row, T, doc)
         /\ \A r \in Recorded(p, row, T, doc) \ T : r.by = p
         /\ \A x : x \in Docs(Recorded(p, row, T, doc)) <=>
                     x \in Docs(T) \/ (row \in txn[p].rows /\ x = doc)
<1>1. CASE row \in txn[p].rows
  <2> DEFINE new == [doc |-> doc, by |-> p]
  <2>1. Recorded(p, row, T, doc) = T \cup {new}
    BY <1>1 DEF Recorded
  <2>2. Docs(T \cup {new}) = Docs(T) \cup {new.doc}
    BY DEF Docs
  <2>3. new.doc = doc /\ new.by = p
    OBVIOUS
  <2> HIDE DEF new
  <2>4. \A r \in Recorded(p, row, T, doc) \ T : r.by = p
    BY <2>1, <2>3
  <2>5. \A x : x \in Docs(Recorded(p, row, T, doc)) <=>
                x \in Docs(T) \/ (row \in txn[p].rows /\ x = doc)
    BY <1>1, <2>1, <2>2, <2>3
  <2> QED
    BY <2>1, <2>4, <2>5
<1>2. CASE row \notin txn[p].rows
  BY <1>2 DEF Recorded
<1> QED
  BY <1>1, <1>2

LEMMA ServerCommitKeeps ==
  ASSUME IInv, NEW p \in Clients, ServerCommit(p)
  PROVE  /\ IInv'
         /\ \A d \in Docs(receipts)' \ Docs(receipts) : d \in Docs(releases)
<1> USE DEF evidence, registry, registration
<1>1. /\ txn[p].state = "committing" /\ txn' = [txn EXCEPT ![p] = NoTxn]
      /\ sets' = Recorded(p, "set", sets, SetOf(p))
      /\ releases' = Recorded(p, "release", releases, release[p])
      /\ receipts' = Recorded(p, "receipt", receipts, release[p])
      /\ UNCHANGED <<evidence, request, seen, release, reply, registry, faults>>
  BY DEF ServerCommit
<1>2. /\ sets \subseteq sets' /\ releases \subseteq releases' /\ receipts \subseteq receipts'
      /\ \A r \in releases' \ releases : r.by = p
  BY <1>1, RecordedDocs
<1>3. /\ \A x : x \in Docs(sets)' <=> x \in Docs(sets) \/ ("set" \in txn[p].rows /\ x = SetOf(p))
      /\ \A x : x \in Docs(releases)' <=>
                  x \in Docs(releases) \/ ("release" \in txn[p].rows /\ x = release[p])
      /\ \A x : x \in Docs(receipts)' <=>
                  x \in Docs(receipts) \/ ("receipt" \in txn[p].rows /\ x = release[p])
  BY <1>1, RecordedDocs
<1>4. TxnInv(p) /\ CallInv(p) /\ AnswerInv(p)
  BY Typed
<1>5. /\ txn' \in [Clients -> [state: TxnStates, rows: SUBSET {"set", "release", "receipt"}]]
      /\ \A q \in Clients \ {p} : txn'[q] = txn[q]
      /\ txn'[p].rows = {} /\ txn'[p].state = "none"
  BY <1>1, Typed DEF NoTxn, TxnStates
<1>6. step[p] \notin Unprepared \cup {"set", "release", "content", "receipt_commit"}
  BY <1>1, <1>4 DEF TxnInv, NoTxn
<1>7. PICK s \in Steps :
        /\ Goto(p, s)
        /\ \/ step[p] = "content_wait" /\ s = "receipt"
           \/ step[p] = "receipt_wait" /\ s = "stored"
           \/ step[p] \notin {"content_wait", "receipt_wait"} /\ s = step[p]
  <2>1. step' = step => Goto(p, step[p])
    BY Typed DEF Goto
  <2>2. step[p] \in Steps
    BY Typed
  <2> QED
    BY <2>1, <2>2 DEF ServerCommit, Steps
<1>8. step' \in [Clients -> Steps] /\ step'[p] = s /\ \A q \in Clients \ {p} : step'[q] = step[q]
  BY <1>7, Typed DEF Goto
<1>9. TypeOK' /\ DOMAIN release' = Clients
  BY <1>1, <1>5, <1>8, Typed DEF TypeOK, RegistryTypeOK
<1>10. RegistryInv'
  BY <1>1 DEF IInv, RegistryInv, PendingInv, Pending, ValidPolicy, EpochRegistered, Registered
<1>11. TableInv'
  <2>1. \A c \in sealed' : Registered(c.policy)'
    BY <1>1, Typed DEF TableInv, Registered
  <2>2. \A x : SetSound(x) => SetSound(x)'
    BY <1>1 DEF SetSound, Complete
  <2>3. \A x : ReleaseSound(x) => ReleaseSound(x)'
    BY <1>1 DEF ReleaseSound, Complete
  <2>4. \A x \in Docs(sets)' : SetSound(x)'
    BY <1>3, <1>4, <2>2, Typed DEF TableInv, TxnInv
  <2>5. \A x \in Docs(releases)' : ReleaseSound(x)' /\ x.set \in Docs(sets)'
    <3>1. SUFFICES ASSUME NEW x \in Docs(releases)' PROVE ReleaseSound(x)' /\ x.set \in Docs(sets)'
      OBVIOUS
    <3>2. CASE x \in Docs(releases)
      BY <1>3, <3>2, <2>3, Typed DEF TableInv
    <3>3. CASE "release" \in txn[p].rows /\ x = release[p]
      <4>1. ReleaseSound(x) /\ x.set = SetOf(p) /\ (SetOf(p) \in Docs(sets) \/ "set" \in txn[p].rows)
        BY <1>4, <3>3 DEF TxnInv
      <4> QED
        BY <4>1, <1>3, <2>3
    <3> QED
      BY <1>3, <3>2, <3>3
  <2>6. \A x \in Docs(receipts)' : x \in Docs(releases)'
    BY <1>3, <1>4, Typed DEF TableInv, TxnInv
  <2> QED
    BY <2>1, <2>4, <2>5, <2>6 DEF TableInv
<1>12. ASSUME NEW q \in Clients \ {p} PROVE Own(q)'
  <2>1. \A c : Complete(c) => Complete(c)'
    BY <1>1 DEF Complete
  <2>2. \A x \in Policies : Registered(x) => Registered(x)'
    BY <1>1 DEF Registered
  <2>3. seen'[q] = seen[q] /\ release'[q] = release[q] /\ reply'[q] = reply[q] /\ request' = request
    BY <1>1
  <2>4. \A r \in releases' \ releases : r.by # q
    BY <1>2, <1>12
  <2> QED
    BY <1>2, <1>5, <1>8, <2>1, <2>2, <2>3, <2>4, Frame
<1>13. CallInv(p)'
  <2>1. /\ release[p] \in Docs(releases) => (release[p] \in Docs(releases))'
        /\ "release" \in txn[p].rows => (release[p] \in Docs(releases))'
        /\ release[p] \in Docs(receipts) => (release[p] \in Docs(receipts))'
    BY <1>1, <1>3
  <2>2. step[p] = "content_wait" => release[p] \in Docs(releases) \/ "release" \in txn[p].rows
    BY <1>4 DEF TxnInv
  <2>3. ReleaseSound(release[p]) => ReleaseSound(release[p])'
    BY <1>1 DEF ReleaseSound, Complete
  <2> QED
    BY <1>1, <1>4, <1>6, <1>7, <1>8, <2>1, <2>2, <2>3 DEF CallInv, Publishing, Proving, Unprepared, SetOf
<1>14. TxnInv(p)'
  BY <1>5, <1>6, <1>7, <1>8 DEF TxnInv, Unprepared
<1>15. AnswerInv(p)'
  <2>1. release[p] \in Docs(releases) /\ release[p] \in Docs(receipts) =>
          (release[p] \in Docs(releases))' /\ (release[p] \in Docs(receipts))'
    BY <1>1, <1>3
  <2> QED
    BY <1>1, <1>4, <1>6, <1>7, <1>8, <2>1 DEF AnswerInv, Unprepared, Registered
<1>16. \A q \in Clients : CallInv(q)' /\ TxnInv(q)' /\ AnswerInv(q)'
  BY <1>12, <1>13, <1>14, <1>15 DEF Own
<1>17. \A d \in Docs(receipts)' \ Docs(receipts) : d \in Docs(releases)
  BY <1>3, <1>4 DEF TxnInv
<1> QED
  BY <1>9, <1>10, <1>11, <1>16, <1>17 DEF IInv

-----------------------------------------------------------------------------
(* Evidence: the surroundings.                                             *)

\* What comes from outside only adds: cohorts, outcomes and registrations.
LEMMA SurroundingsKeep ==
  ASSUME IInv, TypeOK', RegistryInv', UNCHANGED <<tables, caller, txn>>,
         \A c : Complete(c) => Complete(c)',
         \A x \in Policies : Registered(x) => Registered(x)',
         \A c \in sealed' : Registered(c.policy)'
  PROVE  IInv'
<1> USE DEF tables, caller
<1>1. TableInv'
  <2>1. /\ \A s : SetSound(s) => SetSound(s)'
        /\ \A d : ReleaseSound(d) => ReleaseSound(d)'
    BY SoundStays
  <2> QED
    BY <2>1 DEF IInv, TableInv
<1>2. \A q \in Clients : Own(q)'
  BY Frame
<1> QED
  BY <1>1, <1>2 DEF IInv, Own

LEMMA RegistryNextKeeps ==
  ASSUME IInv, RegistryNext
  PROVE  IInv'
<1>1. PICK r \in Clients : RegistryStep(r)
  BY DEF RegistryNext
<1>2. RegistryTypeOK' /\ RegistryInv'
  BY <1>1, RegistryPreserved DEF IInv, TypeOK
<1>3. \A x \in Policies : Registered(x) => Registered(x)'
  BY <1>1, RegistryGrows DEF IInv, TypeOK, Registered
<1>4. UNCHANGED <<evidence, tables, caller, txn>>
  BY DEF RegistryNext, ForRegistry
<1>5. TypeOK'
  BY <1>2, <1>4 DEF IInv, TypeOK, evidence, caller
<1>6. \A c : Complete(c) => Complete(c)'
  BY <1>4 DEF Complete, evidence
<1>7. \A c \in sealed' : Registered(c.policy)'
  <2>1. \A c \in sealed : c.policy \in Policies /\ Registered(c.policy)
    BY EvidenceAssumption DEF IInv, TableInv, TypeOK, Policies
  <2> QED
    BY <2>1, <1>3, <1>4 DEF evidence, Registered
<1> QED
  BY <1>2, <1>3, <1>4, <1>5, <1>6, <1>7, SurroundingsKeep

LEMMA CohortKeeps ==
  ASSUME IInv, NEW c \in Cohorts, SealCohort(c) \/ PublishOutcome(c)
  PROVE  IInv'
<1>1. /\ UNCHANGED <<tables, caller, txn, registry, faults>>
      /\ sealed \subseteq sealed' /\ sealed' \subseteq sealed \cup {c}
      /\ sealed' # sealed => Registered(c.policy)
  BY DEF SealCohort, PublishOutcome, MatchesPolicy
<1>2. \A x : Complete(x) => Complete(x)'
  <2>1. CASE SealCohort(c)
    BY <2>1 DEF SealCohort, Complete
  <2>2. CASE PublishOutcome(c)
    <3>1. PICK m \in c.members \ published[c] : published' = [published EXCEPT ![c] = @ \cup {m}]
      BY <2>2 DEF PublishOutcome
    <3>2. ASSUME NEW x, Complete(x) PROVE Complete(x)'
      <4>1. x # c /\ x \in sealed /\ x \in Cohorts
        BY <3>1, <3>2 DEF Complete, IInv, TypeOK
      <4>2. published'[x] = published[x]
        BY <3>1, <4>1 DEF IInv, TypeOK
      <4> QED
        BY <1>1, <3>2, <4>1, <4>2 DEF Complete
    <3> QED
      BY <3>2
  <2> QED
    BY <2>1, <2>2
<1>3. published' \in [Cohorts -> SUBSET Members]
  <2>1. published \in [Cohorts -> SUBSET Members] /\ c.members \subseteq Members
    BY DEF IInv, TypeOK, Members
  <2>2. published' = published
        \/ \E m \in c.members : published' = [published EXCEPT ![c] = @ \cup {m}]
    BY DEF SealCohort, PublishOutcome
  <2> QED
    BY <2>1, <2>2
<1>4. TypeOK'
  BY <1>1, <1>3 DEF IInv, TypeOK, RegistryTypeOK, caller, registry, registration
<1>5. RegistryInv'
  BY <1>1 DEF IInv, RegistryInv, PendingInv, Pending, ValidPolicy, EpochRegistered, Registered,
       registry, registration
<1>6. \A x : Registered(x) => Registered(x)'
  BY <1>1 DEF Registered, registry
<1>7. \A x \in sealed' : Registered(x.policy)'
  BY <1>1, <1>6 DEF IInv, TableInv, Registered, registry
<1> QED
  BY <1>1, <1>2, <1>4, <1>5, <1>6, <1>7, SurroundingsKeep

-----------------------------------------------------------------------------
(* The theorems.                                                           *)

LEMMA Starts ==
  Init => IInv
<1> SUFFICES ASSUME Init PROVE IInv
  OBVIOUS
<1>1. RegistryTypeOK /\ RegistryInv
  BY RegistryStarts DEF Init
<1>2. TypeOK /\ DOMAIN release = Clients
  BY <1>1 DEF Init, TypeOK, Steps, Kinds, NoTxn, TxnStates
<1>3. TableInv
  BY DEF Init, TableInv, Docs
<1>4. ASSUME NEW p \in Clients PROVE Own(p)
  <2>1. step[p] = "start" /\ txn[p] = NoTxn /\ reply[p].kind = "none" /\ releases = {}
    BY <1>4 DEF Init
  <2> QED
    BY <2>1 DEF Own, CallInv, TxnInv, AnswerInv, Unprepared, Publishing, Proving, NoTxn
<1> QED
  BY <1>1, <1>2, <1>3, <1>4 DEF IInv, Own

\* One step of everybody: the invariant, and what becomes available.
LEMMA StepKeeps ==
  ASSUME IInv, [Next]_vars
  PROVE  /\ IInv'
         /\ \A d \in Docs(receipts)' \ Docs(receipts) : d \in Docs(releases)
<1>1. CASE UNCHANGED vars
  <2>1. UNCHANGED <<evidence, tables, caller, txn, registry, faults>>
    BY <1>1 DEF vars
  <2>2. TypeOK'
    BY <2>1 DEF IInv, TypeOK, RegistryTypeOK, evidence, caller, registry, registration
  <2>3. RegistryInv'
    BY <2>1 DEF IInv, RegistryInv, PendingInv, Pending, ValidPolicy, EpochRegistered, Registered,
         registry, registration
  <2>4. \A c \in sealed' : Registered(c.policy)'
    BY <2>1 DEF IInv, TableInv, Registered, evidence, registry
  <2>5. IInv'
    BY <2>1, <2>2, <2>3, <2>4, SurroundingsKeep DEF Complete, Registered, evidence, registry
  <2> QED
    BY <2>1, <2>5 DEF tables
<1>2. CASE RegistryNext
  BY <1>2, RegistryNextKeeps DEF RegistryNext, ForRegistry, tables
<1>3. CASE \E c \in Cohorts : SealCohort(c) \/ PublishOutcome(c)
  BY <1>3, CohortKeeps DEF SealCohort, PublishOutcome, tables
<1>4. ASSUME NEW p \in Clients,
             \/ ClientStep(p) \/ ReceiptAtOnce(p)
             \/ DatabaseError(p) \/ OutcomeUnknown(p) \/ MatchFails(p) \/ Crash(p)
             \/ ServerAbort(p)
      PROVE  IInv' /\ receipts' = receipts
  <2>1. receipts' = receipts
    BY <1>4 DEF ClientStep, Begin, BeginRead, Reload, Prepare, PublishSet, PublishRelease, SendCommit,
         ContentMatches, PublishReceipt, ReceiptVisible, ReadStored, Reproduce, ReceiptAtOnce,
         DatabaseError, OutcomeUnknown, MatchFails, Crash, ServerAbort, tables
  <2>2. CASE ClientStep(p)
    BY <2>1, <2>2, BeginKeeps, BeginReadKeeps, ReloadKeeps, PrepareKeeps, PublishSetKeeps,
       PublishReleaseKeeps, SendCommitKeeps, ContentMatchesKeeps, PublishReceiptKeeps,
       ReceiptVisibleKeeps, ReadStoredKeeps, ReproduceKeeps DEF ClientStep
  <2>3. CASE ~ ClientStep(p)
    BY <1>4, <2>1, <2>3, ReceiptAtOnceKeeps, RefusalKeeps, OutcomeUnknownKeeps, ServerAbortKeeps
  <2> QED
    BY <2>1, <2>2, <2>3
<1>5. ASSUME NEW p \in Clients, ServerCommit(p)
      PROVE  IInv' /\ \A d \in Docs(receipts)' \ Docs(receipts) : d \in Docs(releases)
  BY <1>5, ServerCommitKeeps
<1> QED
  BY <1>1, <1>2, <1>3, <1>4, <1>5 DEF Next

\* Type correctness, of the registry and of the release store.
THEOREM TypeCorrect == Spec => []TypeOK
<1>1. Init => IInv
  BY Starts
<1>2. IInv /\ [Next]_vars => IInv'
  BY StepKeeps
<1>3. IInv => TypeOK
  BY DEF IInv
<1> QED
  BY <1>1, <1>2, <1>3, PTL DEF Spec

\* The invariant that every step of register(), of publish(), of
\* read_validated() and of the server keeps.
THEOREM InvariantHolds == Spec => []IInv
<1>1. Init => IInv
  BY Starts
<1>2. IInv /\ [Next]_vars => IInv'
  BY StepKeeps
<1> QED
  BY <1>1, <1>2, PTL DEF Spec

\* However many clients register one policy at once, and whatever was lost on
\* the way, one registration exists and every proof names it; a registered
\* policy rests on a registered epoch with its lag and gives no day two
\* purposes (register() of both stores, stamp_forecast_selection_policy).
THEOREM RegistrationHolds == Spec => []RegistryHolds
<1>1. IInv => RegistryHolds
  <2> SUFFICES ASSUME IInv PROVE RegistryHolds
    OBVIOUS
  <2>1. \A r \in Clients : regReply[r].kind = "ok" =>
          Registered(asked[r]) /\ regReply[r].by = creator[asked[r]]
    BY DEF IInv, RegistryInv
  <2>2. ASSUME NEW q \in SelectionPolicies, Registered(q)
        PROVE  EpochRegistered(q) /\ (q.fit[1]..q.fit[2]) \cap (q.heldout[1]..q.heldout[2]) = {}
    <3>1. ValidPolicy(q) /\ EpochRegistered(q)
      BY <2>2 DEF IInv, RegistryInv, Policies
    <3>2. q.fit[2] < q.heldout[1]
      BY <3>1 DEF ValidPolicy, WindowsOrdered
    <3>3. q.fit[1] \in Int /\ q.fit[2] \in Int /\ q.heldout[1] \in Int /\ q.heldout[2] \in Int
      BY RegistryAssumption
    <3> QED
      BY <3>1, <3>2, <3>3
  <2> QED
    BY <2>1, <2>2 DEF RegistryHolds
<1> QED
  BY <1>1, InvariantHolds, PTL

\* Whatever is recorded is what the complete, disjoint source cohorts give,
\* and one fit exists for a cohort and method (publish(), migration 0015): no
\* stale, early or forged dataset takes a place in the append-only tables.
THEOREM RecordedReproducible == Spec => []RecordedIsReproducible
<1>1. IInv => RecordedIsReproducible
  <2> SUFFICES ASSUME IInv PROVE RecordedIsReproducible
    OBVIOUS
  <2>1. ASSUME NEW s \in Docs(sets)
        PROVE  Complete(s.cohort) /\ s = Fitted(s.cohort, s.method, s.cohort.members)
    BY DEF IInv, TableInv, SetSound, Reproduces
  <2>2. ASSUME NEW d \in Docs(releases)
        PROVE  /\ d.set \in Docs(sets) /\ Complete(d.heldout)
               /\ d = Measured(d.set, d.heldout, d.heldout.members, d.confidence)
               /\ Targets(d.set.cohort.members) \cap Targets(d.heldout.members) = {}
    BY DEF IInv, TableInv, ReleaseSound, Reproducible, Compatible, Disjoint, Exact
  <2> QED
    BY <2>1, <2>2 DEF RecordedIsReproducible
<1> QED
  BY <1>1, InvariantHolds, PTL

\* A proof rests on a release and a receipt that are durable; "unavailable"
\* while the content was published means that it is not recorded by the call
\* and never will be (commit_pending in _publish_content); and no honest
\* publisher meets a conflict or a corrupt release.
THEOREM AnswersAreKept == Spec => []AnswersHold
<1>1. IInv => AnswersHold
  <2> SUFFICES ASSUME IInv PROVE AnswersHold
    OBVIOUS
  <2>1. \A p \in Clients : AnswerInv(p)
    BY DEF IInv
  <2>2. ASSUME NEW p \in Clients, reply[p] = [kind |-> "unavailable", stage |-> "content"]
        PROVE  txn[p].state # "committing" /\ [doc |-> release[p], by |-> p] \notin releases
    <3>1. txn[p].state \in {"none", "doomed"} /\ \A r \in releases : r.by # p
      BY <2>1, <2>2 DEF AnswerInv
    <3>2. [doc |-> release[p], by |-> p].by = p
      OBVIOUS
    <3> QED
      BY <3>1, <3>2
  <2> QED
    BY <2>1, <2>2 DEF AnswersHold, EvidenceNeverConflicts, AnswerInv
<1> QED
  BY <1>1, InvariantHolds, PTL

\* A release becomes available only when everybody could already see it: no
\* step makes a receipt visible together with its release (the trigger of
\* migration 0015 and the two transactions of publish()).
THEOREM AvailableOnlyWhenVisible == Spec => AvailableAfterVisible
<1>1. IInv /\ [Next]_vars => [\A d \in Docs(receipts)' \ Docs(receipts) : d \in Docs(releases)]_vars
  BY StepKeeps
<1> QED
  BY <1>1, InvariantHolds, PTL DEF Spec, AvailableAfterVisible

-----------------------------------------------------------------------------
(* Induction and extrema.                                                  *)

\* Induction over the natural numbers, for a set that collects the numbers with the property.
LEMMA NatInduct ==
  ASSUME NEW T, 0 \in T, \A k \in Nat : k \in T => k + 1 \in T
  PROVE  Nat \subseteq T
<1> DEFINE Rest == Nat \ T
<1>1. SUFFICES ASSUME Rest # {} PROVE FALSE
  OBVIOUS
<1>2. PICK m \in Rest : \A n \in Rest : m <= n
  <2>1. Rest \subseteq Nat
    OBVIOUS
  <2> HIDE DEF Rest
  <2> QED
    BY <1>1, <2>1, LeastElement
<1>3. m # 0
  OBVIOUS
<1>4. m - 1 \in Nat /\ ~ (m - 1 \in Rest)
  BY <1>2, <1>3
<1> QED
  BY <1>4

\* A nonempty set of naturals up to N has the greatest element Max and the least one Min.
LEMMA MinOfNaturals ==
  ASSUME NEW S, S \subseteq Nat, S # {}
  PROVE  Min(S) \in S /\ Min(S) \in Nat /\ \A x \in S : Min(S) <= x
<1>1. \E m \in S : \A n \in S : m <= n
  BY LeastElement
<1>2. Min(S) \in S /\ \A x \in S : Min(S) <= x
  BY <1>1 DEF Min
<1> QED
  BY <1>2

LEMMA MaxOfNaturals ==
  ASSUME NEW N \in Nat, NEW S, S \subseteq 0..N, S # {}
  PROVE  Max(S) \in S /\ Max(S) \in Nat /\ \A x \in S : x <= Max(S)
<1> DEFINE T == {N - x : x \in S}
<1>1. T \subseteq Nat /\ T # {}
  <2>1. \A x \in S : N - x \in Nat
    OBVIOUS
  <2>2. PICK x \in S : TRUE
    OBVIOUS
  <2>3. N - x \in T
    OBVIOUS
  <2> QED
    BY <2>1, <2>3
<1>2. PICK m \in T : \A n \in T : m <= n
  <2> HIDE DEF T
  <2> QED
    BY <1>1, LeastElement
<1>3. PICK x \in S : m = N - x
  BY <1>2
<1>4. \A y \in S : x >= y
  <2>1. SUFFICES ASSUME NEW y \in S PROVE x >= y
    OBVIOUS
  <2>2. m <= N - y
    BY <1>2
  <2> QED
    BY <2>2, <1>3
<1>5. Max(S) \in S /\ \A y \in S : Max(S) >= y
  BY <1>4 DEF Max
<1> DEFINE M == Max(S)
<1> HIDE DEF M, T
<1>6. M \in S /\ \A y \in S : M >= y
  BY <1>5 DEF M
<1>7. M \in Nat /\ \A y \in S : y \in Nat
  BY <1>6
<1>8. \A y \in S : y <= M
  BY <1>6, <1>7
<1> QED
  BY <1>6, <1>7, <1>8 DEF M

-----------------------------------------------------------------------------
(* The pages of a walk.                                                    *)

LEMMA LaneSets ==
  /\ MaxDay \in Nat /\ 1 \in Sessions /\ FirstDay \in Nat
  /\ Sessions \subseteq Nat /\ Sessions \subseteq 0..MaxDay
  /\ \A S \in SUBSET Sessions : IsFiniteSet(S) /\ S \subseteq Nat /\ S \subseteq 0..MaxDay
<1>1. MaxDay \in Nat /\ Sessions \subseteq 1..MaxDay /\ 1 \in Sessions /\ FirstDay \in 1..MaxDay
  BY LaneAssumption DEF Days
<1>2. IsFiniteSet(1..MaxDay)
  BY <1>1, FS_Interval
<1>3. \A S \in SUBSET Sessions : IsFiniteSet(S)
  BY <1>1, <1>2, FS_Subset
<1> QED
  BY <1>1, <1>3

\* The n newest of a set: all of it, or at least n, and what is left out is older.
LEMMA NewestRows ==
  ASSUME NEW rows \in SUBSET Sessions, NEW n \in Nat
  PROVE  /\ Newest(n, rows) \subseteq rows
         /\ \A s \in rows \ Newest(n, rows), t \in Newest(n, rows) : s < t
         /\ Newest(n, rows) # rows => Cardinality(Newest(n, rows)) >= n
         /\ Cardinality(rows) <= n => Newest(n, rows) = rows
         /\ rows # {} /\ n > 0 => Newest(n, rows) # {}
<1> DEFINE After(s) == {t \in rows : t > s}
           New == Newest(n, rows)
<1>1. IsFiniteSet(rows) /\ rows \subseteq Nat /\ rows \subseteq 0..MaxDay
  BY LaneSets
<1>2. \A s \in rows : IsFiniteSet(After(s)) /\ Cardinality(After(s)) \in Nat
  BY <1>1, FS_Subset, FS_CardinalityType
<1>3. New = {s \in rows : Cardinality(After(s)) < n}
  BY DEF Newest
<1>4. New \subseteq rows /\ IsFiniteSet(New) /\ Cardinality(New) \in Nat
  BY <1>1, <1>3, FS_Subset, FS_CardinalityType
<1>5. ASSUME NEW s \in rows, NEW t \in rows, s >= t
      PROVE  Cardinality(After(s)) <= Cardinality(After(t))
  <2>1. \A x \in rows : x > s => x > t
    BY <1>1, <1>5
  <2>2. After(s) \subseteq After(t)
    BY <2>1
  <2> QED
    BY <2>2, <1>2, FS_Subset
<1>6. \A s \in rows \ New, t \in New : s < t
  <2>1. SUFFICES ASSUME NEW s \in rows \ New, NEW t \in New, ~ (s < t) PROVE FALSE
    OBVIOUS
  <2>2. s \in Nat /\ t \in Nat /\ t \in rows
    BY <1>1, <1>4
  <2>3. Cardinality(After(s)) <= Cardinality(After(t))
    BY <1>5, <2>1, <2>2
  <2>4. Cardinality(After(t)) < n /\ ~ (Cardinality(After(s)) < n)
    BY <1>3, <2>1
  <2> QED
    BY <2>2, <2>3, <2>4, <1>2
<1>7. New # rows => Cardinality(New) >= n
  <2>1. SUFFICES ASSUME rows \ New # {} PROVE Cardinality(New) >= n
    BY <1>4
  <2>2. PICK s \in rows \ New : \A x \in rows \ New : x <= s
    <3>1. rows \ New \subseteq 0..MaxDay
      BY <1>1
    <3> HIDE DEF New
    <3> QED
      BY <2>1, <3>1, LaneSets, MaxOfNaturals
  <2>3. \A x \in rows : x > s => x \in New
    BY <2>2, <1>1
  <2>x. After(s) \subseteq New
    BY <2>3
  <2>4. Cardinality(After(s)) <= Cardinality(New)
    BY <2>x, <1>4, FS_Subset
  <2>5. ~ (Cardinality(After(s)) < n)
    BY <2>2, <1>3
  <2> QED
    BY <2>4, <2>5, <1>2, <1>4
<1>8. Cardinality(rows) <= n => New = rows
  <2>1. SUFFICES ASSUME Cardinality(rows) <= n, NEW s \in rows PROVE Cardinality(After(s)) < n
    BY <1>3
  <2>2. After(s) \in SUBSET (rows \ {s})
    BY <1>1
  <2>3. IsFiniteSet(rows \ {s}) /\ Cardinality(rows \ {s}) = Cardinality(rows) - 1
    BY <1>1, FS_RemoveElement
  <2>4. Cardinality(After(s)) <= Cardinality(rows \ {s})
    BY <2>2, <2>3, FS_Subset
  <2>5. Cardinality(rows) \in Nat
    BY <1>1, FS_CardinalityType
  <2> QED
    BY <2>1, <2>3, <2>4, <2>5, <1>2, <1>1
<1>9. rows # {} /\ n > 0 => New # {}
  <2>1. SUFFICES ASSUME rows # {}, n > 0, New = {} PROVE FALSE
    OBVIOUS
  <2>2. Cardinality(New) = 0
    BY <2>1, FS_EmptySet
  <2> QED
    BY <2>1, <2>2, <1>7
<1> QED
  BY <1>4, <1>6, <1>7, <1>8, <1>9

\* A page and what is left of the walk after it.
LEMMA PageOwes ==
  ASSUME NEW cursor, NEW owed, owed \subseteq stored, \A s \in owed : s < cursor,
         stored \subseteq Sessions
  PROVE  LET rows == Newest(PageLimit + 1, {s \in stored : s < cursor})
             page == Newest(PageLimit, rows)
             more == Cardinality(rows) > PageLimit
         IN /\ page \subseteq stored /\ \A s \in page : s < cursor
            /\ more => /\ NextEnd(rows) = Min(page) /\ Min(page) \in Int
                       /\ \A s \in owed \ page : s < Min(page)
            /\ ~ more => owed \subseteq page
<1> DEFINE older == {s \in stored : s < cursor}
           rows == Newest(PageLimit + 1, older)
           page == Newest(PageLimit, rows)
<1>1. PageLimit \in Nat /\ PageLimit > 0 /\ PageLimit + 1 \in Nat
  BY LaneAssumption
<1>2. older \in SUBSET Sessions /\ older \subseteq Nat /\ owed \subseteq older
  BY LaneSets
<1> HIDE DEF older
<1>3. /\ rows \subseteq older
      /\ \A s \in older \ rows, t \in rows : s < t
      /\ rows # older => Cardinality(rows) >= PageLimit + 1
  BY <1>1, <1>2, NewestRows
<1>4. rows \in SUBSET Sessions /\ IsFiniteSet(rows) /\ Cardinality(rows) \in Nat
  BY <1>2, <1>3, LaneSets, FS_CardinalityType
<1> HIDE DEF rows
<1>5. /\ page \subseteq rows
      /\ \A s \in rows \ page, t \in page : s < t
      /\ Cardinality(rows) <= PageLimit => page = rows
      /\ rows # {} => page # {}
  BY <1>1, <1>4, NewestRows
<1> HIDE DEF page
<1>6. page \subseteq stored /\ \A s \in page : s < cursor
  BY <1>3, <1>5 DEF older
<1>7. ASSUME Cardinality(rows) > PageLimit
      PROVE  Min(page) \in page /\ Min(page) \in Int /\ \A s \in owed \ page : s < Min(page)
  <2>1. rows # {}
    BY <1>7, <1>1, FS_EmptySet
  <2>2. page # {} /\ page \subseteq Nat
    BY <2>1, <1>2, <1>3, <1>5
  <2>3. Min(page) \in page /\ Min(page) \in Nat
    BY <2>2, MinOfNaturals
  <2>4. Min(page) \in rows /\ Min(page) \in Int
    <3>1. page \subseteq rows
      BY <1>5
    <3> QED
      BY <2>3, <3>1
  <2>5. ASSUME NEW s \in owed \ page PROVE s < Min(page)
    <3>1. CASE s \in rows
      BY <3>1, <2>3, <1>5
    <3>2. CASE s \notin rows
      BY <3>2, <2>4, <1>2, <1>3
    <3> QED
      BY <3>1, <3>2
  <2> QED
    BY <2>3, <2>4, <2>5
<1>8. ASSUME ~ (Cardinality(rows) > PageLimit)
      PROVE  owed \subseteq page
  BY <1>8, <1>1, <1>2, <1>3, <1>4, <1>5
<1>9. NextEnd(rows) = Min(page)
  BY DEF NextEnd, page
<1> QED
  BY <1>6, <1>7, <1>8, <1>9 DEF older, rows, page

-----------------------------------------------------------------------------
(* The lane: types and the walk.                                           *)

\* What a walk still owes is stored and older than its cursor.
WalkInv ==
  /\ reader.owed \subseteq stored /\ reader.descends
  /\ reader.open => reader.last = reader.cursor /\ \A s \in reader.owed : s < reader.cursor
  /\ ~ reader.open => reader.owed = {}

\* There is a completed session, so that the default end exists.
EndInv == 1 \in Completed

LaneInv == LaneTypeOK /\ EndInv /\ WalkInv

LEMMA LaneStarts == LaneInit => LaneInv
<1> SUFFICES ASSUME LaneInit PROVE LaneInv
  OBVIOUS
<1>0. /\ MaxDay \in Nat \ {0} /\ Sessions \subseteq 1..MaxDay /\ 1 \in Sessions
      /\ FirstDay \in 1..MaxDay
  BY LaneAssumption DEF Days
<1>1. LaneTypeOK
  BY <1>0 DEF LaneInit, LaneTypeOK, Idle, NoWalk, Days
<1>2. EndInv
  <2>1. CASE FirstDay = 1
    BY <2>1, <1>0 DEF LaneInit, EndInv, Completed
  <2>2. CASE FirstDay # 1
    <3>1. 1 < FirstDay
      BY <2>2, <1>0
    <3> QED
      BY <3>1, <1>0 DEF LaneInit, EndInv, Completed
  <2> QED
    BY <2>1, <2>2
<1>3. WalkInv
  BY DEF LaneInit, WalkInv, NoWalk
<1> QED
  BY <1>1, <1>2, <1>3 DEF LaneInv

\* The window a task resolves has whole days as its ends.
LEMMA WindowTyped ==
  ASSUME LaneInv
  PROVE  /\ DefaultEnd \in Int
         /\ FetchStart(DefaultEnd - Lookback, DefaultEnd) \in Int
<1>1. Completed \subseteq 0..MaxDay /\ Completed # {}
  BY LaneSets DEF LaneInv, EndInv, Completed
<1>2. Max(Completed) \in Nat
  BY <1>1, LaneSets, MaxOfNaturals
<1>3. DefaultEnd \in Int
  <2>1. Max(Completed) \in Int
    BY <1>1, <1>2
  <2>2. day \in Int
    BY LaneSets DEF LaneInv, LaneTypeOK, Days
  <2> QED
    BY <2>1, <2>2 DEF DefaultEnd, LatestCompleted
<1>4. Lookback \in Nat /\ Overlap \in Nat
  BY LaneAssumption
<1> DEFINE end == DefaultEnd
           requested == end - Lookback
<1>5. requested \in Int
  BY <1>3, <1>4
<1>6. EffectiveStart(requested, end) \in Int
  <2>1. CASE stored = {}
    BY <2>1, <1>5 DEF EffectiveStart
  <2>2. CASE stored # {}
    <3>1. stored \subseteq Sessions /\ Sessions \subseteq 0..MaxDay /\ MaxDay \in Nat
      BY LaneSets DEF LaneInv, LaneTypeOK
    <3>2. Max(stored) \in Int
      <4>1. stored \subseteq 0..MaxDay
        BY <3>1
      <4>2. Max(stored) \in Nat
        BY <4>1, <3>1, <2>2, MaxOfNaturals
      <4> QED
        BY <4>2
    <3>3. \A a, b \in Int : Min({a, b}) \in Int
      <4>1. SUFFICES ASSUME NEW a \in Int, NEW b \in Int PROVE Min({a, b}) \in Int
        OBVIOUS
      <4>2. \E x \in {a, b} : \A y \in {a, b} : x <= y
        OBVIOUS
      <4> QED
        BY <4>2 DEF Min
    <3>4. end - Overlap \in Int /\ Max(stored) + 1 \in Int
      BY <1>3, <1>4, <3>2
    <3> HIDE DEF end, requested
    <3> QED
      BY <3>3, <3>4, <2>2 DEF EffectiveStart
  <2> QED
    BY <2>1, <2>2
<1>7. MissingSessions(requested, end) # {} => Min(MissingSessions(requested, end)) \in Int
  <2>1. MissingSessions(requested, end) \subseteq Nat
    BY LaneSets DEF MissingSessions
  <2> HIDE DEF requested, end
  <2> QED
    BY <2>1, MinOfNaturals
<1> QED
  BY <1>3, <1>6, <1>7 DEF FetchStart

LEMMA LaneKeeps == LaneInv /\ [LaneNext]_laneVars => LaneInv'
<1> SUFFICES ASSUME LaneInv, [LaneNext]_laneVars PROVE LaneInv'
  OBVIOUS
<1> USE DEF LaneInv
<1>0. /\ MaxDay \in Nat \ {0} /\ Sessions \subseteq 1..MaxDay /\ 1 \in Sessions /\ PageLimit \in Nat
  BY LaneAssumption DEF Days
<1>1. CASE NextDay
  <2>1. LaneTypeOK'
    <3>1. day' = day + 1 /\ day < MaxDay /\ day \in 1..MaxDay /\ closed' = FALSE
      BY <1>1 DEF NextDay, LaneTypeOK, Days
    <3>2. day' \in Days
      BY <3>1, <1>0 DEF Days
    <3> QED
      BY <3>1, <3>2, <1>1 DEF NextDay, LaneTypeOK
  <2>2. EndInv'
    BY <1>1, <1>0 DEF NextDay, EndInv, Completed, LaneTypeOK, Days
  <2> QED
    BY <2>1, <2>2, <1>1 DEF NextDay, WalkInv
<1>2. CASE MarketCloses
  BY <1>2, <1>0 DEF MarketCloses, LaneTypeOK, EndInv, Completed, WalkInv
<1>3. ASSUME NEW s \in Sessions, VendorPublishes(s) PROVE LaneInv'
  BY <1>3 DEF VendorPublishes, LaneTypeOK, EndInv, Completed, WalkInv
<1>4. CASE OtherTakes \/ OtherReleases
  BY <1>4 DEF OtherTakes, OtherReleases, LaneTypeOK, EndInv, Completed, WalkInv
<1>5. ASSUME NEW start \in Int, NEW end \in Int, BeginTask(start, end) PROVE LaneInv'
  BY <1>5 DEF BeginTask, LaneTypeOK, EndInv, Completed, WalkInv
<1>6. CASE Scheduled
  BY <1>6, <1>5, WindowTyped, LaneAssumption DEF Scheduled
<1>7. CASE Manual
  BY <1>7, <1>5, <1>0 DEF Manual
<1>8. CASE Ask
  <2>1. Wanted \cap offered \in SUBSET Sessions
    BY DEF Wanted
  <2>2. task' = [phase |-> "storing", start |-> 0, end |-> 0, batch |-> Wanted \cap offered]
    BY <1>8 DEF Ask, Idle
  <2>3. LaneTypeOK'
    BY <2>1, <2>2, <1>8 DEF Ask, LaneTypeOK
  <2> QED
    BY <2>3, <1>8 DEF Ask, EndInv, Completed, WalkInv
<1>9. CASE Unanswered \/ TaskFails
  BY <1>9 DEF Unanswered, TaskFails, Ends, Idle, LaneTypeOK, EndInv, Completed, WalkInv
<1>10. CASE Store
  BY <1>10 DEF Store, Ends, Idle, LaneTypeOK, EndInv, Completed, WalkInv
<1>11. ASSUME NEW cursor, NEW owed, NEW last, owed \subseteq stored, \A s \in owed : s < cursor,
              last = cursor, ReadPage(cursor, owed, last, TRUE),
              UNCHANGED <<lane, day, closed, offered, stored, task, lock, failures>>
       PROVE  LaneInv'
  <2> DEFINE rows == Newest(PageLimit + 1, {s \in stored : s < cursor})
             page == Newest(PageLimit, rows)
             more == Cardinality(rows) > PageLimit
  <2>1. stored \subseteq Sessions
    BY DEF LaneTypeOK
  <2>2. /\ page \subseteq stored /\ \A s \in page : s < cursor
        /\ more => /\ NextEnd(rows) = Min(page) /\ Min(page) \in Int
                   /\ \A s \in owed \ page : s < Min(page)
        /\ ~ more => owed \subseteq page
    BY <2>1, <1>11, PageOwes
  <2>3. reader' = [open |-> more, owed |-> owed \ page,
                   cursor |-> IF more THEN NextEnd(rows) ELSE 0,
                   last |-> IF more THEN Min(page) ELSE 0,
                   descends |-> TRUE /\ \A s \in page : s < last]
    BY <1>11 DEF ReadPage
  <2> HIDE DEF rows, page, more
  <2>4. more \in BOOLEAN
    BY DEF more
  <2>5. LaneTypeOK'
    BY <2>1, <2>2, <2>3, <2>4, <1>11 DEF LaneTypeOK
  <2>6. WalkInv'
    BY <2>2, <2>3, <2>4, <1>11 DEF WalkInv
  <2> QED
    BY <2>5, <2>6, <1>11 DEF EndInv, Completed
<1>12. CASE StartWalk
  <2>1. \A s \in stored : s < MaxDay + 1
    BY <1>0 DEF LaneTypeOK
  <2> QED
    BY <2>1, <1>11, <1>12 DEF StartWalk
<1>13. CASE FollowWalk
  BY <1>11, <1>13 DEF FollowWalk, WalkInv
<1>14. CASE UNCHANGED laneVars
  BY <1>14 DEF laneVars, LaneTypeOK, EndInv, Completed, WalkInv
<1> QED
  BY <1>1, <1>2, <1>3, <1>4, <1>6, <1>7, <1>8, <1>9, <1>10, <1>12, <1>13, <1>14 DEF LaneNext

\* The tasks resolve whole windows whatever lane, vendor and clients do, and the
\* fields of task, lock and walk have their types.
THEOREM LaneTyped == LaneSpec => []LaneTypeOK
<1>1. LaneInv => LaneTypeOK
  BY DEF LaneInv
<1> QED
  BY <1>1, LaneStarts, LaneKeeps, PTL DEF LaneSpec

\* The pages of read_prices (prices.py:12): however ingestion repairs and extends
\* the lane between the pages, a finished walk has returned every bar that was
\* stored when it began, and no page repeats a session of an earlier one.
THEOREM WalksAreComplete == LaneSpec => []WalkComplete
<1>1. LaneInv => WalkComplete
  BY DEF LaneInv, WalkInv, WalkComplete
<1> QED
  BY <1>1, LaneStarts, LaneKeeps, PTL DEF LaneSpec

-----------------------------------------------------------------------------
(* Recursive functions.                                                    *)

\* g starts with start and follows turn up to k.
Iterates(g, start, turn, k) ==
  g[0] = start /\ \A i \in 1..k : g[i] = turn[i][g[i - 1]]

\* So does a sequence over all numbers.
Follows(g, start, turn) ==
  g[0] = start /\ \A i \in Nat \ {0} : g[i] = turn[i][g[i - 1]]

\* Steps given for all positive numbers define a sequence over all numbers.
LEMMA Iteration ==
  ASSUME NEW V, NEW start \in V, NEW turn \in [Nat -> [V -> V]]
  PROVE  \E g \in [Nat -> V] : Follows(g, start, turn)
<1> DEFINE Good(g, k) == Iterates(g, start, turn, k)
           Has == {k \in Nat : \E g \in [0..k -> V] : Good(g, k)}
<1>1. Nat \subseteq Has
  <2>1. 0 \in Has
    <3> DEFINE g == [i \in 0..0 |-> start]
    <3>1. g \in [0..0 -> V] /\ Good(g, 0)
      BY DEF Iterates
    <3> QED
      BY <3>1
  <2>2. ASSUME NEW k \in Nat, k \in Has PROVE k + 1 \in Has
    <3>1. PICK g \in [0..k -> V] : Good(g, k)
      BY <2>2
    <3> DEFINE h == [i \in 0..(k + 1) |-> IF i = k + 1 THEN turn[k + 1][g[k]] ELSE g[i]]
    <3>2. h \in [0..(k + 1) -> V]
      <4>1. turn[k + 1][g[k]] \in V
        OBVIOUS
      <4>2. \A i \in 0..(k + 1) : i # k + 1 => i \in 0..k
        OBVIOUS
      <4> QED
        BY <4>1, <4>2
    <3>3. h[0] = start
      BY <3>1 DEF Iterates
    <3>4. ASSUME NEW i \in 1..(k + 1) PROVE h[i] = turn[i][h[i - 1]]
      <4>1. i - 1 \in 0..(k + 1) /\ i - 1 # k + 1
        OBVIOUS
      <4>2. h[i - 1] = g[i - 1]
        BY <4>1
      <4>3. CASE i = k + 1
        BY <4>2, <4>3
      <4>4. CASE i # k + 1
        <5>1. i \in 1..k
          BY <4>4
        <5>2. g[i] = turn[i][g[i - 1]]
          BY <5>1, <3>1 DEF Iterates
        <5> QED
          BY <4>2, <4>4, <5>2
      <4> QED
        BY <4>3, <4>4
    <3> HIDE DEF h
    <3>5. Good(h, k + 1)
      BY <3>3, <3>4 DEF Iterates
    <3> QED
      BY <3>2, <3>5
  <2> HIDE DEF Has
  <2> QED
    BY <2>1, <2>2, NatInduct
<1> DEFINE Agree == {i \in Nat : \A k, m \in Nat : \A g \in [0..k -> V], h \in [0..m -> V] :
                       Good(g, k) /\ Good(h, m) /\ i <= k /\ i <= m => g[i] = h[i]}
<1>2. Nat \subseteq Agree
  <2>1. 0 \in Agree
    BY DEF Iterates
  <2>2. ASSUME NEW i \in Nat, i \in Agree PROVE i + 1 \in Agree
    <3>1. SUFFICES ASSUME NEW k \in Nat, NEW m \in Nat, NEW g \in [0..k -> V], NEW h \in [0..m -> V],
                          Good(g, k), Good(h, m), i + 1 <= k, i + 1 <= m
                   PROVE  g[i + 1] = h[i + 1]
      OBVIOUS
    <3>2. g[i] = h[i]
      <4>1. i <= k /\ i <= m
        BY <3>1
      <4> QED
        BY <4>1, <3>1, <2>2
    <3>3. i + 1 \in 1..k /\ i + 1 \in 1..m /\ (i + 1) - 1 = i
      BY <3>1
    <3>4. g[i + 1] = turn[i + 1][g[i]] /\ h[i + 1] = turn[i + 1][h[i]]
      BY <3>1, <3>3 DEF Iterates
    <3> QED
      BY <3>2, <3>4
  <2> HIDE DEF Agree
  <2> QED
    BY <2>1, <2>2, NatInduct
<1> DEFINE G(k) == CHOOSE g \in [0..k -> V] : Good(g, k)
           f == [k \in Nat |-> G(k)[k]]
<1>3. ASSUME NEW k \in Nat PROVE G(k) \in [0..k -> V] /\ Good(G(k), k)
  <2>1. \E g \in [0..k -> V] : Good(g, k)
    BY <1>1
  <2> HIDE DEF Good
  <2> QED
    BY <2>1
<1> HIDE DEF G, Has
<1>4. f \in [Nat -> V]
  <2>1. ASSUME NEW k \in Nat PROVE G(k)[k] \in V
    <3>1. k \in 0..k
      OBVIOUS
    <3> QED
      BY <3>1, <1>3
  <2> QED
    BY <2>1
<1>5. f[0] = start
  <2>1. Good(G(0), 0)
    BY <1>3
  <2> QED
    BY <2>1 DEF Iterates
<1>6. ASSUME NEW i \in Nat \ {0} PROVE f[i] = turn[i][f[i - 1]]
  <2>1. i \in Nat /\ i - 1 \in Nat /\ i \in 1..i /\ i - 1 <= i /\ i - 1 <= i - 1
    OBVIOUS
  <2>2. G(i)[i] = turn[i][G(i)[i - 1]]
    <3>1. Good(G(i), i)
      BY <1>3, <2>1
    <3> QED
      BY <3>1, <2>1 DEF Iterates
  <2>3. G(i)[i - 1] = G(i - 1)[i - 1]
    <3>1. G(i) \in [0..i -> V] /\ Good(G(i), i) /\ G(i - 1) \in [0..(i - 1) -> V] /\ Good(G(i - 1), i - 1)
      BY <1>3, <2>1
    <3>2. i - 1 \in Agree
      BY <1>2, <2>1
    <3> HIDE DEF Good
    <3> QED
      BY <3>1, <3>2, <2>1
  <2> QED
    BY <2>1, <2>2, <2>3
<1> HIDE DEF f
<1> QED
  BY <1>4, <1>5, <1>6 DEF Follows

\* The same for the steps up to n.
LEMMA FiniteIteration ==
  ASSUME NEW n \in Nat, NEW V, NEW start \in V, NEW turn \in [1..n -> [V -> V]]
  PROVE  \E g \in [0..n -> V] : Iterates(g, start, turn, n)
<1> DEFINE more == [i \in Nat |-> IF i \in 1..n THEN turn[i] ELSE [v \in V |-> v]]
<1>1. more \in [Nat -> [V -> V]]
  OBVIOUS
<1> HIDE DEF more
<1>2. PICK g \in [Nat -> V] : Follows(g, start, more)
  BY <1>1, Iteration
<1> DEFINE h == [i \in 0..n |-> g[i]]
<1>3. h \in [0..n -> V] /\ h[0] = start
  BY <1>2 DEF Follows
<1>4. ASSUME NEW i \in 1..n PROVE h[i] = turn[i][h[i - 1]]
  <2>1. i \in Nat \ {0} /\ i \in 0..n /\ i - 1 \in 0..n
    OBVIOUS
  <2>2. g[i] = more[i][g[i - 1]] /\ more[i] = turn[i]
    BY <2>1, <1>2 DEF Follows, more
  <2> QED
    BY <2>1, <2>2
<1> HIDE DEF h
<1> QED
  BY <1>3, <1>4 DEF Iterates

-----------------------------------------------------------------------------
(* Powers of ten and digits.                                               *)

LEMMA PowerFacts ==
  /\ Power \in [Nat -> Nat] /\ Power[0] = 1
  /\ \A k \in Nat : Power[k + 1] = 10 * Power[k]
<1> DEFINE tenfold == [i \in Nat |-> [v \in Nat |-> 10 * v]]
<1>1. tenfold \in [Nat -> [Nat -> Nat]]
  OBVIOUS
<1> HIDE DEF tenfold
<1>2. PICK g \in [Nat -> Nat] : Follows(g, 1, tenfold)
  BY <1>1, Iteration
<1>3. g[0] = 1 /\ \A i \in Nat \ {0} : g[i] = 10 * g[i - 1]
  <2>1. ASSUME NEW i \in Nat \ {0} PROVE g[i] = 10 * g[i - 1]
    <3>1. g[i] = tenfold[i][g[i - 1]] /\ g[i - 1] \in Nat
      BY <1>2 DEF Follows
    <3> QED
      BY <3>1 DEF tenfold
  <2> QED
    BY <2>1, <1>2 DEF Follows
<1>4. g = [k \in Nat |-> IF k = 0 THEN 1 ELSE 10 * g[k - 1]]
  BY <1>3
<1>5. Power = [k \in Nat |-> IF k = 0 THEN 1 ELSE 10 * Power[k - 1]]
  BY <1>4 DEF Power
<1> DEFINE One1 == {k \in Nat : Power[k] \in Nat}
<1>6. Nat \subseteq One1
  <2>1. 0 \in One1
    BY <1>5
  <2>2. ASSUME NEW k \in Nat, k \in One1 PROVE k + 1 \in One1
    <3>1. Power[k + 1] = 10 * Power[k]
      BY <1>5
    <3> QED
      BY <2>2, <3>1
  <2> HIDE DEF One1
  <2> QED
    BY <2>1, <2>2, NatInduct
<1>7. Power \in [Nat -> Nat]
  BY <1>5, <1>6
<1>8. \A k \in Nat : Power[k + 1] = 10 * Power[k]
  BY <1>5
<1> QED
  BY <1>5, <1>7, <1>8

LEMMA PowerExceeds == \A k \in Nat : Power[k] \in Nat /\ Power[k] > k
<1> DEFINE T == {k \in Nat : Power[k] > k}
<1>1. 0 \in T
  BY PowerFacts
<1>2. ASSUME NEW k \in Nat, k \in T PROVE k + 1 \in T
  BY <1>2, PowerFacts
<1>3. Nat \subseteq T
  <2> HIDE DEF T
  <2> QED
    BY <1>1, <1>2, NatInduct
<1> QED
  BY <1>3, PowerFacts

LEMMA PowerOfSum == \A j, k \in Nat : Power[j + k] = Power[j] * Power[k]
<1> SUFFICES ASSUME NEW j \in Nat PROVE \A k \in Nat : Power[j + k] = Power[j] * Power[k]
  OBVIOUS
<1> DEFINE T == {k \in Nat : Power[j + k] = Power[j] * Power[k]}
<1>0. Power[j] \in Nat
  BY PowerFacts
<1>1. 0 \in T
  BY <1>0, PowerFacts
<1>2. ASSUME NEW k \in Nat, k \in T PROVE k + 1 \in T
  <2>1. Power[j + (k + 1)] = 10 * Power[j + k] /\ Power[k + 1] = 10 * Power[k] /\ Power[k] \in Nat
    <3>1. j + k \in Nat /\ j + (k + 1) = (j + k) + 1
      OBVIOUS
    <3> QED
      BY <3>1, PowerFacts
  <2>2. \A a, b \in Nat : 10 * (a * b) = a * (10 * b)
    BY SMT
  <2>3. Power[j + k] = Power[j] * Power[k]
    BY <1>2
  <2>4. 10 * (Power[j] * Power[k]) = Power[j] * (10 * Power[k])
    BY <2>1, <2>2, <1>0
  <2> QED
    BY <2>1, <2>3, <2>4
<1>3. Nat \subseteq T
  <2> HIDE DEF T
  <2> QED
    BY <1>1, <1>2, NatInduct
<1> QED
  BY <1>3

\* Products of natural numbers.
LEMMA ProductOrder ==
  /\ \A a, b, c \in Nat : a <= b => a * c <= b * c
  /\ \A a, b, c \in Nat : c > 0 /\ a < b => a * c < b * c
  /\ \A a, b, c \in Nat : c > 0 /\ a * c <= b * c => a <= b
  /\ \A a, b, c \in Nat : c > 0 /\ a * c < b * c => a < b
  /\ \A a, b, c \in Nat : c > 0 /\ a * c = b * c => a = b
<1>1. \A a, b, c \in Nat : a <= b => a * c <= b * c
  BY Z3
<1>2. \A a, b, c \in Nat : c > 0 /\ a < b => a * c < b * c
  BY Z3
<1>3. \A a, b, c \in Nat : c > 0 /\ a * c <= b * c => a <= b
  <2>1. SUFFICES ASSUME NEW a \in Nat, NEW b \in Nat, NEW c \in Nat, c > 0, a * c <= b * c, b < a
                 PROVE  FALSE
    OBVIOUS
  <2>2. b * c < a * c /\ a * c \in Nat /\ b * c \in Nat
    BY <2>1, <1>2
  <2> QED
    BY <2>1, <2>2
<1>4. \A a, b, c \in Nat : c > 0 /\ a * c < b * c => a < b
  <2>1. SUFFICES ASSUME NEW a \in Nat, NEW b \in Nat, NEW c \in Nat, c > 0, a * c < b * c, b <= a
                 PROVE  FALSE
    OBVIOUS
  <2>2. b * c <= a * c /\ a * c \in Nat /\ b * c \in Nat
    BY <2>1, <1>1
  <2> QED
    BY <2>1, <2>2
<1>5. \A a, b, c \in Nat : c > 0 /\ a * c = b * c => a = b
  <2>1. SUFFICES ASSUME NEW a \in Nat, NEW b \in Nat, NEW c \in Nat, c > 0, a * c = b * c
                 PROVE  a <= b /\ b <= a
    OBVIOUS
  <2>2. a * c \in Nat /\ b * c \in Nat
    OBVIOUS
  <2> QED
    BY <2>1, <2>2, <1>3
<1> QED
  BY <1>1, <1>2, <1>3, <1>4, <1>5

LEMMA PowerGrows ==
  \A j, k \in Nat : (j <= k => Power[j] <= Power[k]) /\ (j < k => 10 * Power[j] <= Power[k])
<1>1. ASSUME NEW j \in Nat, NEW k \in Nat, j <= k PROVE Power[j] <= Power[k]
  <2>1. k - j \in Nat /\ k = (k - j) + j
    BY <1>1
  <2>2. Power[k] = Power[k - j] * Power[j]
    BY <2>1, PowerOfSum
  <2>3. Power[k - j] \in Nat /\ 1 <= Power[k - j] /\ Power[j] \in Nat
    BY <2>1, PowerExceeds
  <2>4. 1 * Power[j] <= Power[k - j] * Power[j]
    BY <2>3, ProductOrder
  <2> QED
    BY <2>2, <2>3, <2>4
<1>2. ASSUME NEW j \in Nat, NEW k \in Nat, j < k PROVE 10 * Power[j] <= Power[k]
  <2>1. j + 1 \in Nat /\ j + 1 <= k
    BY <1>2
  <2>2. Power[j + 1] <= Power[k]
    BY <2>1, <1>1
  <2> QED
    BY <2>2, PowerFacts
<1> QED
  BY <1>1, <1>2

Positive == Nat \ {0}

\* The number of digits of c, and that there is no other number with its property.
LEMMA DigitsFacts ==
  ASSUME NEW c \in Positive
  PROVE  /\ Digits(c) \in Positive /\ Digits(c) - 1 \in Nat
         /\ Power[Digits(c) - 1] <= c /\ c < Power[Digits(c)]
         /\ \A k \in Positive : Power[k - 1] <= c /\ c < Power[k] => k = Digits(c)
<1> DEFINE T == {k \in Nat : c < Power[k]}
<1>1. c \in T /\ T \subseteq Nat
  BY PowerExceeds DEF Positive
<1>2. PICK m \in T : \A n \in T : m <= n
  <2> HIDE DEF T
  <2> QED
    BY <1>1, LeastElement
<1>3. m # 0 /\ m <= c /\ m \in Nat
  BY <1>1, <1>2, PowerFacts DEF Positive
<1>4. m - 1 \in Nat /\ ~ (m - 1 \in T)
  BY <1>2, <1>3
<1>5. Power[m - 1] <= c
  BY <1>4, PowerFacts DEF Positive
<1>6. m \in 1..c /\ c < Power[m]
  BY <1>2, <1>3 DEF Positive
<1> DEFINE d == Digits(c)
<1>7. d \in 1..c /\ Power[d - 1] <= c /\ c < Power[d]
  BY <1>5, <1>6 DEF Digits
<1>8. d \in Positive /\ d - 1 \in Nat
  BY <1>7 DEF Positive
<1> HIDE DEF d
<1>9. ASSUME NEW k \in Positive, Power[k - 1] <= c, c < Power[k] PROVE k = d
  <2>1. k \in Nat /\ k - 1 \in Nat /\ d \in Nat
    BY <1>8 DEF Positive
  <2>2. CASE k < d
    <3>1. Power[k] <= Power[d - 1]
      BY <2>1, <2>2, <1>8, PowerGrows
    <3> QED
      BY <3>1, <2>1, <1>7, <1>8, <1>9, PowerFacts DEF Positive
  <2>3. CASE d < k
    <3>1. Power[d] <= Power[k - 1]
      BY <2>1, <2>3, <1>8, PowerGrows
    <3> QED
      BY <3>1, <2>1, <1>7, <1>8, <1>9, PowerFacts DEF Positive
  <2> QED
    BY <2>1, <2>2, <2>3
<1> QED
  BY <1>7, <1>8, <1>9 DEF d

-----------------------------------------------------------------------------
(* Division, and the normal form of a decimal.                             *)

LEMMA DivisionFacts ==
  ASSUME NEW a \in Nat, NEW b \in Positive
  PROVE  /\ a \div b \in Nat /\ a % b \in Nat /\ a % b < b
         /\ a = (a \div b) * b + (a % b)
<1>1. b \in Nat /\ b > 0
  BY DEF Positive
<1>2. a \div b \in Int /\ a % b \in Int
  BY <1>1
<1>3. a = b * (a \div b) + (a % b) /\ 0 <= a % b /\ a % b < b
  BY <1>1, Z3
<1>4. 0 <= a \div b
  BY <1>1, Z3
<1> QED
  BY <1>1, <1>2, <1>3, <1>4

LEMMA DivisionUnique ==
  ASSUME NEW b \in Positive, NEW q \in Nat, NEW r \in Nat, r < b
  PROVE  (q * b + r) \div b = q /\ (q * b + r) % b = r
<1> DEFINE a == q * b + r
           Q == a \div b
           R == a % b
<1>0. b \in Nat /\ b > 0 /\ q * b \in Nat
  BY DEF Positive
<1>1. a \in Nat
  BY <1>0
<1> HIDE DEF a
<1>2. Q \in Nat /\ R \in Nat /\ R < b /\ a = Q * b + R
  BY <1>1, DivisionFacts
<1> HIDE DEF Q, R
<1>3. Q * b \in Nat /\ q * b + r = Q * b + R
  BY <1>2, <1>0 DEF a
<1>4. ASSUME NEW x \in Nat, NEW y \in Nat, NEW u \in Nat, NEW v \in Nat, u < b, v < b, x < y,
             x * b + u = y * b + v
      PROVE  FALSE
  <2>1. (x + 1) * b <= y * b
    <3>1. x + 1 \in Nat /\ x + 1 <= y
      BY <1>4
    <3> QED
      BY <3>1, <1>0, ProductOrder
  <2>2. (x + 1) * b = x * b + b
    BY <1>0
  <2>3. x * b \in Nat /\ y * b \in Nat
    BY <1>0
  <2> QED
    BY <2>1, <2>2, <2>3, <1>4, <1>0
<1>5. Q = q
  <2>1. ~ (Q < q)
    BY <1>2, <1>3, <1>4
  <2>2. ~ (q < Q)
    BY <1>2, <1>3, <1>4
  <2> QED
    BY <2>1, <2>2, <1>2
<1> QED
  BY <1>5, <1>2, <1>3, <1>0 DEF Q, R, a

\* Number takes all the zeros off the end of a coefficient.
LEMMA NumberForm ==
  ASSUME NEW c \in Positive, NEW e \in Int
  PROVE  \E z \in Nat, m \in Positive :
           c = m * Power[z] /\ m % 10 # 0 /\ Number(c, e) = [c |-> m, e |-> e + z]
<1> DEFINE S == {k \in 0..(Digits(c) - 1) : c % Power[k] = 0}
           z == Max(S)
           m == c \div Power[z]
<1>0. c \in Nat /\ Digits(c) - 1 \in Nat /\ c < Power[Digits(c)] /\ Digits(c) \in Nat
  BY DigitsFacts DEF Positive
<1>1. 0 \in S
  <2>1. c % 1 = 0
    BY <1>0
  <2> QED
    BY <2>1, <1>0, PowerFacts
<1>2. z \in S /\ z \in Nat /\ \A k \in S : k <= z
  <2>1. S \subseteq 0..(Digits(c) - 1) /\ S # {}
    BY <1>1
  <2> HIDE DEF S
  <2> QED
    BY <2>1, <1>0, MaxOfNaturals
<1>3. c % Power[z] = 0
  BY <1>2
<1> HIDE DEF z
<1>4. Power[z] \in Positive
  BY <1>2, PowerExceeds DEF Positive
<1>5. m \in Nat /\ c = m * Power[z]
  <2>1. m \in Nat /\ c = m * Power[z] + (c % Power[z])
    BY <1>0, <1>4, DivisionFacts
  <2>2. m * Power[z] \in Nat
    BY <2>1, <1>2, PowerFacts
  <2> QED
    BY <2>1, <2>2, <1>3
<1>6. m # 0
  BY <1>5, <1>4 DEF Positive
<1>7. m % 10 # 0
  <2>1. SUFFICES ASSUME m % 10 = 0 PROVE FALSE
    OBVIOUS
  <2>2. PICK h \in Nat : m = h * 10
    <3>1. m \div 10 \in Nat /\ m = (m \div 10) * 10
      BY <2>1, <1>5
    <3> QED
      BY <3>1
  <2>3. h # 0
    BY <2>2, <1>6
  <2>4. c = h * Power[z + 1]
    <3>1. Power[z + 1] = 10 * Power[z] /\ Power[z] \in Nat
      BY <1>2, PowerFacts
    <3>2. \A x, y \in Nat : (x * 10) * y = x * (10 * y)
      BY SMT
    <3> QED
      BY <3>1, <3>2, <2>2, <1>5
  <2>5. Power[z + 1] \in Positive
    BY <1>2, PowerExceeds DEF Positive
  <2>6. c % Power[z + 1] = 0
    <3>1. h * Power[z + 1] + 0 = c
      BY <2>4, <1>0
    <3> QED
      BY <3>1, <2>5, DivisionUnique DEF Positive
  <2>7. Power[z + 1] <= c
    <3>1. 1 <= h /\ Power[z + 1] \in Nat
      BY <2>3, <2>5 DEF Positive
    <3>2. 1 * Power[z + 1] <= h * Power[z + 1]
      BY <3>1, ProductOrder
    <3> QED
      BY <3>1, <3>2, <2>4
  <2>8. z + 1 < Digits(c)
    <3>1. SUFFICES ASSUME Digits(c) <= z + 1 PROVE FALSE
      BY <1>0, <1>2
    <3>2. Power[Digits(c)] <= Power[z + 1]
      BY <3>1, <1>0, <1>2, PowerGrows
    <3> QED
      BY <3>2, <2>7, <1>0, <2>5, PowerFacts DEF Positive
  <2>9. z + 1 \in S
    BY <2>6, <2>8, <1>0, <1>2
  <2> QED
    BY <2>9, <1>2
<1>8. Number(c, e) = [c |-> m, e |-> e + z]
  BY DEF Number, z
<1>9. m \in Positive
  BY <1>5, <1>6 DEF Positive
<1> HIDE DEF m
<1> QED
  BY <1>2, <1>5, <1>7, <1>8, <1>9

\* A number has one normal form.
LEMMA NormalFormUnique ==
  ASSUME NEW m \in Positive, NEW n \in Positive, NEW y \in Nat, NEW z \in Nat,
         m % 10 # 0, n % 10 # 0, m * Power[y] = n * Power[z]
  PROVE  m = n /\ y = z
<1>1. ASSUME NEW u \in Positive, NEW v \in Positive, NEW j \in Nat, NEW k \in Nat,
             v % 10 # 0, u * Power[j] = v * Power[k], k < j
      PROVE  FALSE
  <2>1. PICK i \in Nat : j = (i + 1) + k
    <3>1. j - k - 1 \in Nat /\ j = ((j - k - 1) + 1) + k
      BY <1>1
    <3> QED
      BY <3>1
  <2>2. Power[j] = (10 * Power[i]) * Power[k] /\ Power[i] \in Nat /\ Power[k] \in Nat /\ Power[k] > 0
    <3>1. i + 1 \in Nat
      OBVIOUS
    <3>2. Power[j] = Power[i + 1] * Power[k]
      BY <2>1, <3>1, PowerOfSum
    <3> QED
      BY <3>2, PowerFacts, PowerExceeds
  <2>3. \A a, b, c \in Nat : a * ((10 * b) * c) = ((a * b) * 10) * c
    BY SMT
  <2>4. u \in Nat /\ v \in Nat /\ u * Power[i] \in Nat
    BY <2>2 DEF Positive
  <2>5. ((u * Power[i]) * 10) * Power[k] = v * Power[k]
    BY <2>2, <2>3, <2>4, <1>1
  <2>6. (u * Power[i]) * 10 = v
    BY <2>5, <2>2, <2>4, ProductOrder
  <2>7. v % 10 = 0
    BY <2>6, <2>4
  <2> QED
    BY <2>7, <1>1
<1>2. y = z
  BY <1>1
<1>3. m = n
  <2>1. m \in Nat /\ n \in Nat /\ Power[z] \in Nat /\ Power[z] > 0
    BY PowerExceeds DEF Positive
  <2> QED
    BY <2>1, <1>2, ProductOrder
<1> QED
  BY <1>2, <1>3

LEMMA NumberOfShifted ==
  ASSUME NEW c \in Positive, NEW e \in Int, NEW j \in Nat
  PROVE  Number(c * Power[j], e) = Number(c, e + j)
<1>1. c \in Nat /\ c > 0 /\ Power[j] \in Nat /\ Power[j] > 0
  BY PowerExceeds DEF Positive
<1>2. c * Power[j] \in Positive
  BY <1>1, Z3 DEF Positive
<1>3. PICK y \in Nat, m \in Positive :
        c = m * Power[y] /\ m % 10 # 0 /\ Number(c, e + j) = [c |-> m, e |-> (e + j) + y]
  <2>1. e + j \in Int
    OBVIOUS
  <2> QED
    BY <2>1, NumberForm
<1>4. PICK z \in Nat, n \in Positive :
        c * Power[j] = n * Power[z] /\ n % 10 # 0 /\ Number(c * Power[j], e) = [c |-> n, e |-> e + z]
  BY <1>2, NumberForm
<1>5. c * Power[j] = m * Power[y + j]
  <2>1. Power[y + j] = Power[y] * Power[j] /\ Power[y] \in Nat /\ m \in Nat
    BY PowerOfSum, PowerFacts DEF Positive
  <2>2. \A u, v, w \in Nat : (u * v) * w = u * (v * w)
    BY SMT
  <2> QED
    BY <2>1, <2>2, <1>1, <1>3
<1>6. m = n /\ y + j = z
  <2>1. y + j \in Nat
    OBVIOUS
  <2> QED
    BY <2>1, <1>3, <1>4, <1>5, NormalFormUnique
<1>7. (e + j) + y = e + z
  BY <1>6
<1> QED
  BY <1>3, <1>4, <1>6, <1>7

-----------------------------------------------------------------------------
(* Quotients and their decades.                                            *)

LEMMA PositiveProducts ==
  /\ \A a, b \in Positive : a * b \in Positive
  /\ \A a \in Positive : a \in Nat /\ a > 0
  /\ \A k \in Nat : Power[k] \in Positive
<1>1. \A a, b \in Nat : a > 0 /\ b > 0 => a * b > 0
  BY Z3
<1> QED
  BY <1>1, PowerExceeds DEF Positive

LEMMA ScaledTyped ==
  ASSUME NEW n \in Positive, NEW d \in Positive, NEW k \in Int
  PROVE  Scaled(n, d, k)[1] \in Positive /\ Scaled(n, d, k)[2] \in Positive
<1>1. CASE k >= 0
  BY <1>1, PositiveProducts DEF Scaled
<1>2. CASE ~ (k >= 0)
  <2>1. -k \in Nat
    BY <1>2
  <2> QED
    BY <1>2, <2>1, PositiveProducts DEF Scaled
<1> QED
  BY <1>1, <1>2

\* What Scaled returns has the ratio n / d * 10^k.
LEMMA ScaledRatio ==
  ASSUME NEW n \in Positive, NEW d \in Positive, NEW k \in Int, NEW m \in Nat, m + k \in Nat
  PROVE  Scaled(n, d, k)[1] * (d * Power[m]) = Scaled(n, d, k)[2] * (n * Power[m + k])
<1>0. n \in Nat /\ d \in Nat /\ Power[m] \in Nat /\ Power[m + k] \in Nat
  BY PositiveProducts, PowerFacts
<1>1. CASE k >= 0
  <2>1. k \in Nat /\ Power[k] \in Nat /\ Power[m + k] = Power[m] * Power[k]
    <3>1. k \in Nat
      BY <1>1
    <3> QED
      BY <3>1, PowerFacts, PowerOfSum
  <2>2. \A a, b, c, e \in Nat : (a * e) * (b * c) = b * (a * (c * e))
    BY SMT
  <2> QED
    BY <1>0, <1>1, <2>1, <2>2 DEF Scaled
<1>2. CASE ~ (k >= 0)
  <2>1. -k \in Nat /\ Power[-k] \in Nat /\ Power[m] = Power[m + k] * Power[-k]
    <3>1. -k \in Nat /\ m = (m + k) + (-k)
      BY <1>2
    <3> QED
      BY <3>1, PowerFacts, PowerOfSum
  <2>2. \A a, b, c, e \in Nat : a * (b * (c * e)) = (b * e) * (a * c)
    BY SMT
  <2> QED
    BY <1>0, <1>2, <2>1, <2>2 DEF Scaled
<1> QED
  BY <1>1, <1>2

\* a / b is Y / X.
Reduces(a, b, X, Y) == a * X = b * Y

LEMMA RatioCancel ==
  ASSUME NEW X \in Positive, NEW Y \in Positive, NEW p \in Positive, NEW Z, Z = Y * p, NEW W,
         NEW a1 \in Positive, NEW b1 \in Positive, NEW a2 \in Positive, NEW b2 \in Positive,
         W = p * a1, Reduces(a1, b1, X, Y), Reduces(a2, b2, X, Z)
  PROVE  Reduces(a2, b2, b1, W)
<1>0. /\ X \in Nat /\ Y \in Nat /\ p \in Nat /\ a1 \in Nat /\ b1 \in Nat /\ a2 \in Nat /\ b2 \in Nat
      /\ X * Y \in Nat /\ X * Y > 0 /\ a2 * b1 \in Nat /\ (p * a1) * b2 \in Nat
  <2>1. X * Y \in Positive
    BY PositiveProducts
  <2> QED
    BY <2>1, PositiveProducts
<1>1. (a2 * b1) * (X * Y) = (a2 * X) * (b1 * Y)
  BY <1>0, SMT
<1>2. (a2 * X) * (b1 * Y) = (b2 * (Y * p)) * (a1 * X)
  BY DEF Reduces
<1>3. (b2 * (Y * p)) * (a1 * X) = ((p * a1) * b2) * (X * Y)
  BY <1>0, SMT
<1>4. (a2 * b1) * (X * Y) = ((p * a1) * b2) * (X * Y)
  BY <1>1, <1>2, <1>3
<1>5. a2 * b1 = (p * a1) * b2
  BY <1>0, <1>4, ProductOrder
<1> QED
  BY <1>0, <1>5 DEF Reduces

\* j steps further, the ratio is 10^j times as large.
LEMMA ScaledLadder ==
  ASSUME NEW n \in Positive, NEW d \in Positive, NEW k \in Int, NEW j \in Nat
  PROVE  Scaled(n, d, k + j)[1] * Scaled(n, d, k)[2] =
           (Power[j] * Scaled(n, d, k)[1]) * Scaled(n, d, k + j)[2]
<1> DEFINE m == IF k >= 0 THEN 0 ELSE -k
           X == d * Power[m]
           Y == n * Power[m + k]
<1>1. m \in Nat /\ m + k \in Nat /\ k + j \in Int /\ m + (k + j) = (m + k) + j
  OBVIOUS
<1> HIDE DEF m
<1>2. Scaled(n, d, k)[1] * X = Scaled(n, d, k)[2] * Y
  BY <1>1, ScaledRatio
<1>3. Scaled(n, d, k + j)[1] * X = Scaled(n, d, k + j)[2] * (Y * Power[j])
  <2>1. Scaled(n, d, k + j)[1] * X = Scaled(n, d, k + j)[2] * (n * Power[m + (k + j)])
    BY <1>1, ScaledRatio
  <2>2. Power[m + (k + j)] = Power[m + k] * Power[j]
    BY <1>1, PowerOfSum
  <2>3. n * (Power[m + k] * Power[j]) = (n * Power[m + k]) * Power[j]
    <3>1. \A a, b, c \in Nat : a * (b * c) = (a * b) * c
      BY SMT
    <3> QED
      BY <3>1, <1>1, PowerFacts DEF Positive
  <2> QED
    BY <2>1, <2>2, <2>3
<1>4. X \in Positive /\ Y \in Positive /\ Power[j] \in Positive
  BY <1>1, PositiveProducts
<1>5. /\ Scaled(n, d, k)[1] \in Positive /\ Scaled(n, d, k)[2] \in Positive
      /\ Scaled(n, d, k + j)[1] \in Positive /\ Scaled(n, d, k + j)[2] \in Positive
  BY <1>1, ScaledTyped
<1> DEFINE s == Scaled(n, d, k)
           t == Scaled(n, d, k + j)
           Z == Y * Power[j]
<1>6. Reduces(s[1], s[2], X, Y) /\ Reduces(t[1], t[2], X, Z)
  BY <1>2, <1>3 DEF Reduces
<1>7. s[1] \in Positive /\ s[2] \in Positive /\ t[1] \in Positive /\ t[2] \in Positive
  BY <1>5
<1> DEFINE W == Power[j] * s[1]
<1>8. Reduces(t[1], t[2], s[2], W)
  <2>1. Z = Y * Power[j] /\ W = Power[j] * s[1]
    OBVIOUS
  <2> HIDE DEF X, Y, Z, s, t, W
  <2> QED
    BY <2>1, <1>4, <1>6, <1>7, RatioCancel
<1>9. t[1] * s[2] = t[2] * W /\ W \in Nat /\ t[2] \in Nat
  <2>1. W \in Positive
    BY <1>4, <1>7, PositiveProducts
  <2> QED
    BY <1>7, <1>8, <2>1, PositiveProducts DEF Reduces
<1>10. t[2] * W = W * t[2]
  <2> HIDE DEF W, t
  <2> QED
    BY <1>9
<1> QED
  BY <1>9, <1>10

\* Zeros at the end of the operands only shift the place.
LEMMA ScaledOfShifted ==
  ASSUME NEW n \in Positive, NEW d \in Positive, NEW k \in Int, NEW i \in Nat, NEW j \in Nat
  PROVE  LET s == Scaled(n, d, k)
             t == Scaled(n * Power[i], d * Power[j], k + j - i)
         IN  t[1] * s[2] = s[1] * t[2]
<1> DEFINE l == k + j - i
           m == IF l >= 0 THEN 0 ELSE -l
           N == n * Power[i]
           D == d * Power[j]
           X == D * Power[m]
           Y == N * Power[m + l]
           s == Scaled(n, d, k)
           t == Scaled(N, D, l)
<1>1. m \in Nat /\ m + l \in Nat /\ l \in Int
  OBVIOUS
<1>2. (m + l) + i = (m + j) + k /\ m + j \in Nat /\ (m + j) + k \in Nat
  BY <1>1
<1> HIDE DEF m, l
<1>3. N \in Positive /\ D \in Positive
  BY PositiveProducts
<1>4. t[1] * X = t[2] * Y
  <2> HIDE DEF N, D
  <2> QED
    BY <1>1, <1>3, ScaledRatio
<1>5. s[1] * (d * Power[m + j]) = s[2] * (n * Power[(m + j) + k])
  BY <1>2, ScaledRatio
<1>6. \A a, b, c \in Nat : a * (b * c) = (a * c) * b
  BY SMT
<1>7. n \in Nat /\ d \in Nat /\ Power[m] \in Nat /\ Power[j] \in Nat /\ Power[i] \in Nat /\ Power[m + l] \in Nat
  BY <1>1, PowerFacts DEF Positive
<1>8. d * Power[m + j] = X
  <2>1. Power[m + j] = Power[m] * Power[j]
    BY <1>1, PowerOfSum
  <2>2. d * (Power[m] * Power[j]) = (d * Power[j]) * Power[m]
    BY <1>6, <1>7
  <2> QED
    BY <2>1, <2>2
<1>9. n * Power[(m + j) + k] = Y
  <2>1. Power[(m + l) + i] = Power[m + l] * Power[i]
    BY <1>1, PowerOfSum
  <2>2. n * (Power[m + l] * Power[i]) = (n * Power[i]) * Power[m + l]
    BY <1>6, <1>7
  <2> QED
    BY <2>1, <2>2, <1>2
<1>10. s[1] * X = s[2] * Y
  BY <1>5, <1>8, <1>9
<1>11. X \in Positive /\ Y \in Positive
  BY <1>1, <1>3, PositiveProducts
<1>12. s[1] \in Positive /\ s[2] \in Positive /\ t[1] \in Positive /\ t[2] \in Positive
  BY <1>1, <1>3, ScaledTyped
<1>13. Y * 1 = Y /\ 1 * s[1] = s[1] /\ 1 \in Positive
  BY <1>11, <1>12 DEF Positive
<1>14. Reduces(t[1], t[2], s[2], s[1])
  <2>1. Reduces(s[1], s[2], X, Y) /\ Reduces(t[1], t[2], X, Y)
    BY <1>4, <1>10 DEF Reduces
  <2>2. Y = Y * 1 /\ s[1] = 1 * s[1] /\ 1 \in Positive
    BY <1>13
  <2> HIDE DEF X, Y, s, t
  <2> QED
    BY <2>1, <2>2, <1>11, <1>12, RatioCancel
<1>15. t[1] * s[2] = s[1] * t[2]
  <2>1. t[2] \in Nat /\ s[1] \in Nat
    BY <1>12, PositiveProducts
  <2> HIDE DEF s, t
  <2> QED
    BY <1>14, <2>1 DEF Reduces
<1> QED
  BY <1>15 DEF l

-----------------------------------------------------------------------------
(* Rounding to the nearest: by its definition and by division.             *)

\* a / b has Precision digits before the point.
InDecade(s) == Power[Precision - 1] * s[2] <= s[1] /\ s[1] < Power[Precision] * s[2]

LEMMA PrecisionFacts ==
  /\ Precision \in Positive /\ Precision \in Nat /\ Precision - 1 \in Nat
  /\ Power[Precision] \in Positive /\ Power[Precision - 1] \in Positive
  /\ Power[Precision] = 10 * Power[Precision - 1]
<1>1. Precision \in Positive /\ Precision \in Nat /\ Precision - 1 \in Nat
  BY PrecisionAssumption DEF Positive
<1>2. Power[(Precision - 1) + 1] = 10 * Power[Precision - 1] /\ (Precision - 1) + 1 = Precision
  BY <1>1, PowerFacts
<1> QED
  BY <1>1, <1>2, PositiveProducts

\* One place at most brings a quotient into the decade.
LEMMA DecadeUnique ==
  ASSUME NEW n \in Positive, NEW d \in Positive, NEW k \in Int, NEW l \in Int,
         InDecade(Scaled(n, d, k)), InDecade(Scaled(n, d, l))
  PROVE  k = l
<1>1. ASSUME NEW u \in Int, NEW v \in Int, InDecade(Scaled(n, d, u)), InDecade(Scaled(n, d, v)), u < v
      PROVE  FALSE
  <2> DEFINE s == Scaled(n, d, u)
             t == Scaled(n, d, v)
             p == Power[v - u]
             L == Power[Precision - 1]
  <2>1. v - u \in Nat /\ u + (v - u) = v /\ 0 < v - u
    BY <1>1
  <2>2. /\ s[1] \in Positive /\ s[2] \in Positive /\ t[1] \in Positive /\ t[2] \in Positive
        /\ L \in Positive
    BY ScaledTyped, PrecisionFacts
  <2>3. p \in Nat /\ 10 <= p
    <3>1. 0 \in Nat /\ 10 * Power[0] <= Power[v - u]
      BY <2>1, PowerGrows
    <3> QED
      BY <3>1, <2>1, PowerFacts
  <2>4. t[1] * s[2] = (p * s[1]) * t[2]
    BY <2>1, ScaledLadder
  <2>5. L * s[2] <= s[1] /\ t[1] < (10 * L) * t[2]
    BY <1>1, PrecisionFacts DEF InDecade
  <2> HIDE DEF s, t, p, L
  <2>6. \E a, b, x, y, l1 \in Nat :
          a = s[1] /\ b = s[2] /\ x = t[1] /\ y = t[2] /\ l1 = L /\ b > 0 /\ y > 0
    BY <2>2 DEF Positive
  <2>7. PICK a, b, x, y, l1 \in Nat :
          a = s[1] /\ b = s[2] /\ x = t[1] /\ y = t[2] /\ l1 = L /\ b > 0 /\ y > 0
    BY <2>6
  <2>8. x * b = (p * a) * y /\ l1 * b <= a /\ x < (10 * l1) * y
    BY <2>4, <2>5, <2>7
  <2>9. x * b < ((10 * l1) * y) * b
    <3>1. (10 * l1) * y \in Nat
      OBVIOUS
    <3> QED
      BY <3>1, <2>7, <2>8, ProductOrder
  <2>10. ((10 * l1) * y) * b = (10 * (l1 * b)) * y
    BY SMT
  <2>11. (10 * (l1 * b)) * y <= (10 * a) * y
    <3>1. 10 * (l1 * b) \in Nat /\ 10 * a \in Nat /\ 10 * (l1 * b) <= 10 * a
      BY <2>8
    <3> QED
      BY <3>1, ProductOrder
  <2>12. (10 * a) * y <= (p * a) * y
    <3>1. 10 * a <= p * a /\ 10 * a \in Nat /\ p * a \in Nat
      BY <2>3, ProductOrder
    <3> QED
      BY <3>1, ProductOrder
  <2>13. x * b \in Nat /\ (10 * (l1 * b)) * y \in Nat /\ (10 * a) * y \in Nat /\ (p * a) * y \in Nat
    BY <2>3
  <2> QED
    BY <2>8, <2>9, <2>10, <2>11, <2>12, <2>13
<1> QED
  BY <1>1

\* The place before the decade, by the number of digits.
LeastPlace(n, d) == (Precision - 1) - (Digits(n) - Digits(d))

LEMMA DecadeBounds ==
  ASSUME NEW n \in Positive, NEW d \in Positive
  PROVE  LET k == LeastPlace(n, d)
             s == Scaled(n, d, k)
         IN  /\ k \in Int
             /\ s[1] < Power[Precision] * s[2]
             /\ Power[Precision - 1] * s[2] < 10 * s[1]
<1> DEFINE k == LeastPlace(n, d)
           s == Scaled(n, d, k)
           m == Digits(n)
           e == Digits(d)
           X == d * Power[m]
           Y == n * Power[m + k]
           L == Power[Precision - 1]
<1>1. /\ m \in Nat /\ m - 1 \in Nat /\ e \in Nat /\ e - 1 \in Nat /\ k \in Int
      /\ Power[m - 1] <= n /\ n < Power[m] /\ Power[e - 1] <= d /\ d < Power[e]
      /\ m + k = (Precision - 1) + e /\ m + k \in Nat
  BY DigitsFacts, PrecisionFacts DEF LeastPlace, Positive
<1>2. s[1] * X = s[2] * Y
  BY <1>1, ScaledRatio
<1>3. s[1] \in Nat /\ s[2] \in Nat /\ s[2] > 0 /\ n \in Nat /\ d \in Nat /\ d > 0
  BY <1>1, ScaledTyped, PositiveProducts
<1>4. /\ Power[m + k] = L * Power[e] /\ Power[m] = 10 * Power[m - 1] /\ Power[e] = 10 * Power[e - 1]
      /\ Power[Precision] = 10 * L
  <2>1. Power[m + k] = L * Power[e]
    BY <1>1, PrecisionFacts, PowerOfSum
  <2>2. (m - 1) + 1 = m /\ (e - 1) + 1 = e
    BY <1>1
  <2>3. Power[m] = 10 * Power[m - 1] /\ Power[e] = 10 * Power[e - 1]
    BY <1>1, <2>2, PowerFacts
  <2> QED
    BY <2>1, <2>3, PrecisionFacts
<1>5. PICK L1, M, E \in Nat : L1 = L /\ M = Power[m - 1] /\ E = Power[e - 1] /\ L1 > 0 /\ M > 0 /\ E > 0
  BY <1>1, PowerExceeds, PrecisionFacts DEF Positive
<1>6. PICK S1, S2 \in Nat : S1 = s[1] /\ S2 = s[2] /\ S2 > 0
  BY <1>3
<1>7. S1 * (d * (10 * M)) = S2 * (n * (L1 * (10 * E)))
  BY <1>2, <1>4, <1>5, <1>6
<1>8. M <= n /\ n < 10 * M /\ E <= d /\ d < 10 * E
  BY <1>1, <1>4, <1>5
<1> HIDE DEF k, s, m, e, X, Y, L
<1>9. S1 < (10 * L1) * S2
  <2>1. n * E < (10 * M) * d
    <3>1. n * E <= n * d
      BY <1>3, <1>8, ProductOrder, SMT
    <3>2. n * d < (10 * M) * d
      BY <1>3, <1>8, ProductOrder
    <3>3. n * E \in Nat /\ n * d \in Nat /\ (10 * M) * d \in Nat
      BY <1>3
    <3> QED
      BY <3>1, <3>2, <3>3
  <2>2. S2 * (n * (L1 * (10 * E))) = (n * E) * ((10 * L1) * S2)
    BY <1>3, SMT
  <2>3. (10 * L1) * S2 \in Nat /\ (10 * L1) * S2 > 0
    BY <1>5, <1>6, PositiveProducts DEF Positive
  <2>4. (n * E) * ((10 * L1) * S2) < ((10 * M) * d) * ((10 * L1) * S2)
    BY <2>1, <2>3, <1>3, ProductOrder
  <2>5. S1 * (d * (10 * M)) = S1 * ((10 * M) * d)
    BY <1>3, SMT
  <2>6. ((10 * M) * d) * ((10 * L1) * S2) = ((10 * L1) * S2) * ((10 * M) * d)
    BY <1>3, SMT
  <2>7. S1 * ((10 * M) * d) < ((10 * L1) * S2) * ((10 * M) * d)
    BY <2>2, <2>4, <2>5, <2>6, <1>7
  <2>8. (10 * M) * d \in Nat /\ (10 * M) * d > 0
    BY <1>3, <1>5, PositiveProducts DEF Positive
  <2> QED
    BY <2>3, <2>7, <2>8, ProductOrder
<1>10. L1 * S2 < 10 * S1
  <2>1. d * M < (10 * E) * n
    <3>1. d * M <= d * n
      BY <1>3, <1>8, ProductOrder, SMT
    <3>2. d * n < (10 * E) * n
      BY <1>3, <1>8, <1>5, ProductOrder
    <3>3. d * M \in Nat /\ d * n \in Nat /\ (10 * E) * n \in Nat
      BY <1>3
    <3> QED
      BY <3>1, <3>2, <3>3
  <2>2. S2 * (n * (L1 * (10 * E))) = (L1 * S2) * ((10 * E) * n)
    BY <1>3, SMT
  <2>3. S1 * (d * (10 * M)) = (10 * S1) * (d * M)
    BY <1>3, SMT
  <2>4. L1 * S2 \in Nat /\ L1 * S2 > 0
    BY <1>5, <1>6, PositiveProducts DEF Positive
  <2>5. (L1 * S2) * (d * M) < (L1 * S2) * ((10 * E) * n)
    <3>1. (d * M) * (L1 * S2) < ((10 * E) * n) * (L1 * S2)
      BY <2>1, <2>4, <1>3, ProductOrder
    <3>2. (d * M) * (L1 * S2) = (L1 * S2) * (d * M)
      BY <1>3, SMT
    <3>3. ((10 * E) * n) * (L1 * S2) = (L1 * S2) * ((10 * E) * n)
      BY <1>3, SMT
    <3> QED
      BY <3>1, <3>2, <3>3
  <2>6. (L1 * S2) * (d * M) < (10 * S1) * (d * M)
    BY <2>2, <2>3, <2>5, <1>7
  <2>7. d * M \in Nat /\ d * M > 0 /\ 10 * S1 \in Nat
    BY <1>3, <1>5, PositiveProducts DEF Positive
  <2> QED
    BY <2>4, <2>6, <2>7, ProductOrder
<1>11. s[1] < Power[Precision] * s[2] /\ Power[Precision - 1] * s[2] < 10 * s[1]
  BY <1>4, <1>5, <1>6, <1>9, <1>10 DEF L
<1> QED
  BY <1>1, <1>11 DEF k, s

\* The decade is reached at the least place or one further.
LEMMA DecadeReached ==
  ASSUME NEW n \in Positive, NEW d \in Positive
  PROVE  LET k == LeastPlace(n, d)
             s == Scaled(n, d, k)
         IN  IF Power[Precision - 1] * s[2] <= s[1] THEN InDecade(s)
             ELSE InDecade(Scaled(n, d, k + 1))
<1> DEFINE k == LeastPlace(n, d)
           s == Scaled(n, d, k)
           t == Scaled(n, d, k + 1)
           L == Power[Precision - 1]
<1>1. k \in Int /\ k + 1 \in Int /\ s[1] < (10 * L) * s[2] /\ L * s[2] < 10 * s[1]
  BY DecadeBounds, PrecisionFacts
<1>2. CASE L * s[2] <= s[1]
  BY <1>1, <1>2, PrecisionFacts DEF InDecade
<1>3. CASE ~ (L * s[2] <= s[1])
  <2>1. Power[1] = 10
    <3>1. Power[0 + 1] = 10 * Power[0] /\ 0 + 1 = 1
      BY PowerFacts
    <3> QED
      BY <3>1, PowerFacts
  <2>2. t[1] * s[2] = (10 * s[1]) * t[2]
    <3>1. \A e \in Int : Scaled(n, d, e + 1)[1] * Scaled(n, d, e)[2] =
                           (Power[1] * Scaled(n, d, e)[1]) * Scaled(n, d, e + 1)[2]
      BY ScaledLadder
    <3> HIDE DEF k
    <3> QED
      BY <1>1, <2>1, <3>1
  <2>3. PICK S1, S2, T1, T2, L1 \in Nat :
          S1 = s[1] /\ S2 = s[2] /\ T1 = t[1] /\ T2 = t[2] /\ L1 = L /\ S2 > 0 /\ T2 > 0
    <3>1. \A e \in Int : Scaled(n, d, e)[1] \in Positive /\ Scaled(n, d, e)[2] \in Positive
      BY ScaledTyped
    <3> HIDE DEF k
    <3>2. s[1] \in Positive /\ s[2] \in Positive /\ t[1] \in Positive /\ t[2] \in Positive
      BY <1>1, <3>1
    <3>3. L \in Nat
      BY PrecisionFacts DEF Positive
    <3> HIDE DEF s, t, L
    <3> QED
      BY <3>2, <3>3 DEF Positive
  <2> HIDE DEF k, s, t, L
  <2>4. T1 * S2 = (10 * S1) * T2 /\ L1 * S2 < 10 * S1 /\ S1 < L1 * S2
    <3>1. L1 * S2 \in Nat
      OBVIOUS
    <3> QED
      BY <1>1, <1>3, <2>2, <2>3, <3>1
  <2>5. L1 * T2 < T1
    <3>1. (L1 * S2) * T2 < (10 * S1) * T2
      <4>1. L1 * S2 \in Nat /\ 10 * S1 \in Nat
        OBVIOUS
      <4> QED
        BY <4>1, <2>3, <2>4, ProductOrder
    <3>2. (L1 * S2) * T2 = (L1 * T2) * S2
      BY SMT
    <3>3. (L1 * T2) * S2 < T1 * S2 /\ L1 * T2 \in Nat
      BY <3>1, <3>2, <2>4
    <3> QED
      BY <3>3, <2>3, ProductOrder
  <2>6. T1 < (10 * L1) * T2
    <3>1. (10 * S1) * T2 < (10 * (L1 * S2)) * T2
      <4>1. 10 * (L1 * S2) \in Nat /\ 10 * S1 \in Nat /\ 10 * S1 < 10 * (L1 * S2)
        BY <2>4
      <4> QED
        BY <4>1, <2>3, ProductOrder
    <3>2. (10 * (L1 * S2)) * T2 = ((10 * L1) * T2) * S2
      BY SMT
    <3>3. T1 * S2 < ((10 * L1) * T2) * S2 /\ (10 * L1) * T2 \in Nat
      BY <3>1, <3>2, <2>4
    <3> QED
      BY <3>3, <2>3, ProductOrder
  <2>7. InDecade(t)
    <3>1. L1 * T2 <= T1 /\ T1 < (10 * L1) * T2
      <4>1. L1 * T2 \in Nat
        OBVIOUS
      <4> QED
        BY <4>1, <2>5, <2>6
    <3> QED
      BY <3>1, <2>3, PrecisionFacts DEF InDecade, L
  <2> QED
    BY <1>3, <2>7 DEF k, s, t, L
<1> QED
  BY <1>2, <1>3

\* The place Nearest chooses.
LEMMA PlaceChosen ==
  ASSUME NEW n \in Positive, NEW d \in Positive, NEW k \in Int, InDecade(Scaled(n, d, k))
  PROVE  k = CHOOSE l \in -Digits(n)..(Digits(d) + Precision) : InDecade(Scaled(n, d, l))
<1> DEFINE R == -Digits(n)..(Digits(d) + Precision)
           p == LeastPlace(n, d)
<1>1. Digits(n) \in Nat /\ Digits(d) \in Nat /\ Digits(d) > 0 /\ Digits(n) > 0
  BY DigitsFacts DEF Positive
<1>2. p \in R /\ p + 1 \in R
  BY <1>1, PrecisionFacts DEF LeastPlace, Positive
<1>3. \E l \in R : InDecade(Scaled(n, d, l))
  BY <1>2, DecadeReached
<1>4. \A l \in R : InDecade(Scaled(n, d, l)) => l = k
  BY <1>1, DecadeUnique
<1> DEFINE c == CHOOSE l \in R : InDecade(Scaled(n, d, l))
<1> HIDE DEF R
<1>5. c \in R /\ InDecade(Scaled(n, d, c))
  BY <1>3, Zenon
<1>6. c = k
  BY <1>4, <1>5
<1> QED
  BY <1>6 DEF R

\* c is as near to a quotient as its neighbours, and even if one is as near.
Closest(s, c) ==
  \A b \in {c - 1, c + 1} :
    \/ Distance(s[1], c * s[2]) < Distance(s[1], b * s[2])
    \/ Distance(s[1], c * s[2]) = Distance(s[1], b * s[2]) /\ c % 2 = 0

\* The whole part of a quotient, rounded by its remainder.
Quotient(s) ==
  LET twice == 2 * (s[1] % s[2])
  IN IF twice > s[2] \/ (twice = s[2] /\ (s[1] \div s[2]) % 2 = 1)
     THEN s[1] \div s[2] + 1 ELSE s[1] \div s[2]

LEMMA QuotientIsClosest ==
  ASSUME NEW a \in Nat, NEW b \in Positive
  PROVE  Quotient(<<a, b>>) \in Nat /\ Closest(<<a, b>>, Quotient(<<a, b>>))
<1> DEFINE q == a \div b
           r == a % b
           c == Quotient(<<a, b>>)
<1>1. q \in Nat /\ r \in Nat /\ r < b /\ a = q * b + r /\ b \in Nat /\ b > 0
  BY DivisionFacts, PositiveProducts
<1>2. c = IF 2 * r > b \/ (2 * r = b /\ q % 2 = 1) THEN q + 1 ELSE q
  BY DEF Quotient
<1> HIDE DEF q, r, c
<1>3. /\ (q + 1) * b = q * b + b /\ (q - 1) * b = q * b - b
      /\ (q + 2) * b = q * b + (2 * b) /\ q * b \in Nat
  BY <1>1
<1>4. /\ Distance(a, q * b) = r /\ Distance(a, (q + 1) * b) = b - r
      /\ Distance(a, (q - 1) * b) = b + r /\ Distance(a, (q + 2) * b) = (2 * b) - r
  <2>1. PICK Q \in Nat : Q = q * b
    BY <1>3
  <2>2. /\ Distance(Q + r, Q) = r /\ Distance(Q + r, Q + b) = b - r
        /\ Distance(Q + r, Q - b) = b + r /\ Distance(Q + r, Q + (2 * b)) = (2 * b) - r
    BY <1>1 DEF Distance
  <2> QED
    BY <2>1, <2>2, <1>1, <1>3
<1>5. CASE 2 * r > b \/ (2 * r = b /\ q % 2 = 1)
  <2>1. c = q + 1 /\ c - 1 = q /\ c + 1 = q + 2
    BY <1>1, <1>2, <1>5
  <2>2. Distance(a, c * b) < Distance(a, (c + 1) * b)
    BY <2>1, <1>1, <1>4
  <2>3. \/ Distance(a, c * b) < Distance(a, (c - 1) * b)
        \/ Distance(a, c * b) = Distance(a, (c - 1) * b) /\ c % 2 = 0
    <3>1. CASE 2 * r > b
      BY <3>1, <2>1, <1>1, <1>4
    <3>2. CASE 2 * r = b /\ q % 2 = 1
      <4>1. (q + 1) % 2 = 0
        BY <3>2, <1>1
      <4> QED
        BY <4>1, <3>2, <2>1, <1>1, <1>4
    <3> QED
      BY <3>1, <3>2, <1>5
  <2> QED
    BY <2>1, <2>2, <2>3, <1>1 DEF Closest, c
<1>6. CASE ~ (2 * r > b \/ (2 * r = b /\ q % 2 = 1))
  <2>1. c = q
    BY <1>2, <1>6
  <2>2. Distance(a, c * b) < Distance(a, (c - 1) * b)
    BY <2>1, <1>1, <1>4
  <2>3. \/ Distance(a, c * b) < Distance(a, (c + 1) * b)
        \/ Distance(a, c * b) = Distance(a, (c + 1) * b) /\ c % 2 = 0
    <3>1. CASE 2 * r < b
      BY <3>1, <2>1, <1>1, <1>4
    <3>2. CASE 2 * r = b
      <4>1. q % 2 = 0
        BY <3>2, <1>1, <1>6
      <4> QED
        BY <4>1, <3>2, <2>1, <1>1, <1>4
    <3> QED
      BY <3>1, <3>2, <1>6, <1>1
  <2> QED
    BY <2>1, <2>2, <2>3, <1>1 DEF Closest, c
<1> QED
  BY <1>5, <1>6

LEMMA ClosestUnique ==
  ASSUME NEW a \in Nat, NEW b \in Positive, NEW c \in Nat, NEW e \in Nat,
         Closest(<<a, b>>, c), Closest(<<a, b>>, e)
  PROVE  c = e
<1>0. b \in Nat /\ b > 0
  BY PositiveProducts
<1>1. ASSUME NEW u \in Nat, NEW v \in Nat, Closest(<<a, b>>, u), Closest(<<a, b>>, v), u < v
      PROVE  FALSE
  <2>1. /\ \/ Distance(a, u * b) < Distance(a, (u + 1) * b)
           \/ Distance(a, u * b) = Distance(a, (u + 1) * b) /\ u % 2 = 0
        /\ \/ Distance(a, v * b) < Distance(a, (v - 1) * b)
           \/ Distance(a, v * b) = Distance(a, (v - 1) * b) /\ v % 2 = 0
    BY <1>1 DEF Closest
  <2>2. PICK x, y \in Nat : x = u * b /\ y = (v - 1) * b
    <3>1. v - 1 \in Nat
      BY <1>1
    <3> QED
      BY <3>1, <1>0
  <2>3. (u + 1) * b = x + b /\ v * b = y + b
    BY <2>2, <1>0
  <2>4. x <= y
    <3>1. v - 1 \in Nat /\ u <= v - 1
      BY <1>1
    <3> QED
      BY <3>1, <2>2, <1>0, ProductOrder
  <2>5. 2 * a <= x + (x + b)
    BY <2>1, <2>2, <2>3, <1>0 DEF Distance
  <2>6. y + (y + b) <= 2 * a
    BY <2>1, <2>2, <2>3, <1>0 DEF Distance
  <2>7. x = y
    BY <2>4, <2>5, <2>6, <1>0
  <2>8. u = v - 1
    <3>1. v - 1 \in Nat
      BY <1>1
    <3> QED
      BY <3>1, <2>2, <2>7, <1>0, ProductOrder
  <2>9. Distance(a, x) = Distance(a, x + b)
    BY <2>5, <2>6, <2>7, <1>0 DEF Distance
  <2>10. u % 2 = 0 /\ v % 2 = 0
    BY <2>1, <2>2, <2>3, <2>7, <2>9, <1>0 DEF Distance
  <2> QED
    BY <2>8, <2>10
<1> QED
  BY <1>1

\* decimal's rounding is a division and a look at the remainder.
LEMMA NearestByDivision ==
  ASSUME NEW n \in Positive, NEW d \in Positive, NEW k \in Int, InDecade(Scaled(n, d, k))
  PROVE  /\ Nearest(n, d) = Number(Quotient(Scaled(n, d, k)), -k)
         /\ Quotient(Scaled(n, d, k)) \in Power[Precision - 1]..Power[Precision]
<1> DEFINE s == Scaled(n, d, k)
           q == Quotient(s)
           C == Power[Precision - 1]..Power[Precision]
<1>1. s[1] \in Positive /\ s[2] \in Positive /\ s = <<s[1], s[2]>>
  <2>1. s = <<s[1], s[2]>>
    BY DEF Scaled
  <2> QED
    BY <2>1, ScaledTyped
<1> HIDE DEF s
<1>2. PICK a, b \in Positive : s = <<a, b>>
  BY <1>1
<1>3. a \in Nat /\ b \in Nat /\ b > 0
  BY PositiveProducts
<1>4. q \in Nat /\ Closest(s, q)
  BY <1>2, <1>3, QuotientIsClosest
<1>5. q \in C
  <2>1. Power[Precision - 1] * b <= a /\ a < Power[Precision] * b
    BY <1>2 DEF InDecade, s
  <2>2. a \div b \in Nat /\ a % b \in Nat /\ a % b < b /\ a = (a \div b) * b + (a % b)
    BY <1>3, DivisionFacts
  <2>3. PICK u, r, L, H \in Nat : u = a \div b /\ r = a % b /\ L = Power[Precision - 1] /\ H = Power[Precision]
    BY <2>2, PrecisionFacts DEF Positive
  <2>4. u < H
    <3>1. u * b <= a /\ u * b \in Nat /\ H * b \in Nat
      BY <2>2, <2>3, <1>3
    <3>2. u * b < H * b
      BY <3>1, <2>1, <2>3, <1>3
    <3> QED
      BY <3>2, <1>3, ProductOrder
  <2>5. L <= u
    <3>1. L * b < (u + 1) * b
      <4>1. (u + 1) * b = u * b + b /\ u * b \in Nat /\ L * b \in Nat
        BY <1>3
      <4> QED
        BY <4>1, <2>1, <2>2, <2>3, <1>3
    <3>2. L < u + 1
      BY <3>1, <1>3, ProductOrder
    <3> QED
      BY <3>2
  <2>6. q = u \/ q = u + 1
    BY <1>2, <2>3 DEF Quotient
  <2> QED
    BY <2>3, <2>4, <2>5, <2>6
<1>6. \A c \in C : Closest(s, c) => c = q
  <2>1. C \subseteq Nat
    BY PrecisionFacts DEF Positive
  <2> QED
    BY <2>1, <1>2, <1>3, <1>4, ClosestUnique
<1>7. q = CHOOSE c \in C : Closest(s, c)
  <2> HIDE DEF C, q
  <2> QED
    BY <1>4, <1>5, <1>6
<1>8. Nearest(n, d) = Number(CHOOSE c \in C : Closest(s, c), -k)
  <2>1. k = CHOOSE l \in -Digits(n)..(Digits(d) + Precision) : InDecade(Scaled(n, d, l))
    BY PlaceChosen
  <2>2. Nearest(n, d) =
          LET l == CHOOSE l \in -Digits(n)..(Digits(d) + Precision) : InDecade(Scaled(n, d, l))
          IN  Number(CHOOSE c \in C : Closest(Scaled(n, d, l), c), -l)
    BY DEF Nearest, InDecade, Closest
  <2> QED
    BY <2>1, <2>2 DEF s
<1> QED
  BY <1>5, <1>7, <1>8 DEF s

-----------------------------------------------------------------------------
(* The database's functions round as decimal does.                         *)

\* Equal ratios are rounded alike.
LEMMA QuotientOfRatio ==
  ASSUME NEW a \in Positive, NEW b \in Positive, NEW x \in Positive, NEW y \in Positive,
         a * y = x * b
  PROVE  Quotient(<<a, b>>) = Quotient(<<x, y>>)
<1>1. PICK q, r \in Nat : q = a \div b /\ r = a % b /\ r < b /\ a = q * b + r
  <2>1. a \in Nat
    BY PositiveProducts
  <2>2. a \div b \in Nat /\ a % b \in Nat /\ a % b < b /\ a = (a \div b) * b + (a % b)
    BY <2>1, DivisionFacts
  <2> QED
    BY <2>2
<1>2. PICK v, w \in Nat : v = x \div y /\ w = x % y /\ w < y /\ x = v * y + w
  <2>1. x \in Nat
    BY PositiveProducts
  <2>2. x \div y \in Nat /\ x % y \in Nat /\ x % y < y /\ x = (x \div y) * y + (x % y)
    BY <2>1, DivisionFacts
  <2> QED
    BY <2>2
<1>3. b \in Nat /\ y \in Nat /\ b > 0 /\ y > 0 /\ b * y \in Positive /\ y * b = b * y
  <2>1. \A i, j \in Nat : i * j = j * i
    BY SMT
  <2> QED
    BY <2>1, PositiveProducts
<1>4. a * y = q * (b * y) + r * y /\ x * b = v * (b * y) + w * b
  <2>1. \A i, j, k, l \in Nat : (i * j + k) * l = i * (j * l) + k * l
    BY SMT
  <2>2. (v * y + w) * b = v * (y * b) + w * b
    BY <2>1, <1>2, <1>3
  <2> QED
    BY <2>1, <2>2, <1>1, <1>2, <1>3
<1>5. r * y \in Nat /\ w * b \in Nat /\ r * y < b * y /\ w * b < b * y
  <2>1. r * y < b * y
    BY <1>1, <1>3, ProductOrder
  <2>2. w * b < y * b
    BY <1>2, <1>3, ProductOrder
  <2> QED
    BY <2>1, <2>2, <1>1, <1>2, <1>3
<1>6. q = v /\ r * y = w * b
  <2> DEFINE p == b * y
             i == r * y
             j == w * b
             z == a * y
  <2>1. p \in Positive /\ i \in Nat /\ j \in Nat /\ i < p /\ j < p
    BY <1>3, <1>5
  <2>2. z = q * p + i /\ z = v * p + j
    BY <1>4
  <2> HIDE DEF p, i, j, z
  <2>3. q = v /\ i = j
    BY <2>1, <2>2, DivisionUnique
  <2> QED
    BY <2>3 DEF i, j
<1>7. (2 * r > b <=> 2 * w > y) /\ (2 * r = b <=> 2 * w = y)
  <2>1. (2 * r) * y = (2 * w) * b /\ 2 * r \in Nat /\ 2 * w \in Nat
    <3>1. \A i, j \in Nat : (2 * i) * j = 2 * (i * j)
      BY SMT
    <3> QED
      BY <3>1, <1>1, <1>2, <1>3, <1>6
  <2>2. PICK R, W \in Nat : R = 2 * r /\ W = 2 * w
    BY <2>1
  <2>3. R * y = W * b
    BY <2>1, <2>2
  <2>4. R > b => W > y
    <3>1. SUFFICES ASSUME R > b, ~ W > y  PROVE FALSE
      OBVIOUS
    <3>2. b * y < R * y /\ W * b <= y * b
      BY <3>1, <2>2, <1>3, ProductOrder
    <3> QED
      BY <3>2, <2>2, <2>3, <1>3
  <2>5. W > y => R > b
    <3>1. SUFFICES ASSUME W > y, ~ R > b  PROVE FALSE
      OBVIOUS
    <3>2. y * b < W * b /\ R * y <= b * y
      BY <3>1, <2>2, <1>3, ProductOrder
    <3> QED
      BY <3>2, <2>2, <2>3, <1>3
  <2>6. R = b => W = y
    <3>1. SUFFICES ASSUME R = b  PROVE W = y
      OBVIOUS
    <3>2. W * b = y * b
      BY <3>1, <2>3, <1>3
    <3> QED
      BY <3>2, <2>2, <1>3, ProductOrder
  <2>7. W = y => R = b
    <3>1. SUFFICES ASSUME W = y  PROVE R = b
      OBVIOUS
    <3>2. R * y = b * y
      BY <3>1, <2>3, <1>3
    <3> QED
      BY <3>2, <2>2, <1>3, ProductOrder
  <2> QED
    BY <2>2, <2>4, <2>5, <2>6, <2>7
<1> QED
  BY <1>1, <1>2, <1>6, <1>7 DEF Quotient

\* The decade of a ratio.
LEMMA DecadeOfRatio ==
  ASSUME NEW a \in Positive, NEW b \in Positive, NEW x \in Positive, NEW y \in Positive,
         a * y = x * b, InDecade(<<a, b>>)
  PROVE  InDecade(<<x, y>>)
<1>1. PICK L, H \in Nat : L = Power[Precision - 1] /\ H = Power[Precision]
  BY PrecisionFacts, PositiveProducts
<1>2. L * b <= a /\ a < H * b
  BY <1>1 DEF InDecade
<1>3. a \in Nat /\ b \in Nat /\ x \in Nat /\ y \in Nat /\ b > 0 /\ y > 0
  BY PositiveProducts
<1>4. L * b \in Nat /\ H * b \in Nat /\ L * y \in Nat /\ H * y \in Nat
  BY <1>3
<1>5. \A i, j, k \in Nat : (i * j) * k = (i * k) * j
  BY SMT
<1>6. (L * y) * b <= x * b
  <2>1. (L * b) * y <= a * y
    BY <1>2, <1>3, <1>4, ProductOrder
  <2> QED
    BY <2>1, <1>3, <1>5
<1>7. x * b < (H * y) * b
  <2>1. a * y < (H * b) * y
    BY <1>2, <1>3, <1>4, ProductOrder
  <2> QED
    BY <2>1, <1>3, <1>5
<1>8. L * y <= x /\ x < H * y
  BY <1>3, <1>4, <1>6, <1>7, ProductOrder
<1> QED
  BY <1>1, <1>8 DEF InDecade

LEMMA DecadeExists ==
  ASSUME NEW n \in Positive, NEW d \in Positive
  PROVE  \E k \in Int : InDecade(Scaled(n, d, k))
<1>1. LeastPlace(n, d) \in Int /\ LeastPlace(n, d) + 1 \in Int
  BY DecadeBounds
<1> QED
  BY <1>1, DecadeReached

\* Decimals in their normal form.
DecimalSet == [c: Positive, e: Int]

LEMMA NumberShift ==
  ASSUME NEW c \in Positive, NEW e \in Int, NEW f \in Int
  PROVE  /\ Number(c, e) \in DecimalSet /\ Shift(Number(c, e), f) = Number(c, e + f)
<1>1. PICK y \in Nat, m \in Positive :
        c = m * Power[y] /\ m % 10 # 0 /\ Number(c, e) = [c |-> m, e |-> e + y]
  BY NumberForm
<1>2. PICK z \in Nat, n \in Positive :
        c = n * Power[z] /\ n % 10 # 0 /\ Number(c, e + f) = [c |-> n, e |-> (e + f) + z]
  <2>1. e + f \in Int
    OBVIOUS
  <2> QED
    BY <2>1, NumberForm
<1>3. m = n /\ y = z
  BY <1>1, <1>2, NormalFormUnique
<1>4. Shift(Number(c, e), f) = [c |-> m, e |-> (e + y) + f]
  BY <1>1 DEF Shift
<1> QED
  BY <1>1, <1>2, <1>3, <1>4 DEF DecimalSet

\* Nearest at a place in the decade; its result is a decimal.
LEMMA NearestAt ==
  ASSUME NEW n \in Positive, NEW d \in Positive, NEW k \in Int, InDecade(Scaled(n, d, k))
  PROVE  /\ Quotient(Scaled(n, d, k)) \in Positive
         /\ Nearest(n, d) = Number(Quotient(Scaled(n, d, k)), -k)
         /\ Nearest(n, d) \in DecimalSet
<1>1. /\ Nearest(n, d) = Number(Quotient(Scaled(n, d, k)), -k)
      /\ Quotient(Scaled(n, d, k)) \in Power[Precision - 1]..Power[Precision]
  BY NearestByDivision
<1>2. Quotient(Scaled(n, d, k)) \in Positive
  <2>1. Power[Precision - 1] \in Positive /\ Power[Precision] \in Positive
    BY PrecisionFacts
  <2> QED
    BY <2>1, <1>1 DEF Positive
<1>3. -k \in Int /\ 0 \in Int
  OBVIOUS
<1> QED
  BY <1>1, <1>2, <1>3, NumberShift

LEMMA NearestTyped ==
  ASSUME NEW n \in Positive, NEW d \in Positive
  PROVE  Nearest(n, d) \in DecimalSet
BY DecadeExists, NearestAt

LEMMA ShiftTyped ==
  ASSUME NEW x \in DecimalSet, NEW e \in Int
  PROVE  Shift(x, e) \in DecimalSet /\ Shift(x, e).c = x.c /\ Shift(x, e).e = x.e + e
BY DEF DecimalSet, Shift

\* Zeros at the end of the operands only shift the rounded quotient.
LEMMA NearestOfShifted ==
  ASSUME NEW n \in Positive, NEW d \in Positive, NEW i \in Nat, NEW j \in Nat
  PROVE  Nearest(n * Power[i], d * Power[j]) = Shift(Nearest(n, d), i - j)
<1>1. PICK k \in Int : InDecade(Scaled(n, d, k))
  BY DecadeExists
<1> DEFINE N == n * Power[i]
           D == d * Power[j]
           l == k + j - i
           s == Scaled(n, d, k)
           t == Scaled(N, D, l)
<1>2. N \in Positive /\ D \in Positive /\ l \in Int
  BY PositiveProducts
<1>3. t[1] * s[2] = s[1] * t[2]
  BY <1>1, ScaledOfShifted
<1>4. s[1] \in Positive /\ s[2] \in Positive /\ t[1] \in Positive /\ t[2] \in Positive
  <2> HIDE DEF N, D, l
  <2> QED
    BY <1>1, <1>2, ScaledTyped
<1>5. s = <<s[1], s[2]>> /\ t = <<t[1], t[2]>>
  BY DEF Scaled
<1>6. PICK a, b, x, y \in Positive : s = <<a, b>> /\ t = <<x, y>> /\ a * y = x * b
  <2> HIDE DEF s, t
  <2> QED
    BY <1>3, <1>4, <1>5
<1>7. Quotient(s) = Quotient(t) /\ InDecade(t)
  <2> HIDE DEF s, t
  <2>1. InDecade(<<a, b>>)
    BY <1>1, <1>6 DEF s
  <2> QED
    BY <2>1, <1>6, QuotientOfRatio, DecadeOfRatio
<1>8. Nearest(N, D) = Number(Quotient(s), -l)
  <2> HIDE DEF N, D, l, s
  <2> QED
    BY <1>2, <1>7, NearestAt DEF t
<1>9. Nearest(n, d) = Number(Quotient(s), -k) /\ Quotient(s) \in Positive
  BY <1>1, NearestAt
<1>10. -k \in Int /\ i - j \in Int /\ -l = -k + (i - j)
  BY <1>1
<1>11. Shift(Number(Quotient(s), -k), i - j) = Number(Quotient(s), -k + (i - j))
  <2> HIDE DEF s
  <2> QED
    BY <1>9, <1>10, NumberShift
<1> QED
  BY <1>8, <1>9, <1>10, <1>11

LEMMA QuotientByOne ==
  ASSUME NEW a \in Nat
  PROVE  Quotient(<<a, 1>>) = a
<1>1. a \div 1 = a /\ a % 1 = 0
  <2>1. 1 \in Positive /\ 0 \in Nat /\ 0 < 1 /\ a * 1 + 0 = a
    BY DEF Positive
  <2>2. (a * 1 + 0) \div 1 = a /\ (a * 1 + 0) % 1 = 0
    BY <2>1, DivisionUnique
  <2> QED
    BY <2>1, <2>2
<1> QED
  BY <1>1 DEF Quotient

\* A coefficient that fits is kept.
LEMMA RoundedShort ==
  ASSUME NEW c \in Positive, NEW e \in Int, Digits(c) <= Precision
  PROVE  Rounded(c, e) = Number(c, e)
<1> DEFINE D == Digits(c)
           k == Precision - D
           a == c * Power[k]
<1>1. D \in Positive /\ D - 1 \in Nat /\ Power[D - 1] <= c /\ c < Power[D]
  BY DigitsFacts
<1>2. k \in Nat /\ k \in Int /\ k >= 0 /\ -k \in Int /\ (D - 1) + k = Precision - 1 /\ D + k = Precision
  BY <1>1, PrecisionFacts DEF Positive
<1>3. c \in Nat /\ c > 0 /\ 1 \in Positive /\ Power[k] \in Positive /\ a \in Positive
  BY <1>2, PositiveProducts DEF Positive
<1>4. Power[Precision - 1] <= a /\ a < Power[Precision]
  <2>1. Power[Precision - 1] = Power[D - 1] * Power[k] /\ Power[Precision] = Power[D] * Power[k]
    BY <1>1, <1>2, PowerOfSum DEF Positive
  <2>2. Power[D - 1] \in Nat /\ Power[D] \in Nat /\ Power[k] \in Nat /\ Power[k] > 0
    BY <1>1, <1>2, PowerExceeds DEF Positive
  <2> HIDE DEF D, k
  <2> QED
    BY <1>1, <1>3, <2>1, <2>2, ProductOrder
<1>5. Scaled(c, 1, k) = <<a, 1>>
  BY <1>2 DEF Scaled
<1>6. a \in Nat /\ a > 0
  BY <1>3, PositiveProducts
<1> HIDE DEF D, k, a
<1>7. InDecade(<<a, 1>>)
  BY <1>4, <1>6, PrecisionFacts DEF InDecade, Positive
<1>8. Nearest(c, 1) = Number(a, -k)
  <2>1. Nearest(c, 1) = Number(Quotient(Scaled(c, 1, k)), -k)
    BY <1>2, <1>3, <1>5, <1>7, NearestAt
  <2> QED
    BY <2>1, <1>5, <1>6, QuotientByOne
<1>9. Number(a, -k) = Number(c, 0)
  <2>1. Number(c * Power[k], -k) = Number(c, -k + k)
    BY <1>2, NumberOfShifted
  <2>2. -k + k = 0
    BY <1>2
  <2> QED
    BY <2>1, <2>2 DEF a
<1>10. Shift(Number(c, 0), e) = Number(c, 0 + e) /\ 0 + e = e
  BY NumberShift
<1> QED
  BY <1>8, <1>9, <1>10 DEF Rounded

\* The digit after the cut, and whether any follows it.
LEMMA DecidingDigit ==
  ASSUME NEW c \in Nat, NEW H \in Positive
  PROVE  LET next == (c \div H) % 10
             rest == c % H
             r == c % (10 * H)
         IN  /\ 2 * r > 10 * H <=> next > 5 \/ (next = 5 /\ rest # 0)
             /\ 2 * r = 10 * H <=> next = 5 /\ rest = 0
<1>1. H \in Nat /\ H > 0 /\ 10 * H \in Nat /\ 10 * H \in Positive /\ 10 \in Positive
  BY DEF Positive
<1>2. PICK u, w \in Nat : u = c \div H /\ w = c % H /\ w < H /\ c = u * H + w
  <2>1. c \div H \in Nat /\ c % H \in Nat /\ c % H < H /\ c = (c \div H) * H + (c % H)
    BY DivisionFacts
  <2> QED
    BY <2>1
<1>3. PICK q, x \in Nat : q = u \div 10 /\ x = u % 10 /\ x < 10 /\ u = q * 10 + x
  <2>1. u \div 10 \in Nat /\ u % 10 \in Nat /\ u % 10 < 10 /\ u = (u \div 10) * 10 + (u % 10)
    BY <1>1, DivisionFacts
  <2> QED
    BY <2>1
<1>4. x * H + w \in Nat /\ x * H + w < 10 * H
  <2>1. x + 1 \in Nat /\ x + 1 <= 10 /\ 10 \in Nat
    BY <1>3
  <2>2. (x + 1) * H <= 10 * H
    BY <2>1, <1>1, ProductOrder
  <2>3. (x + 1) * H = x * H + H /\ x * H \in Nat
    BY <1>1
  <2> QED
    BY <2>2, <2>3, <1>1, <1>2
<1>5. c = q * (10 * H) + (x * H + w)
  <2>1. \A i, j, k, l \in Nat : (i * 10 + j) * k + l = i * (10 * k) + (j * k + l)
    BY SMT
  <2> QED
    BY <2>1, <1>1, <1>2, <1>3
<1>6. c % (10 * H) = x * H + w
  <2> DEFINE b == 10 * H
             r == x * H + w
  <2>1. b \in Positive /\ r \in Nat /\ r < b /\ c = q * b + r
    BY <1>1, <1>4, <1>5
  <2> HIDE DEF b, r
  <2>2. c % b = r
    BY <2>1, DivisionUnique
  <2> QED
    BY <2>2 DEF b, r
<1>7. /\ 2 * (x * H + w) > 10 * H <=> x > 5 \/ (x = 5 /\ w # 0)
      /\ 2 * (x * H + w) = 10 * H <=> x = 5 /\ w = 0
  <2>1. CASE x = 5
    BY <2>1, <1>1, <1>2
  <2>2. CASE x < 5
    <3>1. (x + 1) * H <= 5 * H
      BY <2>2, <1>1, ProductOrder
    <3>2. (x + 1) * H = x * H + H /\ x * H \in Nat
      BY <1>1
    <3> QED
      BY <2>2, <3>1, <3>2, <1>1, <1>2
  <2>3. CASE x > 5
    <3>1. 6 * H <= x * H
      BY <2>3, <1>1, ProductOrder
    <3>2. x * H \in Nat
      BY <1>1
    <3> QED
      BY <2>3, <3>1, <3>2, <1>1, <1>2
  <2> QED
    BY <2>1, <2>2, <2>3
<1> QED
  BY <1>2, <1>3, <1>6, <1>7

\* A coefficient that does not fit is rounded by its deciding digits.
LEMMA RoundedLong ==
  ASSUME NEW c \in Positive, NEW e \in Int, ~ Digits(c) <= Precision
  PROVE  Rounded(c, e) = Decimal34(c, e)
<1> DEFINE D == Digits(c)
           cut == D - Precision
           H == Power[cut - 1]
           b == Power[cut]
           lead == c \div b
           next == (c \div H) % 10
           rest == c % H
           up == next > 5 \/ (next = 5 /\ (rest # 0 \/ lead % 2 = 1))
           Q == IF up THEN lead + 1 ELSE lead
<1>1. D \in Positive /\ D - 1 \in Nat /\ Power[D - 1] <= c /\ c < Power[D]
  BY DigitsFacts
<1>2. /\ cut \in Nat /\ cut - 1 \in Nat /\ ~ (-cut >= 0) /\ -(-cut) = cut /\ -cut \in Int
      /\ D - 1 = (Precision - 1) + cut /\ D = Precision + cut /\ (cut - 1) + 1 = cut
  BY <1>1, PrecisionFacts DEF Positive
<1>3. c \in Nat /\ c > 0 /\ 1 \in Positive /\ H \in Positive /\ b \in Positive /\ b = 10 * H
  <2>1. b = 10 * H
    BY <1>2, PowerFacts
  <2> QED
    BY <2>1, <1>2, PositiveProducts DEF Positive
<1>4. Scaled(c, 1, -cut) = <<c, b>>
  <2>1. Scaled(c, 1, -cut) = <<c, 1 * b>>
    BY <1>2 DEF Scaled
  <2>2. 1 * b = b
    <3> HIDE DEF b
    <3> QED
      BY <1>3 DEF Positive
  <2> QED
    BY <2>1, <2>2
<1>5. InDecade(<<c, b>>)
  <2>1. Power[D - 1] = Power[Precision - 1] * b /\ Power[D] = Power[Precision] * b
    <3>1. cut \in Nat /\ Precision \in Nat /\ Precision - 1 \in Nat
      BY <1>2, PrecisionFacts
    <3>2. Power[(Precision - 1) + cut] = Power[Precision - 1] * b
      BY <3>1, PowerOfSum
    <3>3. Power[Precision + cut] = Power[Precision] * b
      BY <3>1, PowerOfSum
    <3> QED
      BY <1>2, <3>2, <3>3, Zenon
  <2> QED
    BY <2>1, <1>1 DEF InDecade
<1>6. Quotient(<<c, b>>) = Q
  <2> HIDE DEF H, b
  <2>1. /\ 2 * (c % b) > b <=> next > 5 \/ (next = 5 /\ rest # 0)
        /\ 2 * (c % b) = b <=> next = 5 /\ rest = 0
    BY <1>3, DecidingDigit
  <2>2. Quotient(<<c, b>>) = IF 2 * (c % b) > b \/ (2 * (c % b) = b /\ lead % 2 = 1)
                             THEN lead + 1 ELSE lead
    BY DEF Quotient
  <2> HIDE DEF lead, next, rest
  <2> QED
    BY <2>1, <2>2
<1>7. Decimal34(c, e) = Number(Q, e + cut)
  BY DEF Decimal34
<1>8. Nearest(c, 1) = Number(Q, cut) /\ Q \in Positive
  <2> HIDE DEF cut, b, Q
  <2>1. /\ Nearest(c, 1) = Number(Quotient(Scaled(c, 1, -cut)), -(-cut))
        /\ Quotient(Scaled(c, 1, -cut)) \in Positive
    BY <1>2, <1>3, <1>4, <1>5, NearestAt
  <2> QED
    BY <2>1, <1>2, <1>4, <1>6
<1>9. Shift(Number(Q, cut), e) = Number(Q, cut + e) /\ cut + e = e + cut
  <2> HIDE DEF cut, Q
  <2>1. cut \in Int /\ cut + e = e + cut
    BY <1>2
  <2> QED
    BY <2>1, <1>8, NumberShift
<1> QED
  BY <1>7, <1>8, <1>9 DEF Rounded

\* adjustment_decimal34 rounds as decimal does.
LEMMA RoundingsAgree ==
  ASSUME NEW c \in Positive, NEW e \in Int
  PROVE  Decimal34(c, e) = Rounded(c, e) /\ Rounded(c, e) \in DecimalSet
<1>1. Decimal34(c, e) = Rounded(c, e)
  BY RoundedShort, RoundedLong DEF Decimal34
<1>2. 1 \in Positive
  BY DEF Positive
<1> QED
  BY <1>1, <1>2, NearestTyped, ShiftTyped DEF Rounded

\* adjustment_divide34 rounds as decimal does: its estimate is corrected to the
\* one place at which the quotient has Precision digits.
LEMMA DivisionsAgree ==
  ASSUME NEW n \in DecimalSet, NEW d \in DecimalSet
  PROVE  /\ Divide34(n, d) = Shift(Nearest(n.c, d.c), n.e - d.e)
         /\ Divide34(n, d) \in DecimalSet
<1> DEFINE E == n.e - d.e
           estimate == (Digits(n.c) + n.e) - (Digits(d.c) + d.e)
           trial == Scaled(n.c, d.c, E - estimate)
           exponent == IF trial[1] < trial[2] THEN estimate - 1 ELSE estimate
           places == Precision - 1 - exponent
           s == Scaled(n.c, d.c, E + places)
           p == LeastPlace(n.c, d.c)
           v == Scaled(n.c, d.c, p)
           L == Power[Precision - 1]
<1>1. n.c \in Positive /\ d.c \in Positive /\ n.e \in Int /\ d.e \in Int /\ E \in Int
  BY DEF DecimalSet
<1>2. Digits(n.c) \in Nat /\ Digits(d.c) \in Nat
  BY <1>1, DigitsFacts DEF Positive
<1>3. /\ E - estimate \in Int /\ estimate \in Int /\ p = (E - estimate) + (Precision - 1)
      /\ E + (Precision - 1 - estimate) = p /\ E + (Precision - 1 - (estimate - 1)) = p + 1
      /\ p \in Int
  BY <1>1, <1>2, PrecisionFacts DEF LeastPlace
<1>4. v[1] * trial[2] = (L * trial[1]) * v[2]
  <2>1. \A k \in Int, j \in Nat : Scaled(n.c, d.c, k + j)[1] * Scaled(n.c, d.c, k)[2] =
           (Power[j] * Scaled(n.c, d.c, k)[1]) * Scaled(n.c, d.c, k + j)[2]
    BY <1>1, ScaledLadder
  <2>2. E - estimate \in Int /\ Precision - 1 \in Nat
    BY <1>3, PrecisionFacts
  <2> DEFINE k == E - estimate
  <2> HIDE DEF k
  <2>3. Scaled(n.c, d.c, k + (Precision - 1))[1] * Scaled(n.c, d.c, k)[2] =
           (L * Scaled(n.c, d.c, k)[1]) * Scaled(n.c, d.c, k + (Precision - 1))[2]
    BY <2>1, <2>2 DEF k
  <2> QED
    BY <2>3, <1>3 DEF k
<1>5. L * v[2] <= v[1] <=> ~ (trial[1] < trial[2])
  <2>1. PICK V1, V2, T1, T2, L1 \in Nat :
          V1 = v[1] /\ V2 = v[2] /\ T1 = trial[1] /\ T2 = trial[2] /\ L1 = L /\ V2 > 0 /\ T2 > 0 /\ L1 > 0
    <3>1. v[1] \in Positive /\ v[2] \in Positive /\ trial[1] \in Positive /\ trial[2] \in Positive
      <4>1. \A e \in Int : Scaled(n.c, d.c, e)[1] \in Positive /\ Scaled(n.c, d.c, e)[2] \in Positive
        BY <1>1, ScaledTyped
      <4> HIDE DEF p, E, estimate
      <4> QED
        BY <4>1, <1>3
    <3>2. L \in Positive
      BY PrecisionFacts
    <3> HIDE DEF v, trial, L
    <3> QED
      BY <3>1, <3>2 DEF Positive
  <2>2. V1 * T2 = (L1 * T1) * V2
    BY <2>1, <1>4
  <2>3. (L1 * T1) * V2 = T1 * (L1 * V2) /\ (L1 * V2) * T2 = T2 * (L1 * V2) /\ L1 * V2 \in Nat /\ L1 * V2 > 0
    <3>1. \A i, j, k \in Nat : (i * j) * k = j * (i * k) /\ (i * j) * k = k * (i * j)
      BY SMT
    <3>2. \A i, j \in Nat : i > 0 /\ j > 0 => i * j > 0
      BY Z3
    <3> QED
      BY <3>1, <3>2, <2>1
  <2>4. L1 * V2 <= V1 => T2 <= T1
    <3>1. SUFFICES ASSUME L1 * V2 <= V1  PROVE T2 <= T1
      OBVIOUS
    <3>2. (L1 * V2) * T2 <= V1 * T2
      BY <3>1, <2>3, ProductOrder
    <3>3. T2 * (L1 * V2) <= T1 * (L1 * V2)
      BY <3>2, <2>2, <2>3
    <3> QED
      BY <3>3, <2>3, ProductOrder
  <2>5. T2 <= T1 => L1 * V2 <= V1
    <3>1. SUFFICES ASSUME T2 <= T1  PROVE L1 * V2 <= V1
      OBVIOUS
    <3>2. T2 * (L1 * V2) <= T1 * (L1 * V2)
      BY <3>1, <2>3, ProductOrder
    <3>3. (L1 * V2) * T2 <= V1 * T2
      BY <3>2, <2>2, <2>3
    <3> QED
      BY <3>3, <2>1, <2>3, ProductOrder
  <2>6. L1 * V2 <= V1 <=> ~ (T1 < T2)
    BY <2>4, <2>5
  <2> QED
    BY <2>1, <2>6
<1>6. /\ E + places = IF L * v[2] <= v[1] THEN p ELSE p + 1
      /\ places \in Int
  <2>1. exponent = IF L * v[2] <= v[1] THEN estimate ELSE estimate - 1
    BY <1>5
  <2>2. CASE L * v[2] <= v[1]
    <3>1. exponent = estimate
      BY <2>1, <2>2
    <3> QED
      BY <3>1, <2>2, <1>3, PrecisionFacts
  <2>3. CASE ~ (L * v[2] <= v[1])
    <3>1. exponent = estimate - 1
      BY <2>1, <2>3
    <3> QED
      BY <3>1, <2>3, <1>3, PrecisionFacts
  <2> QED
    BY <2>2, <2>3
<1>7. InDecade(s) /\ E + places \in Int
  <2>1. IF L * v[2] <= v[1] THEN InDecade(v) ELSE InDecade(Scaled(n.c, d.c, p + 1))
    BY <1>1, DecadeReached
  <2>2. p + 1 \in Int
    BY <1>3
  <2> HIDE DEF p, places, E, L
  <2> QED
    BY <2>1, <2>2, <1>3, <1>6
<1>8. Divide34(n, d) = Number(Quotient(s), -places)
  BY DEF Divide34, Quotient
<1>9. Nearest(n.c, d.c) = Number(Quotient(s), -(E + places)) /\ Quotient(s) \in Positive
  <2> DEFINE k == E + places
  <2> HIDE DEF k
  <2>1. k \in Int /\ InDecade(Scaled(n.c, d.c, k))
    BY <1>7 DEF k
  <2>2. /\ Nearest(n.c, d.c) = Number(Quotient(Scaled(n.c, d.c, k)), -k)
        /\ Quotient(Scaled(n.c, d.c, k)) \in Positive
    BY <2>1, <1>1, NearestAt
  <2> QED
    BY <2>2 DEF k
<1>10. Shift(Number(Quotient(s), -(E + places)), E) = Number(Quotient(s), -places)
  <2>1. -(E + places) \in Int /\ -(E + places) + E = -places
    BY <1>1, <1>6
  <2> HIDE DEF E, places, s
  <2> QED
    BY <2>1, <1>1, <1>9, NumberShift
<1>11. Number(Quotient(s), -places) \in DecimalSet
  <2>1. -places \in Int
    BY <1>6
  <2> HIDE DEF s, places
  <2> QED
    BY <2>1, <1>9, NumberShift
<1> QED
  BY <1>8, <1>9, <1>10, <1>11

LEMMA MinOfTwo ==
  ASSUME NEW a \in Int, NEW b \in Int
  PROVE  Min({a, b}) \in Int /\ Min({a, b}) = (IF a <= b THEN a ELSE b)
<1> DEFINE S == {a, b}
           m == CHOOSE x \in S : \A y \in S : x <= y
<1>1. \E x \in S : \A y \in S : x <= y
  BY DEF S
<1>2. m \in S /\ \A y \in S : m <= y
  <2> HIDE DEF S
  <2> QED
    BY <1>1
<1>3. m = (IF a <= b THEN a ELSE b)
  <2> HIDE DEF m
  <2> QED
    BY <1>2 DEF S
<1>4. Min(S) = m
  BY DEF Min
<1> QED
  BY <1>3, <1>4

\* Results of decimal operations are decimals, and both sides have the same.
LEMMA TimesTyped ==
  ASSUME NEW x \in DecimalSet, NEW y \in DecimalSet
  PROVE  /\ Times(x, y) \in DecimalSet
         /\ Decimal34(x.c * y.c, x.e + y.e) = Times(x, y)
<1>1. x.c * y.c \in Positive /\ x.e + y.e \in Int
  BY PositiveProducts DEF DecimalSet
<1> QED
  BY <1>1, RoundingsAgree DEF Times

LEMMA SumTyped ==
  ASSUME NEW x \in DecimalSet, NEW y \in DecimalSet
  PROVE  Sum(x, y).c \in Positive /\ Sum(x, y).e \in Int
<1> DEFINE e == Min({x.e, y.e})
<1>1. x.c \in Positive /\ y.c \in Positive /\ x.e \in Int /\ y.e \in Int
  BY DEF DecimalSet
<1>2. e \in Int /\ e = (IF x.e <= y.e THEN x.e ELSE y.e)
  BY <1>1, MinOfTwo
<1> HIDE DEF e
<1>3. x.e - e \in Nat /\ y.e - e \in Nat
  BY <1>1, <1>2
<1>4. x.c * Power[x.e - e] \in Positive /\ y.c * Power[y.e - e] \in Positive
  BY <1>1, <1>3, PositiveProducts
<1>5. \A a, b \in Positive : a + b \in Positive
  BY DEF Positive
<1>6. Sum(x, y) = [c |-> x.c * Power[x.e - e] + y.c * Power[y.e - e], e |-> e]
  BY DEF Sum, e
<1> QED
  BY <1>2, <1>4, <1>5, <1>6

LEMMA AddTyped ==
  ASSUME NEW x \in DecimalSet, NEW y \in DecimalSet
  PROVE  Add(x, y) \in DecimalSet /\ DatabaseAdd(x, y) = Add(x, y)
BY SumTyped, RoundingsAgree DEF Add, DatabaseAdd

LEMMA MulDivTyped ==
  ASSUME NEW x \in DecimalSet, NEW n \in DecimalSet, NEW d \in DecimalSet
  PROVE  MulDiv(x, n, d) \in DecimalSet /\ DatabaseMulDiv(x, n, d) = MulDiv(x, n, d)
<1>1. Times(x, n) \in DecimalSet /\ Decimal34(x.c * n.c, x.e + n.e) = Times(x, n)
  BY TimesTyped
<1> DEFINE p == Times(x, n)
<1>2. MulDiv(x, n, d) = Shift(Nearest(p.c, d.c), p.e - d.e)
  BY DEF MulDiv
<1>3. DatabaseMulDiv(x, n, d) = Divide34(p, d)
  BY <1>1 DEF DatabaseMulDiv
<1> HIDE DEF p
<1> QED
  BY <1>1, <1>2, <1>3, DivisionsAgree DEF p

\* The hand-written functions of the database return what decimal returns.
THEOREM KernelsAgree ==
  /\ \A n, d \in Positive :
       /\ Decimal34(n * d, 0) = Rounded(n * d, 0)
       /\ Divide34(Number(n, 0), Number(d, 0)) = Nearest(n, d)
  /\ \A x, y \in DecimalSet : DatabaseAdd(x, y) = Add(x, y)
  /\ \A x, n, d \in DecimalSet : DatabaseMulDiv(x, n, d) = MulDiv(x, n, d)
<1>1. ASSUME NEW n \in Positive, NEW d \in Positive
      PROVE  Decimal34(n * d, 0) = Rounded(n * d, 0)
  <2>1. n * d \in Positive /\ 0 \in Int
    BY PositiveProducts
  <2> QED
    BY <2>1, RoundingsAgree
<1>2. ASSUME NEW n \in Positive, NEW d \in Positive
      PROVE  Divide34(Number(n, 0), Number(d, 0)) = Nearest(n, d)
  <2>1. Number(n, 0) \in DecimalSet /\ Number(d, 0) \in DecimalSet
    BY NumberShift
  <2>2. PICK i \in Nat, m \in Positive :
          n = m * Power[i] /\ m % 10 # 0 /\ Number(n, 0) = [c |-> m, e |-> 0 + i]
    BY NumberForm
  <2>3. PICK j \in Nat, v \in Positive :
          d = v * Power[j] /\ v % 10 # 0 /\ Number(d, 0) = [c |-> v, e |-> 0 + j]
    BY NumberForm
  <2>4. Divide34(Number(n, 0), Number(d, 0)) = Shift(Nearest(m, v), (0 + i) - (0 + j))
    BY <2>1, <2>2, <2>3, DivisionsAgree
  <2>5. Nearest(n, d) = Shift(Nearest(m, v), i - j)
    BY <2>2, <2>3, NearestOfShifted
  <2> QED
    BY <2>4, <2>5
<1> QED
  BY <1>1, <1>2, AddTyped, MulDivTyped

-----------------------------------------------------------------------------
(* Factor sets.                                                            *)

\* Actions as they are stored: each of one kind, with the decimals of its kind.
ActionForm(a) ==
  /\ a.at \in Nat
  /\ \/ a.kind = "split" /\ a.from \in DecimalSet /\ a.to \in DecimalSet
     \/ a.kind = "dividend" /\ a.cash \in DecimalSet

\* A set maps to as many values as it has members when no two of them have the same.
LEMMA ImageCardinality ==
  ASSUME NEW S, IsFiniteSet(S), NEW f \in [S -> Nat]
  PROVE  Cardinality({f[x] : x \in S}) = Cardinality(S) <=> \A x, y \in S : f[x] = f[y] => x = y
<1> DEFINE T == {f[x] : x \in S}
<1>1. f \in [S -> T] /\ \A t \in T : \E s \in S : f[s] = t
  OBVIOUS
<1>2. f \in Surjection(S, T)
  BY <1>1 DEF Surjection
<1>3. Cardinality(T) = Cardinality(S) <=> f \in Injection(S, T)
  BY <1>2, FS_Surjection
<1>4. f \in Injection(S, T) <=> \A x, y \in S : f[x] = f[y] => x = y
  BY <1>1 DEF Injection, IsInjective
<1> QED
  BY <1>3, <1>4

LEMMA AtMostOne ==
  ASSUME NEW S, IsFiniteSet(S)
  PROVE  ~ Cardinality(S) > 1 <=> \A x, y \in S : x = y
<1>1. Cardinality(S) \in Nat
  BY FS_CardinalityType
<1>2. ASSUME NEW x \in S, NEW y \in S, x # y
      PROVE  Cardinality(S) > 1
  <2>1. IsFiniteSet({x}) /\ Cardinality({x}) = 1
    BY FS_Singleton
  <2>2. IsFiniteSet({x} \cup {y}) /\ Cardinality({x} \cup {y}) = 2
    <3> DEFINE X == {x}
    <3>1. IsFiniteSet(X) /\ Cardinality(X) = 1 /\ y \notin X
      BY <2>1, <1>2
    <3> HIDE DEF X
    <3>2. IsFiniteSet(X \cup {y}) /\ Cardinality(X \cup {y}) = 1 + 1
      BY <3>1, FS_AddElement
    <3> QED
      BY <3>2 DEF X
  <2>3. {x} \cup {y} \in SUBSET S
    BY <1>2
  <2>4. Cardinality({x} \cup {y}) <= Cardinality(S)
    BY <2>3, FS_Subset
  <2> QED
    BY <2>2, <2>4, <1>1
<1>3. ASSUME \A x, y \in S : x = y
      PROVE  ~ Cardinality(S) > 1
  <2>1. CASE S = {}
    BY <2>1, FS_EmptySet
  <2>2. CASE S # {}
    <3>1. PICK x \in S : S = {x}
      BY <2>2, <1>3
    <3> QED
      BY <3>1, FS_Singleton
  <2> QED
    BY <2>1, <2>2
<1> QED
  BY <1>2, <1>3

\* The client's rule of one action per session and the checks of the database
\* admit the same actions.
LEMMA SameActionsAdmitted ==
  ASSUME NEW actions, IsFiniteSet(actions), \A a \in actions : ActionForm(a), NEW n \in Nat
  PROVE  /\ ClientAdmits(actions, n) <=> DatabaseAdmits(actions, n)
         /\ ClientAdmits(actions, n) => \A a, b \in actions : a.at = b.at => a = b
<1> DEFINE f == [a \in actions |-> a.at]
           Single == \A a, b \in actions : a.at = b.at => a = b
<1>1. f \in [actions -> Nat]
  BY DEF ActionForm
<1>2. {f[a] : a \in actions} = {a.at : a \in actions}
  OBVIOUS
<1>3. Cardinality({a.at : a \in actions}) = Cardinality(actions) <=> Single
  <2>1. Cardinality({f[a] : a \in actions}) = Cardinality(actions)
          <=> \A a, b \in actions : f[a] = f[b] => a = b
    <3> HIDE DEF f
    <3> QED
      BY <1>1, ImageCardinality
  <2> QED
    BY <2>1, <1>2
<1>4. OnePerSession(actions) <=> Single
  <2>1. \A i : LET S == {a \in actions : a.at = i}
               IN  ~ Cardinality(S) > 1 <=> \A a, b \in S : a = b
    <3> TAKE i
    <3> DEFINE S == {a \in actions : a.at = i}
    <3>1. S \in SUBSET actions
      OBVIOUS
    <3>2. IsFiniteSet(S)
      BY <3>1, FS_Subset
    <3> HIDE DEF S
    <3>3. ~ Cardinality(S) > 1 <=> \A a, b \in S : a = b
      BY <3>2, AtMostOne
    <3> QED
      BY <3>3 DEF S
  <2>2. OnePerSession(actions) <=> \A i \in {a.at : a \in actions} :
          \A a, b \in {a \in actions : a.at = i} : a = b
    BY <2>1 DEF OnePerSession
  <2> QED
    BY <2>2
<1>5. (HasRawRow("split", actions, n) /\ HasRawRow("dividend", actions, n))
        <=> \A a \in actions : a.at \in 1..n
  BY DEF HasRawRow, ActionForm
<1> QED
  BY <1>3, <1>4, <1>5 DEF ClientAdmits, DatabaseAdmits

\* What a session's action does to the factors: the step of the client's loop...
ClientTurn(closes, actions, i, later) ==
  LET close == closes[i + 1]
      today == {a \in actions : a.at = i + 1}
  IN IF \E a \in today : a.kind = "split"
     THEN LET a == CHOOSE a \in today : TRUE IN
          [price  |-> MulDiv(later.price, a.from, a.to),
           volume |-> MulDiv(later.volume, a.to, a.from)]
     ELSE IF today # {}
     THEN LET a == CHOOSE a \in today : TRUE IN
          [later EXCEPT !.price = MulDiv(@, close, Add(close, a.cash))]
     ELSE later

\* ... and of the database's.
DatabaseTurn(closes, actions, k, expected) ==
  LET n == Len(closes)
      close == closes[n - k + 1]
      splits == {a \in actions : a.kind = "split" /\ a.at = n - k + 1}
      dividends == {a \in actions : a.kind = "dividend" /\ a.at = n - k + 1}
  IN IF splits # {}
     THEN LET a == CHOOSE a \in splits : TRUE IN
          [price  |-> DatabaseMulDiv(expected.price, a.from, a.to),
           volume |-> DatabaseMulDiv(expected.volume, a.to, a.from)]
     ELSE IF dividends # {}
     THEN LET a == CHOOSE a \in dividends : TRUE IN
          [expected EXCEPT !.price = DatabaseMulDiv(@, close, DatabaseAdd(close, a.cash))]
     ELSE expected

FactorPair == [price: DecimalSet, volume: DecimalSet]

\* Both steps give the same factors, whatever the factors so far.
LEMMA TurnsAgree ==
  ASSUME NEW n \in Nat, NEW closes \in [1..n -> DecimalSet],
         NEW actions, \A a \in actions : ActionForm(a),
         \A a, b \in actions : a.at = b.at => a = b,
         NEW k \in 1..(n - 1), NEW later \in FactorPair
  PROVE  /\ DatabaseTurn(closes, actions, k, later) = ClientTurn(closes, actions, n - k, later)
         /\ ClientTurn(closes, actions, n - k, later) \in FactorPair
<1> DEFINE i == n - k + 1
           close == closes[i]
           today == {a \in actions : a.at = i}
           splits == {a \in actions : a.kind = "split" /\ a.at = i}
           dividends == {a \in actions : a.kind = "dividend" /\ a.at = i}
<1>1. Len(closes) = n /\ (n - k) + 1 = i /\ i \in 1..n /\ close \in DecimalSet
  <2>1. i \in 1..n
    OBVIOUS
  <2>2. closes \in Seq(DecimalSet) /\ Len(closes) = n
    BY SMT
  <2> QED
    BY <2>1, <2>2
<1>2. later.price \in DecimalSet /\ later.volume \in DecimalSet
  BY DEF FactorPair
<1>3. CASE today = {}
  <2>1. splits = {} /\ dividends = {}
    BY <1>3
  <2>2. DatabaseTurn(closes, actions, k, later) = later
    <3> HIDE DEF splits, dividends
    <3> QED
      BY <1>1, <2>1 DEF DatabaseTurn, splits, dividends
  <2>3. ClientTurn(closes, actions, n - k, later) = later
    BY <1>1, <1>3 DEF ClientTurn
  <2> QED
    BY <2>2, <2>3
<1>4. CASE today # {}
  <2>1. PICK a \in actions : a.at = i /\ today = {a}
    BY <1>4
  <2>2. (CHOOSE b \in {a} : TRUE) = a
    OBVIOUS
  <2>3. CASE a.kind = "split"
    <3>1. splits = {a} /\ a.from \in DecimalSet /\ a.to \in DecimalSet
      BY <2>1, <2>3 DEF ActionForm
    <3>2. DatabaseTurn(closes, actions, k, later) =
            [price  |-> DatabaseMulDiv(later.price, a.from, a.to),
             volume |-> DatabaseMulDiv(later.volume, a.to, a.from)]
      <4>1. DatabaseTurn(closes, actions, k, later) =
              LET b == CHOOSE b \in splits : TRUE IN
              [price  |-> DatabaseMulDiv(later.price, b.from, b.to),
               volume |-> DatabaseMulDiv(later.volume, b.to, b.from)]
        <5>1. splits # {}
          BY <3>1
        <5> QED
          BY <1>1, <5>1 DEF DatabaseTurn
      <4> HIDE DEF splits
      <4> QED
        BY <4>1, <3>1, <2>2
    <3>3. ClientTurn(closes, actions, n - k, later) =
            [price  |-> MulDiv(later.price, a.from, a.to),
             volume |-> MulDiv(later.volume, a.to, a.from)]
      <4>1. ClientTurn(closes, actions, n - k, later) =
              LET b == CHOOSE b \in today : TRUE IN
              [price  |-> MulDiv(later.price, b.from, b.to),
               volume |-> MulDiv(later.volume, b.to, b.from)]
        <5>1. \E b \in today : b.kind = "split"
          BY <2>1, <2>3
        <5> QED
          BY <1>1, <5>1 DEF ClientTurn
      <4> HIDE DEF today
      <4> QED
        BY <4>1, <2>1, <2>2
    <3> QED
      BY <3>1, <3>2, <3>3, <1>2, MulDivTyped DEF FactorPair
  <2>4. CASE a.kind = "dividend"
    <3>1. splits = {} /\ dividends = {a} /\ a.cash \in DecimalSet
      BY <2>1, <2>4 DEF ActionForm
    <3>2. DatabaseTurn(closes, actions, k, later) =
            [later EXCEPT !.price = DatabaseMulDiv(@, close, DatabaseAdd(close, a.cash))]
      <4>1. DatabaseTurn(closes, actions, k, later) =
              LET b == CHOOSE b \in dividends : TRUE IN
              [later EXCEPT !.price = DatabaseMulDiv(@, close, DatabaseAdd(close, b.cash))]
        <5>1. splits = {} /\ dividends # {}
          BY <3>1
        <5> QED
          BY <1>1, <5>1 DEF DatabaseTurn
      <4> HIDE DEF dividends, close
      <4> QED
        BY <4>1, <3>1, <2>2
    <3>3. ClientTurn(closes, actions, n - k, later) =
            [later EXCEPT !.price = MulDiv(@, close, Add(close, a.cash))]
      <4>1. ClientTurn(closes, actions, n - k, later) =
              LET b == CHOOSE b \in today : TRUE IN
              [later EXCEPT !.price = MulDiv(@, close, Add(close, b.cash))]
        <5>1. today # {} /\ ~ (\E b \in today : b.kind = "split")
          BY <2>1, <2>4
        <5> QED
          BY <1>1, <5>1 DEF ClientTurn
      <4> HIDE DEF today, close
      <4> QED
        BY <4>1, <2>1, <2>2
    <3>4. /\ Add(close, a.cash) \in DecimalSet
          /\ DatabaseAdd(close, a.cash) = Add(close, a.cash)
      <4> HIDE DEF close
      <4> QED
        BY <3>1, <1>1, AddTyped
    <3>5. /\ MulDiv(later.price, close, Add(close, a.cash)) \in DecimalSet
          /\ DatabaseMulDiv(later.price, close, Add(close, a.cash)) =
               MulDiv(later.price, close, Add(close, a.cash))
      <4> HIDE DEF close
      <4> QED
        BY <3>4, <1>1, <1>2, MulDivTyped
    <3> HIDE DEF close
    <3> QED
      BY <3>2, <3>3, <3>4, <3>5 DEF FactorPair
  <2> QED
    BY <2>1, <2>3, <2>4 DEF ActionForm
<1> QED
  BY <1>3, <1>4

Ones == [price |-> One, volume |-> One]

\* The loops over a window, from the anchor backwards.
ClientLoop(closes, actions) ==
  CHOOSE f : f = [i \in 1..Len(closes) |->
                    IF i = Len(closes) THEN Ones ELSE ClientTurn(closes, actions, i, f[i + 1])]

DatabaseLoop(closes, actions) ==
  CHOOSE f : f = [k \in 0..(Len(closes) - 1) |->
                    IF k = 0 THEN Ones ELSE DatabaseTurn(closes, actions, k, f[k - 1])]

LEMMA LoopsOfFactors ==
  ASSUME NEW closes, NEW actions
  PROVE  /\ ClientFactors(closes, actions) = ClientLoop(closes, actions)
         /\ DatabaseFactors(closes, actions) =
              [i \in 1..Len(closes) |-> DatabaseLoop(closes, actions)[Len(closes) - i]]
<1>1. ClientFactors(closes, actions) = ClientLoop(closes, actions)
  BY DEF ClientFactors, ClientLoop, ClientTurn, Ones
<1>2. DatabaseFactors(closes, actions) =
              [i \in 1..Len(closes) |-> DatabaseLoop(closes, actions)[Len(closes) - i]]
  BY DEF DatabaseFactors, DatabaseLoop, DatabaseTurn, Ones
<1> QED
  BY <1>1, <1>2

DerivedAlike(n, closes, actions) ==
  \E g \in [0..(n - 1) -> FactorPair] :
    /\ g[0] = Ones
    /\ ClientFactors(closes, actions) = [i \in 1..n |-> g[n - i]]
    /\ DatabaseFactors(closes, actions) = [i \in 1..n |-> g[n - i]]

\* Both loops run through the same factors.
LEMMA FactorsDerived ==
  ASSUME NEW n \in Positive, NEW closes \in [1..n -> DecimalSet],
         NEW actions, \A a \in actions : ActionForm(a),
         \A a, b \in actions : a.at = b.at => a = b
  PROVE  DerivedAlike(n, closes, actions)
<1> DEFINE turn == [k \in 1..(n - 1) |->
                      [v \in FactorPair |-> ClientTurn(closes, actions, n - k, v)]]
<1>1. n \in Nat /\ n - 1 \in Nat /\ n > 0
  BY DEF Positive
<1>2. Len(closes) = n
  <2>1. closes \in Seq(DecimalSet) /\ Len(closes) = n
    BY <1>1
  <2> QED
    BY <2>1
<1>3. \A k \in 1..(n - 1), v \in FactorPair :
        /\ DatabaseTurn(closes, actions, k, v) = ClientTurn(closes, actions, n - k, v)
        /\ ClientTurn(closes, actions, n - k, v) \in FactorPair
  BY <1>1, TurnsAgree
<1>4. turn \in [1..(n - 1) -> [FactorPair -> FactorPair]]
  BY <1>3
<1>5. Ones \in FactorPair
  <2>1. 1 \in Positive /\ 0 \in Int
    BY DEF Positive
  <2> QED
    BY <2>1, NumberShift DEF Ones, One, FactorPair
<1>6. PICK g \in [0..(n - 1) -> FactorPair] : Iterates(g, Ones, turn, n - 1)
  <2> HIDE DEF turn
  <2> QED
    BY <1>1, <1>4, <1>5, FiniteIteration
<1>7. g[0] = Ones /\ \A k \in 1..(n - 1) : g[k - 1] \in FactorPair
                       /\ g[k] = ClientTurn(closes, actions, n - k, g[k - 1])
  <2>1. \A k \in 1..(n - 1) : k - 1 \in 0..(n - 1)
    BY <1>1
  <2> QED
    BY <1>6, <2>1 DEF Iterates
<1>8. ClientLoop(closes, actions) = [i \in 1..n |-> g[n - i]]
  <2> DEFINE Turned(f) == [i \in 1..n |->
                             IF i = n THEN Ones ELSE ClientTurn(closes, actions, i, f[i + 1])]
             f == ClientLoop(closes, actions)
             h == [i \in 1..n |-> g[n - i]]
  <2>1. f = CHOOSE e : e = Turned(e)
    BY <1>2 DEF ClientLoop
  <2>2. h = Turned(h)
    <3>1. \A i \in 1..n : i # n => /\ n - i \in 1..(n - 1) /\ n - (n - i) = i
                                  /\ (n - i) - 1 = n - (i + 1) /\ i + 1 \in 1..n
      BY <1>1
    <3>2. \A i \in 1..n : i # n => h[i] = ClientTurn(closes, actions, i, h[i + 1])
      <4> TAKE i \in 1..n
      <4> HAVE i # n
      <4>1. h[i] = g[n - i] /\ h[i + 1] = g[(n - i) - 1]
        BY <3>1
      <4>2. g[n - i] = ClientTurn(closes, actions, n - (n - i), g[(n - i) - 1])
        BY <3>1, <1>7
      <4> QED
        BY <4>1, <4>2, <3>1
    <3>3. h[n] = Ones
      BY <1>1, <1>7
    <3> QED
      BY <3>2, <3>3
  <2> HIDE DEF f, h, Turned
  <2>3. f = Turned(f)
    BY <2>1, <2>2
  <2>4. \A i \in 1..n : f[i] = IF i = n THEN Ones ELSE ClientTurn(closes, actions, i, f[i + 1])
    BY <2>3 DEF Turned
  <2> DEFINE Same == {k \in Nat : k <= n - 1 => f[n - k] = g[k]}
  <2>5. 0 \in Same
    <3>1. f[n] = Ones /\ n - 0 = n
      BY <1>1, <2>4
    <3> QED
      BY <3>1, <1>7
  <2>6. \A k \in Nat : k \in Same => k + 1 \in Same
    <3> TAKE k \in Nat
    <3> HAVE k \in Same
    <3>1. SUFFICES ASSUME k + 1 <= n - 1  PROVE f[n - (k + 1)] = g[k + 1]
      OBVIOUS
    <3>2. /\ k + 1 \in 1..(n - 1) /\ (k + 1) - 1 = k /\ n - (k + 1) \in 1..n
          /\ n - (k + 1) # n /\ (n - (k + 1)) + 1 = n - k
      BY <3>1, <1>1
    <3>3. f[n - (k + 1)] = ClientTurn(closes, actions, n - (k + 1), f[n - k])
      BY <3>2, <2>4
    <3>4. g[k + 1] = ClientTurn(closes, actions, n - (k + 1), g[k])
      BY <3>2, <1>7
    <3>5. f[n - k] = g[k]
      <4>1. k <= n - 1
        BY <3>1, <1>1
      <4> QED
        BY <4>1
    <3> QED
      BY <3>3, <3>4, <3>5
  <2>7. Nat \subseteq Same
    <3> HIDE DEF Same
    <3> QED
      BY <2>5, <2>6, NatInduct
  <2>8. \A i \in 1..n : f[i] = h[i]
    <3> TAKE i \in 1..n
    <3>1. n - i \in Nat /\ n - i <= n - 1 /\ n - (n - i) = i
      BY <1>1
    <3> QED
      BY <3>1, <2>7 DEF h
  <2>9. f = [i \in 1..n |-> f[i]] /\ h = [i \in 1..n |-> h[i]]
    BY <2>3 DEF Turned, h
  <2> QED
    BY <2>8, <2>9 DEF f, h
<1>9. \A k \in 0..(n - 1) : DatabaseLoop(closes, actions)[k] = g[k]
  <2> DEFINE Turned(f) == [k \in 0..(n - 1) |->
                             IF k = 0 THEN Ones ELSE DatabaseTurn(closes, actions, k, f[k - 1])]
             f == DatabaseLoop(closes, actions)
  <2>1. f = CHOOSE e : e = Turned(e)
    BY <1>2 DEF DatabaseLoop
  <2>2. g = Turned(g)
    <3>1. \A k \in 0..(n - 1) : k # 0 => k \in 1..(n - 1)
      OBVIOUS
    <3>2. \A k \in 1..(n - 1) : g[k] = DatabaseTurn(closes, actions, k, g[k - 1])
      BY <1>3, <1>7
    <3>3. g = [k \in 0..(n - 1) |-> g[k]]
      BY <1>6
    <3> QED
      BY <3>1, <3>2, <3>3, <1>7
  <2> HIDE DEF f, Turned
  <2>3. f = Turned(f)
    BY <2>1, <2>2
  <2>4. \A k \in 0..(n - 1) : f[k] = IF k = 0 THEN Ones ELSE DatabaseTurn(closes, actions, k, f[k - 1])
    BY <2>3 DEF Turned
  <2> DEFINE Same == {k \in Nat : k <= n - 1 => f[k] = g[k]}
  <2>5. 0 \in Same
    BY <1>1, <2>4, <1>7
  <2>6. \A k \in Nat : k \in Same => k + 1 \in Same
    <3> TAKE k \in Nat
    <3> HAVE k \in Same
    <3>1. SUFFICES ASSUME k + 1 <= n - 1  PROVE f[k + 1] = g[k + 1]
      OBVIOUS
    <3>2. k + 1 \in 1..(n - 1) /\ (k + 1) - 1 = k /\ k + 1 \in 0..(n - 1) /\ k + 1 # 0
      BY <3>1, <1>1
    <3>3. f[k + 1] = DatabaseTurn(closes, actions, k + 1, f[k])
      BY <3>2, <2>4
    <3>4. f[k] = g[k] /\ g[k] \in FactorPair
      <4>1. k <= n - 1
        BY <3>1, <1>1
      <4>2. g[(k + 1) - 1] \in FactorPair
        BY <3>2, <1>7
      <4> QED
        BY <4>1, <4>2, <3>2
    <3>5. g[k + 1] = ClientTurn(closes, actions, n - (k + 1), g[k])
      BY <3>2, <1>7
    <3>6. DatabaseTurn(closes, actions, k + 1, g[k]) = ClientTurn(closes, actions, n - (k + 1), g[k])
      BY <3>2, <3>4, <1>3
    <3> QED
      BY <3>3, <3>4, <3>5, <3>6
  <2>7. Nat \subseteq Same
    <3> HIDE DEF Same
    <3> QED
      BY <2>5, <2>6, NatInduct
  <2> QED
    BY <2>7, <1>1 DEF f
<1>10. DatabaseFactors(closes, actions) = [i \in 1..n |-> g[n - i]]
  <2>1. DatabaseFactors(closes, actions) = [i \in 1..n |-> DatabaseLoop(closes, actions)[n - i]]
    BY <1>2, LoopsOfFactors
  <2>2. \A i \in 1..n : n - i \in 0..(n - 1)
    BY <1>1
  <2> QED
    BY <2>1, <2>2, <1>9
<1> QED
  BY <1>6, <1>7, <1>8, <1>10, LoopsOfFactors DEF DerivedAlike

-----------------------------------------------------------------------------
(* Rounding keeps the order of numbers.                                    *)

\* A decimal counted in units of 10^-m.
At(x, m) == x.c * Power[x.e + m]

LEMMA NotAboveAt ==
  ASSUME NEW x \in DecimalSet, NEW y \in DecimalSet, NEW m \in Int, x.e + m \in Nat, y.e + m \in Nat
  PROVE  NotAbove(x, y) <=> At(x, m) <= At(y, m)
<1> DEFINE e == Min({x.e, y.e})
<1>1. x.c \in Positive /\ y.c \in Positive /\ x.e \in Int /\ y.e \in Int
  BY DEF DecimalSet
<1>2. e \in Int /\ e = (IF x.e <= y.e THEN x.e ELSE y.e)
  BY <1>1, MinOfTwo
<1>3. NotAbove(x, y) <=> x.c * Power[x.e - e] <= y.c * Power[y.e - e]
  BY DEF NotAbove
<1> HIDE DEF e
<1>4. /\ x.e - e \in Nat /\ y.e - e \in Nat /\ e + m \in Nat
      /\ x.e + m = (x.e - e) + (e + m) /\ y.e + m = (y.e - e) + (e + m)
  BY <1>1, <1>2
<1>5. PICK a, b, u, v, p \in Nat :
        /\ a = x.c /\ b = y.c /\ u = Power[x.e - e] /\ v = Power[y.e - e] /\ p = Power[e + m] /\ p > 0
  <2>1. x.c \in Nat /\ y.c \in Nat /\ Power[x.e - e] \in Nat /\ Power[y.e - e] \in Nat
    BY <1>1, <1>4, PowerExceeds, PositiveProducts
  <2>2. Power[e + m] \in Nat /\ Power[e + m] > 0
    BY <1>4, PowerExceeds
  <2> QED
    BY <2>1, <2>2
<1>6. At(x, m) = (a * u) * p /\ At(y, m) = (b * v) * p
  <2>1. Power[x.e + m] = u * p /\ Power[y.e + m] = v * p
    <3>1. /\ Power[(x.e - e) + (e + m)] = Power[x.e - e] * Power[e + m]
          /\ Power[(y.e - e) + (e + m)] = Power[y.e - e] * Power[e + m]
      BY <1>4, PowerOfSum
    <3> QED
      BY <3>1, <1>4, <1>5
  <2>2. \A i, j, k \in Nat : (i * j) * k = i * (j * k)
    BY SMT
  <2> QED
    BY <2>1, <2>2, <1>5 DEF At
<1>7. a * u \in Nat /\ b * v \in Nat
  OBVIOUS
<1>8. a * u <= b * v <=> (a * u) * p <= (b * v) * p
  <2> DEFINE i == a * u
             j == b * v
  <2> HIDE DEF i, j
  <2>1. i \in Nat /\ j \in Nat
    BY <1>7 DEF i, j
  <2>2. i <= j <=> i * p <= j * p
    BY <2>1, <1>5, ProductOrder
  <2> QED
    BY <2>2 DEF i, j
<1> QED
  BY <1>3, <1>5, <1>6, <1>8

LEMMA NumberAt ==
  ASSUME NEW c \in Positive, NEW e \in Int, NEW m \in Int, e + m \in Nat
  PROVE  Number(c, e).e + m \in Nat /\ At(Number(c, e), m) = c * Power[e + m]
<1>1. PICK z \in Nat, n \in Positive :
        c = n * Power[z] /\ n % 10 # 0 /\ Number(c, e) = [c |-> n, e |-> e + z]
  BY NumberForm
<1>2. (e + z) + m = z + (e + m) /\ (e + z) + m \in Nat
  OBVIOUS
<1>3. Power[z + (e + m)] = Power[z] * Power[e + m]
  BY PowerOfSum
<1>4. n * (Power[z] * Power[e + m]) = (n * Power[z]) * Power[e + m]
  <2>1. \A i, j, k \in Nat : i * (j * k) = (i * j) * k
    BY SMT
  <2>2. n \in Nat /\ Power[z] \in Nat /\ Power[e + m] \in Nat
    BY PowerExceeds DEF Positive
  <2> QED
    BY <2>1, <2>2
<1> QED
  BY <1>1, <1>2, <1>3, <1>4 DEF At

\* What Rounded does, in units of 10^-m: V is rounded to a multiple of the unit
\* B of its last digit.
RoundsTo(V, B, W) ==
  /\ Power[Precision - 1] * B <= V /\ V < Power[Precision] * B
  /\ Quotient(<<V, B>>) \in Nat
  /\ Power[Precision - 1] <= Quotient(<<V, B>>) /\ Quotient(<<V, B>>) <= Power[Precision]
  /\ W = Quotient(<<V, B>>) * B

LEMMA RoundedAt ==
  ASSUME NEW c \in Positive, NEW e \in Int
  PROVE  \E b \in Int : \A m \in Int : e + m \in Nat /\ b + m \in Nat =>
           /\ Rounded(c, e).e + m \in Nat
           /\ RoundsTo(c * Power[e + m], Power[b + m], At(Rounded(c, e), m))
<1>0. 1 \in Positive
  BY DEF Positive
<1>1. PICK k \in Int : InDecade(Scaled(c, 1, k))
  BY <1>0, DecadeExists
<1> DEFINE s == Scaled(c, 1, k)
           Q == Quotient(s)
<1>2. Nearest(c, 1) = Number(Q, -k) /\ Q \in Power[Precision - 1]..Power[Precision] /\ Q \in Positive
  BY <1>0, <1>1, NearestAt, NearestByDivision
<1>3. Rounded(c, e) = Number(Q, e - k) /\ e - k \in Int
  <2>1. -k \in Int /\ -k + e = e - k
    OBVIOUS
  <2> HIDE DEF Q
  <2>2. Shift(Number(Q, -k), e) = Number(Q, -k + e)
    BY <1>2, <2>1, NumberShift
  <2> QED
    BY <1>2, <2>1, <2>2 DEF Rounded
<1>4. ASSUME NEW m \in Int, e + m \in Nat, (e - k) + m \in Nat
      PROVE  /\ Rounded(c, e).e + m \in Nat
             /\ RoundsTo(c * Power[e + m], Power[(e - k) + m], At(Rounded(c, e), m))
  <2> DEFINE V == c * Power[e + m]
             B == Power[(e - k) + m]
  <2>1. Rounded(c, e).e + m \in Nat /\ At(Rounded(c, e), m) = Q * B
    <3> HIDE DEF Q
    <3> DEFINE f == e - k
    <3> HIDE DEF f
    <3>1. f \in Int /\ f + m \in Nat
      BY <1>4 DEF f
    <3>2. Number(Q, f).e + m \in Nat /\ At(Number(Q, f), m) = Q * Power[f + m]
      BY <3>1, <1>2, NumberAt
    <3> QED
      BY <3>2, <1>3 DEF f
  <2>2. V \in Positive /\ B \in Positive
    BY <1>4, PositiveProducts
  <2>3. s[1] \in Positive /\ s[2] \in Positive /\ s = <<s[1], s[2]>>
    BY <1>0, ScaledTyped DEF Scaled
  <2>4. s[1] * B = V * s[2]
    <3>1. CASE k >= 0
      <4>1. k \in Nat /\ e + m = k + ((e - k) + m)
        BY <3>1
      <4>2. s = <<c * Power[k], 1>> /\ Power[e + m] = Power[k] * B
        <5>1. Power[k + ((e - k) + m)] = Power[k] * B
          BY <4>1, <1>4, PowerOfSum
        <5> QED
          BY <3>1, <4>1, <5>1 DEF Scaled
      <4>3. (c * Power[k]) * B = (c * (Power[k] * B)) * 1
        <5>1. \A i, j, l \in Nat : (i * j) * l = (i * (j * l)) * 1
          BY SMT
        <5>2. c \in Nat /\ Power[k] \in Nat /\ B \in Nat
          BY <2>2, <4>1, PowerExceeds DEF Positive
        <5> HIDE DEF B
        <5> QED
          BY <5>1, <5>2
      <4> QED
        BY <4>2, <4>3
    <3>2. CASE ~ (k >= 0)
      <4>1. -k \in Nat /\ (e - k) + m = (e + m) + (-k)
        BY <3>2
      <4>2. s = <<c, 1 * Power[-k]>> /\ B = Power[e + m] * Power[-k]
        <5>1. Power[(e + m) + (-k)] = Power[e + m] * Power[-k]
          BY <4>1, <1>4, PowerOfSum
        <5> QED
          BY <3>2, <4>1, <5>1 DEF Scaled
      <4>3. c * (Power[e + m] * Power[-k]) = (c * Power[e + m]) * (1 * Power[-k])
        <5>1. \A i, j, l \in Nat : i * (j * l) = (i * j) * (1 * l)
          BY SMT
        <5>2. c \in Nat /\ Power[e + m] \in Nat /\ Power[-k] \in Nat
          BY <1>4, <4>1, PowerExceeds DEF Positive
        <5> QED
          BY <5>1, <5>2
      <4> QED
        BY <4>2, <4>3
    <3> QED
      BY <3>1, <3>2
  <2>5. PICK a, b \in Positive : s = <<a, b>> /\ a * B = V * b
    <3> HIDE DEF s, V, B
    <3> QED
      BY <2>3, <2>4
  <2> HIDE DEF V, B
  <2>6. Q = Quotient(<<V, B>>) /\ InDecade(<<V, B>>)
    <3>1. InDecade(<<a, b>>)
      BY <1>1, <2>5
    <3> QED
      BY <3>1, <2>2, <2>5, QuotientOfRatio, DecadeOfRatio
  <2>7. Power[Precision - 1] \in Nat /\ Power[Precision] \in Nat
    BY PrecisionFacts, PositiveProducts
  <2>8. RoundsTo(V, B, At(Rounded(c, e), m))
    <3> HIDE DEF Q
    <3>1. Q \in Nat /\ Power[Precision - 1] <= Q /\ Q <= Power[Precision]
      BY <1>2, <2>7 DEF Positive
    <3> QED
      BY <3>1, <2>1, <2>6 DEF RoundsTo, InDecade
  <2> QED
    BY <2>1, <2>8 DEF V, B
<1> QED
  BY <1>3, <1>4

LEMMA QuotientOrder ==
  ASSUME NEW V \in Nat, NEW W \in Nat, NEW B \in Positive, V <= W
  PROVE  Quotient(<<V, B>>) <= Quotient(<<W, B>>)
<1>1. PICK q, r \in Nat : q = V \div B /\ r = V % B /\ r < B /\ V = q * B + r
  <2>1. V \div B \in Nat /\ V % B \in Nat /\ V % B < B /\ V = (V \div B) * B + (V % B)
    BY DivisionFacts
  <2> QED
    BY <2>1
<1>2. PICK v, w \in Nat : v = W \div B /\ w = W % B /\ w < B /\ W = v * B + w
  <2>1. W \div B \in Nat /\ W % B \in Nat /\ W % B < B /\ W = (W \div B) * B + (W % B)
    BY DivisionFacts
  <2> QED
    BY <2>1
<1>3. B \in Nat /\ B > 0
  BY DEF Positive
<1>4. /\ Quotient(<<V, B>>) = IF 2 * r > B \/ (2 * r = B /\ q % 2 = 1) THEN q + 1 ELSE q
      /\ Quotient(<<W, B>>) = IF 2 * w > B \/ (2 * w = B /\ v % 2 = 1) THEN v + 1 ELSE v
  BY <1>1, <1>2 DEF Quotient
<1>5. q <= v
  <2>1. q * B < (v + 1) * B
    <3>1. (v + 1) * B = v * B + B /\ v * B \in Nat /\ q * B \in Nat
      BY <1>3
    <3> QED
      BY <3>1, <1>1, <1>2, <1>3
  <2>2. q < v + 1
    BY <2>1, <1>3, ProductOrder
  <2> QED
    BY <2>2
<1>6. CASE q = v
  <2>1. q * B \in Nat
    BY <1>3
  <2>2. r <= w
    BY <2>1, <1>1, <1>2, <1>6
  <2> QED
    BY <2>2, <1>3, <1>4, <1>6
<1>7. CASE q < v
  BY <1>4, <1>7
<1> QED
  BY <1>5, <1>6, <1>7

\* Rounding keeps order, also where it goes to the next decade.
LEMMA RoundingKeepsOrder ==
  ASSUME NEW x \in DecimalSet, NEW y \in DecimalSet, NotAbove(x, y)
  PROVE  NotAbove(Rounded(x.c, x.e), Rounded(y.c, y.e))
<1> DEFINE X == Rounded(x.c, x.e)
           Y == Rounded(y.c, y.e)
<1>1. x.c \in Positive /\ y.c \in Positive /\ x.e \in Int /\ y.e \in Int
  BY DEF DecimalSet
<1>2. X \in DecimalSet /\ Y \in DecimalSet
  BY <1>1, RoundingsAgree
<1>3. PICK a \in Int : \A m \in Int : x.e + m \in Nat /\ a + m \in Nat =>
        X.e + m \in Nat /\ RoundsTo(x.c * Power[x.e + m], Power[a + m], At(X, m))
  BY <1>1, RoundedAt
<1>4. PICK b \in Int : \A m \in Int : y.e + m \in Nat /\ b + m \in Nat =>
        Y.e + m \in Nat /\ RoundsTo(y.c * Power[y.e + m], Power[b + m], At(Y, m))
  BY <1>1, RoundedAt
<1>5. PICK m \in Int : x.e + m \in Nat /\ y.e + m \in Nat /\ a + m \in Nat /\ b + m \in Nat
  <2>1. \A i, j, k, l \in Int : \E m \in Int :
          i + m \in Nat /\ j + m \in Nat /\ k + m \in Nat /\ l + m \in Nat
    <3> TAKE i, j, k, l \in Int
    <3> DEFINE Up(u) == IF u < 0 THEN -u ELSE 0
    <3> WITNESS Up(i) + Up(j) + Up(k) + Up(l) \in Int
    <3> QED
      OBVIOUS
  <2> QED
    BY <2>1, <1>1
<1> DEFINE V == x.c * Power[x.e + m]
           W == y.c * Power[y.e + m]
           A == Power[a + m]
           B == Power[b + m]
           L == Power[Precision - 1]
           H == Power[Precision]
<1>6. RoundsTo(V, A, At(X, m)) /\ RoundsTo(W, B, At(Y, m)) /\ X.e + m \in Nat /\ Y.e + m \in Nat
  BY <1>3, <1>4, <1>5
<1>7. V <= W /\ V \in Nat /\ W \in Nat
  <2>1. V \in Positive /\ W \in Positive
    BY <1>1, <1>5, PositiveProducts
  <2>2. At(x, m) <= At(y, m)
    BY <1>5, NotAboveAt
  <2> QED
    BY <2>1, <2>2, PositiveProducts DEF At
<1>8. /\ A \in Positive /\ B \in Positive /\ A \in Nat /\ B \in Nat
      /\ L \in Nat /\ H \in Nat /\ H = 10 * L /\ L > 0
  BY <1>5, PositiveProducts, PrecisionFacts
<1>9. \A i, j \in Nat : i < j => 10 * Power[i] <= Power[j]
  BY PowerGrows
<1>10. a + m < b + m => 10 * A <= B
  BY <1>5, <1>9
<1>11. b + m < a + m => 10 * B <= A
  BY <1>5, <1>9
<1>12. a + m = b + m => A = B
  OBVIOUS
<1>13. a + m < b + m \/ b + m < a + m \/ a + m = b + m
  OBVIOUS
<1>14. PICK q, p \in Nat : /\ q = Quotient(<<V, A>>) /\ p = Quotient(<<W, B>>)
                           /\ L <= q /\ q <= H /\ L <= p /\ p <= H
                           /\ At(X, m) = q * A /\ At(Y, m) = p * B
                           /\ L * A <= V /\ V < H * A /\ L * B <= W /\ W < H * B
  BY <1>6 DEF RoundsTo
<1> HIDE DEF V, W, A, B, L, H, X, Y
<1>15. \A i, j \in Nat : (10 * i) * j = i * (10 * j)
  BY SMT
<1>16. q * A <= p * B
  <2>1. CASE A = B
    <3>1. q <= p
      BY <2>1, <1>7, <1>8, <1>14, QuotientOrder
    <3> QED
      BY <3>1, <2>1, <1>8, ProductOrder
  <2>2. CASE 10 * A <= B
    <3>1. q * A <= H * A
      BY <1>8, <1>14, ProductOrder
    <3>2. H * A = L * (10 * A)
      BY <1>8, <1>15
    <3>3. L * (10 * A) <= L * B
      <4>1. 10 * A \in Nat
        BY <1>8
      <4>2. (10 * A) * L <= B * L
        BY <4>1, <2>2, <1>8, ProductOrder
      <4>3. \A i, j \in Nat : i * j = j * i
        BY SMT
      <4> QED
        BY <4>1, <4>2, <4>3, <1>8
    <3>4. L * B <= p * B
      BY <1>8, <1>14, ProductOrder
    <3>5. q * A \in Nat /\ L * B \in Nat /\ p * B \in Nat /\ H * A \in Nat
      BY <1>8
    <3> QED
      BY <3>1, <3>2, <3>3, <3>4, <3>5
  <2>3. CASE 10 * B <= A
    <3>1. H * B = L * (10 * B)
      BY <1>8, <1>15
    <3>2. L * (10 * B) <= L * A
      <4>1. 10 * B \in Nat
        BY <1>8
      <4>2. (10 * B) * L <= A * L
        BY <4>1, <2>3, <1>8, ProductOrder
      <4>3. \A i, j \in Nat : i * j = j * i
        BY SMT
      <4> QED
        BY <4>1, <4>2, <4>3, <1>8
    <3>3. H * B \in Nat /\ L * A \in Nat
      BY <1>8
    <3>4. H * B <= V
      BY <3>1, <3>2, <3>3, <1>7, <1>14
    <3> QED
      BY <3>3, <3>4, <1>7, <1>14
  <2> QED
    BY <2>1, <2>2, <2>3, <1>10, <1>11, <1>12, <1>13
<1>17. At(X, m) <= At(Y, m)
  BY <1>14, <1>16
<1> QED
  BY <1>2, <1>5, <1>6, <1>17, NotAboveAt DEF X, Y

\* So does multiplying by a factor.
LEMMA TimesKeepsOrder ==
  ASSUME NEW x \in DecimalSet, NEW y \in DecimalSet, NEW f \in DecimalSet, NotAbove(x, y)
  PROVE  NotAbove(Times(x, f), Times(y, f))
<1> DEFINE X == [c |-> x.c * f.c, e |-> x.e + f.e]
           Y == [c |-> y.c * f.c, e |-> y.e + f.e]
<1>1. /\ x.c \in Positive /\ y.c \in Positive /\ x.e \in Int /\ y.e \in Int
      /\ f.c \in Positive /\ f.e \in Int
  BY DEF DecimalSet
<1>2. X \in DecimalSet /\ Y \in DecimalSet
  <2>1. x.c * f.c \in Positive /\ y.c * f.c \in Positive /\ x.e + f.e \in Int /\ y.e + f.e \in Int
    BY <1>1, PositiveProducts
  <2> QED
    BY <2>1 DEF DecimalSet
<1>3. PICK m, k \in Int : x.e + m \in Nat /\ y.e + m \in Nat /\ f.e + k \in Nat
  <2>1. \A i, j, l \in Int : \E m, k \in Int : i + m \in Nat /\ j + m \in Nat /\ l + k \in Nat
    <3> TAKE i, j, l \in Int
    <3> DEFINE Up(u) == IF u < 0 THEN -u ELSE 0
    <3> WITNESS Up(i) + Up(j) \in Int, Up(l) \in Int
    <3> QED
      OBVIOUS
  <2> QED
    BY <2>1, <1>1
<1>4. /\ m + k \in Int /\ X.e + (m + k) \in Nat /\ Y.e + (m + k) \in Nat
      /\ X.e + (m + k) = (x.e + m) + (f.e + k) /\ Y.e + (m + k) = (y.e + m) + (f.e + k)
  BY <1>1, <1>3
<1>5. PICK a, b, u, v, g, p \in Nat :
        /\ a = x.c /\ b = y.c /\ u = Power[x.e + m] /\ v = Power[y.e + m]
        /\ g = f.c /\ p = Power[f.e + k]
  BY <1>1, <1>3, PositiveProducts
<1>6. At(X, m + k) = (a * u) * (g * p) /\ At(Y, m + k) = (b * v) * (g * p)
  <2>1. Power[X.e + (m + k)] = u * p /\ Power[Y.e + (m + k)] = v * p
    <3>1. /\ Power[(x.e + m) + (f.e + k)] = Power[x.e + m] * Power[f.e + k]
          /\ Power[(y.e + m) + (f.e + k)] = Power[y.e + m] * Power[f.e + k]
      BY <1>3, PowerOfSum
    <3> HIDE DEF X, Y
    <3> QED
      BY <3>1, <1>4, <1>5
  <2>2. \A i, j, l, n \in Nat : (i * j) * (l * n) = (i * l) * (j * n)
    BY SMT
  <2>3. X.c = a * g /\ Y.c = b * g
    BY <1>5
  <2> HIDE DEF X, Y
  <2>4. At(X, m + k) = (a * g) * (u * p) /\ At(Y, m + k) = (b * g) * (v * p)
    BY <2>1, <2>3 DEF At
  <2> QED
    BY <2>2, <2>4
<1>7. a * u <= b * v
  BY <1>3, <1>5, NotAboveAt DEF At
<1>8. (a * u) * (g * p) <= (b * v) * (g * p)
  <2>1. a * u \in Nat /\ b * v \in Nat /\ g * p \in Nat
    OBVIOUS
  <2> QED
    BY <2>1, <1>7, ProductOrder
<1>9. NotAbove(X, Y)
  BY <1>2, <1>4, <1>6, <1>8, NotAboveAt
<1>10. NotAbove(Rounded(X.c, X.e), Rounded(Y.c, Y.e))
  <2> HIDE DEF X, Y
  <2> QED
    BY <1>2, <1>9, RoundingKeepsOrder
<1> QED
  BY <1>10 DEF Times

\* A lower number is not above a higher one.
LEMMA OrderOfNumbers ==
  ASSUME NEW a \in Positive, NEW b \in Positive, a <= b
  PROVE  NotAbove(Number(a, 0), Number(b, 0))
<1>1. /\ Number(a, 0) \in DecimalSet /\ Number(b, 0) \in DecimalSet
      /\ Number(a, 0).e + 0 \in Nat /\ At(Number(a, 0), 0) = a * Power[0 + 0]
      /\ Number(b, 0).e + 0 \in Nat /\ At(Number(b, 0), 0) = b * Power[0 + 0]
  <2>1. 0 \in Int /\ 0 + 0 \in Nat
    OBVIOUS
  <2> QED
    BY <2>1, NumberShift, NumberAt
<1>2. Power[0 + 0] = 1
  BY PowerFacts
<1>3. At(Number(a, 0), 0) <= At(Number(b, 0), 0)
  BY <1>1, <1>2 DEF Positive
<1> QED
  BY <1>1, <1>3, NotAboveAt

\* The bars of a window as decimals.
LEMMA WindowOfDecimals ==
  ASSUME NEW n \in Nat, NEW bars \in SeriesOf(n)
  PROVE  /\ DOMAIN bars = 1..n /\ DOMAIN Decimals(bars) = 1..n /\ Len(Decimals(bars)) = n
         /\ Closes(Decimals(bars)) \in [1..n -> DecimalSet]
         /\ \A i \in 1..n :
              LET bar == Decimals(bars)[i]
              IN  /\ DOMAIN bar = {"high", "low", "close"}
                  /\ bar.high \in DecimalSet /\ bar.low \in DecimalSet /\ bar.close \in DecimalSet
                  /\ NotAbove(bar.low, bar.close) /\ NotAbove(bar.close, bar.high)
                  /\ NotAbove(bar.low, bar.high)
<1>1. DOMAIN bars = 1..n /\ \A i \in 1..n : bars[i] \in Shapes
  BY DEF SeriesOf
<1>2. DOMAIN Decimals(bars) = 1..n
  BY <1>1 DEF Decimals
<1>3. Len(Decimals(bars)) = n
  BY <1>2
<1>4. ASSUME NEW i \in 1..n
      PROVE  LET bar == Decimals(bars)[i]
             IN  /\ DOMAIN bar = {"high", "low", "close"}
                 /\ bar.high \in DecimalSet /\ bar.low \in DecimalSet /\ bar.close \in DecimalSet
                 /\ NotAbove(bar.low, bar.close) /\ NotAbove(bar.close, bar.high)
                 /\ NotAbove(bar.low, bar.high)
  <2> DEFINE s == bars[i]
             bar == Decimals(bars)[i]
  <2>1. /\ s \in [high: Nat \ {0}, low: Nat \ {0}, close: Nat \ {0}]
        /\ s.low <= s.close /\ s.close <= s.high
    BY <1>1, WindowAssumption
  <2>2. /\ DOMAIN s = {"high", "low", "close"}
        /\ s.high \in Positive /\ s.low \in Positive /\ s.close \in Positive
    BY <2>1 DEF Positive
  <2>3. bar = [field \in DOMAIN s |-> Number(s[field], 0)]
    BY <1>1 DEF Decimals
  <2> HIDE DEF s, bar
  <2>4. /\ DOMAIN bar = {"high", "low", "close"} /\ bar.high = Number(s.high, 0)
        /\ bar.low = Number(s.low, 0) /\ bar.close = Number(s.close, 0)
    BY <2>2, <2>3
  <2>5. bar.high \in DecimalSet /\ bar.low \in DecimalSet /\ bar.close \in DecimalSet
    <3>1. 0 \in Int
      OBVIOUS
    <3> QED
      BY <3>1, <2>2, <2>4, NumberShift
  <2>6. s.low <= s.high
    BY <2>1
  <2>7. NotAbove(bar.low, bar.close) /\ NotAbove(bar.close, bar.high) /\ NotAbove(bar.low, bar.high)
    BY <2>1, <2>2, <2>4, <2>6, OrderOfNumbers
  <2> QED
    BY <2>4, <2>5, <2>7 DEF bar
<1>5. Closes(Decimals(bars)) \in [1..n -> DecimalSet]
  BY <1>2, <1>4 DEF Closes
<1> QED
  BY <1>1, <1>2, <1>3, <1>4, <1>5

LEMMA ActionsOfWindow ==
  ASSUME NEW n \in Nat, NEW actions \in ActionSets(n)
  PROVE  IsFiniteSet(actions) /\ \A a \in actions : ActionForm(a)
<1> DEFINE dated == DatedActions(n)
<1>1. \A a \in Actions, i \in 1..(n + 1) : ActionForm(Dated(a, i))
  <2> TAKE a \in Actions, i \in 1..(n + 1)
  <2>1. CASE a \in [kind: {"split"}, from: [c: Nat \ {0}, e: Int], to: [c: Nat \ {0}, e: Int]]
    <3>1. /\ DOMAIN a = {"kind", "from", "to"} /\ a.kind = "split"
          /\ a.from \in DecimalSet /\ a.to \in DecimalSet
      BY <2>1 DEF DecimalSet, Positive
    <3>2. /\ Dated(a, i).at = i /\ Dated(a, i).kind = a.kind
          /\ Dated(a, i).from = a.from /\ Dated(a, i).to = a.to
      BY <3>1 DEF Dated
    <3> QED
      BY <3>1, <3>2 DEF ActionForm
  <2>2. CASE a \in [kind: {"dividend"}, cash: [c: Nat \ {0}, e: Int]]
    <3>1. DOMAIN a = {"kind", "cash"} /\ a.kind = "dividend" /\ a.cash \in DecimalSet
      BY <2>2 DEF DecimalSet, Positive
    <3>2. /\ Dated(a, i).at = i /\ Dated(a, i).kind = a.kind /\ Dated(a, i).cash = a.cash
      BY <3>1 DEF Dated
    <3> QED
      BY <3>1, <3>2 DEF ActionForm
  <2> QED
    BY <2>1, <2>2, WindowAssumption
<1>2. \A a \in dated : ActionForm(a)
  BY <1>1 DEF DatedActions
<1>3. actions \in {{a, b} : a \in dated, b \in dated} \cup {{}}
  BY DEF ActionSets
<1> HIDE DEF dated
<1>4. CASE actions = {}
  BY <1>4, FS_EmptySet
<1>5. CASE actions # {}
  <2>1. PICK a \in dated, b \in dated : actions = {a, b}
    BY <1>3, <1>5
  <2>2. IsFiniteSet({a}) /\ IsFiniteSet({a} \cup {b})
    BY FS_Singleton, FS_AddElement
  <2>3. {a} \cup {b} = {a, b}
    OBVIOUS
  <2> QED
    BY <2>1, <2>2, <2>3, <1>2
<1> QED
  BY <1>4, <1>5

\* Whatever the window and its actions: the same sets are admitted, the same factors
\* derived, the anchor keeps its prices and no bar loses the order of its prices.
LEMMA FactorSetsAgree ==
  ASSUME NEW n \in Positive, NEW bars \in SeriesOf(n), NEW actions \in ActionSets(n)
  PROVE  FactorsAgree(Decimals(bars), actions)
<1> DEFINE D == Decimals(bars)
           closes == Closes(D)
           factors == ClientFactors(closes, actions)
<1>1. n \in Nat /\ n > 0
  BY DEF Positive
<1>2. /\ DOMAIN D = 1..n /\ Len(D) = n /\ closes \in [1..n -> DecimalSet]
      /\ \A i \in 1..n :
           /\ DOMAIN D[i] = {"high", "low", "close"}
           /\ D[i].high \in DecimalSet /\ D[i].low \in DecimalSet /\ D[i].close \in DecimalSet
           /\ NotAbove(D[i].low, D[i].close) /\ NotAbove(D[i].close, D[i].high)
           /\ NotAbove(D[i].low, D[i].high)
  BY <1>1, WindowOfDecimals
<1>3. IsFiniteSet(actions) /\ \A a \in actions : ActionForm(a)
  BY <1>1, ActionsOfWindow
<1>4. /\ ClientAdmits(actions, n) <=> DatabaseAdmits(actions, n)
      /\ ClientAdmits(actions, n) => \A a, b \in actions : a.at = b.at => a = b
  BY <1>1, <1>3, SameActionsAdmitted
<1>5. ASSUME ClientAdmits(actions, n)
      PROVE  /\ DatabaseFactors(closes, actions) = factors
             /\ factors[n] = Ones
             /\ \A i \in 1..n : Consistent(AdjustWindow(D, factors)[i])
  <2>1. \A a, b \in actions : a.at = b.at => a = b
    BY <1>4, <1>5
  <2> HIDE DEF D, closes
  <2>2. PICK g \in [0..(n - 1) -> FactorPair] :
           /\ g[0] = Ones
           /\ ClientFactors(closes, actions) = [i \in 1..n |-> g[n - i]]
           /\ DatabaseFactors(closes, actions) = [i \in 1..n |-> g[n - i]]
    <3>1. DerivedAlike(n, closes, actions)
      BY <1>2, <1>3, <2>1, FactorsDerived
    <3> QED
      BY <3>1, Zenon DEF DerivedAlike
  <2>3. factors[n] = Ones
    BY <1>1, <2>2
  <2>4. ASSUME NEW i \in 1..n
        PROVE  Consistent(AdjustWindow(D, factors)[i])
    <3> DEFINE bar == D[i]
               p == factors[i].price
               out == AdjustWindow(D, factors)[i]
    <3>1. p \in DecimalSet
      <4>1. factors[i] = g[n - i] /\ n - i \in 0..(n - 1)
        BY <1>1, <2>2
      <4> QED
        BY <4>1 DEF FactorPair
    <3>2. out = [field \in DOMAIN bar |-> Times(bar[field], p)]
      BY <1>2 DEF AdjustWindow, AdjustRow
    <3>3. /\ DOMAIN bar = {"high", "low", "close"}
          /\ bar.high \in DecimalSet /\ bar.low \in DecimalSet /\ bar.close \in DecimalSet
          /\ NotAbove(bar.low, bar.close) /\ NotAbove(bar.close, bar.high)
          /\ NotAbove(bar.low, bar.high)
      BY <1>2
    <3> HIDE DEF bar, p, out
    <3>4. /\ out.high = Times(bar.high, p) /\ out.low = Times(bar.low, p)
          /\ out.close = Times(bar.close, p)
      BY <3>2, <3>3
    <3>5. /\ NotAbove(Times(bar.low, p), Times(bar.close, p))
          /\ NotAbove(Times(bar.close, p), Times(bar.high, p))
          /\ NotAbove(Times(bar.low, p), Times(bar.high, p))
      BY <3>1, <3>3, TimesKeepsOrder
    <3>6. Consistent(out)
      BY <3>4, <3>5 DEF Consistent
    <3> QED
      BY <3>6 DEF out
  <2> QED
    BY <2>2, <2>3, <2>4
<1> HIDE DEF D, closes, factors
<1>6. FactorsAgree(D, actions)
  BY <1>2, <1>4, <1>5 DEF FactorsAgree, closes, factors, Ones
<1> QED
  BY <1>6 DEF D

\* AdjustmentAgrees: what the database recomputes when a factor set is published
\* is what the client sent, for every window and every set of actions.
THEOREM AdjustmentsAgree == LaneSpec => []AdjustmentAgrees
<1>1. FunctionsAgree
  <2>1. Operands \subseteq Positive
    BY WindowAssumption DEF Positive
  <2> QED
    BY <2>1, KernelsAgree DEF FunctionsAgree
<1>2. \A n \in 1..MaxRawInputs : n \in AgreeingWindows
  <2> TAKE n \in 1..MaxRawInputs
  <2>1. n \in Positive
    BY WindowAssumption DEF Positive
  <2>2. \A bars \in SeriesOf(n), actions \in ActionSets(n) : FactorsAgree(Decimals(bars), actions)
    BY <2>1, FactorSetsAgree
  <2> QED
    BY <1>1, <2>2 DEF AgreeingWindows
<1>3. AdjustmentAgrees
  <2> DEFINE k == Cardinality(ForecastInput)
  <2> HIDE DEF k
  <2>1. k \in 1..MaxRawInputs => k \in AgreeingWindows
    BY <1>2
  <2> QED
    BY <2>1 DEF AdjustmentAgrees, k
<1> QED
  BY <1>3, PTL

-----------------------------------------------------------------------------
(* Sums and averages.                                                      *)

\* What holds at lo and is kept from one number to the next holds up to hi.
LEMMA Stepwise ==
  ASSUME NEW lo \in Int, NEW hi \in Int, NEW S, lo \in S,
         \A i \in Int : lo < i /\ i <= hi /\ i - 1 \in S => i \in S
  PROVE  \A i \in Int : lo <= i /\ i <= hi => i \in S
<1> DEFINE T == {k \in Nat : lo + k <= hi => lo + k \in S}
<1>1. 0 \in T
  OBVIOUS
<1>2. \A k \in Nat : k \in T => k + 1 \in T
  <2> TAKE k \in Nat
  <2> HAVE k \in T
  <2>1. SUFFICES ASSUME lo + (k + 1) <= hi  PROVE lo + (k + 1) \in S
    OBVIOUS
  <2>2. /\ lo + (k + 1) \in Int /\ lo < lo + (k + 1) /\ (lo + (k + 1)) - 1 = lo + k
        /\ lo + k <= hi
    BY <2>1
  <2> QED
    BY <2>1, <2>2
<1>3. Nat \subseteq T
  <2> HIDE DEF T
  <2> QED
    BY <1>1, <1>2, NatInduct
<1>4. \A i \in Int : lo <= i => i - lo \in Nat /\ lo + (i - lo) = i
  OBVIOUS
<1> QED
  BY <1>3, <1>4

\* Steps from lo on.
IteratesFrom(h, lo, n, start, turn) ==
  h[lo] = start /\ \A i \in (lo + 1)..(lo + n) : h[i] = turn[i - lo][h[i - 1]]

LEMMA IterationFrom ==
  ASSUME NEW lo \in Int, NEW n \in Nat, NEW V, NEW start \in V, NEW turn \in [1..n -> [V -> V]]
  PROVE  \E h \in [lo..(lo + n) -> V] : IteratesFrom(h, lo, n, start, turn)
<1>1. PICK g \in [0..n -> V] : Iterates(g, start, turn, n)
  BY FiniteIteration
<1> DEFINE h == [i \in lo..(lo + n) |-> g[i - lo]]
<1>2. \A i \in lo..(lo + n) : i - lo \in 0..n
  OBVIOUS
<1>3. h \in [lo..(lo + n) -> V]
  BY <1>2
<1>4. h[lo] = start
  <2>1. lo \in lo..(lo + n) /\ lo - lo = 0
    OBVIOUS
  <2> QED
    BY <2>1, <1>1 DEF Iterates
<1>5. ASSUME NEW i \in (lo + 1)..(lo + n)
      PROVE  h[i] = turn[i - lo][h[i - 1]]
  <2>1. /\ i \in lo..(lo + n) /\ i - 1 \in lo..(lo + n) /\ i - lo \in 1..n
        /\ (i - 1) - lo = (i - lo) - 1
    OBVIOUS
  <2>2. g[i - lo] = turn[i - lo][g[(i - lo) - 1]]
    BY <2>1, <1>1 DEF Iterates
  <2> QED
    BY <2>1, <2>2
<1> QED
  BY <1>3, <1>4, <1>5 DEF IteratesFrom

\* The partial sums of a sequence.
PartialSums(s) == CHOOSE t : t = [i \in 0..Len(s) |-> IF i = 0 THEN 0 ELSE t[i - 1] + s[i]]

LEMMA TotalSteps ==
  ASSUME NEW n \in Nat, NEW s \in [1..n -> Int]
  PROVE  /\ Total(s) = PartialSums(s)[n] /\ PartialSums(s)[0] = 0
         /\ \A i \in 1..n : PartialSums(s)[i] = PartialSums(s)[i - 1] + s[i]
         /\ \A i \in 0..n : PartialSums(s)[i] \in Int
<1> DEFINE t == PartialSums(s)
           Added(f) == [i \in 0..n |-> IF i = 0 THEN 0 ELSE f[i - 1] + s[i]]
           turn == [i \in 1..n |-> [v \in Int |-> v + s[i]]]
<1>1. Len(s) = n
  OBVIOUS
<1>2. Total(s) = t[n]
  BY <1>1 DEF Total, PartialSums
<1>3. t = CHOOSE f : f = Added(f)
  BY <1>1 DEF PartialSums
<1>4. turn \in [1..n -> [Int -> Int]] /\ 0 \in Int
  OBVIOUS
<1>5. PICK h \in [0..n -> Int] : Iterates(h, 0, turn, n)
  <2> HIDE DEF turn
  <2> QED
    BY <1>4, FiniteIteration
<1>6. h = Added(h)
  <2>1. \A i \in 0..n : i # 0 => i \in 1..n /\ i - 1 \in 0..n
    OBVIOUS
  <2>2. \A i \in 1..n : i - 1 \in 0..n /\ h[i] = h[i - 1] + s[i]
    <3> TAKE i \in 1..n
    <3>1. i - 1 \in 0..n
      OBVIOUS
    <3>2. h[i - 1] \in Int /\ turn[i] = [v \in Int |-> v + s[i]]
      BY <3>1
    <3> QED
      BY <3>1, <3>2, <1>5 DEF Iterates
  <2>3. h[0] = 0
    BY <1>5 DEF Iterates
  <2>4. h = [i \in 0..n |-> h[i]]
    OBVIOUS
  <2> QED
    BY <2>1, <2>2, <2>3, <2>4
<1>7. t = Added(t)
  <2> HIDE DEF t, Added
  <2> QED
    BY <1>3, <1>6
<1> HIDE DEF t
<1>8. t[0] = 0 /\ \A i \in 1..n : t[i] = t[i - 1] + s[i]
  <2>1. 0 \in 0..n /\ \A i \in 1..n : i \in 0..n /\ i # 0
    OBVIOUS
  <2> QED
    BY <1>7, <2>1
<1>9. \A i \in 0..n : t[i] \in Int
  <2> DEFINE S == {i \in Int : t[i] \in Int}
  <2>1. 0 \in S /\ 0 \in Int /\ n \in Int
    BY <1>8
  <2>2. \A i \in Int : 0 < i /\ i <= n /\ i - 1 \in S => i \in S
    <3> TAKE i \in Int
    <3> HAVE 0 < i /\ i <= n /\ i - 1 \in S
    <3>1. i \in 1..n /\ t[i - 1] \in Int /\ s[i] \in Int
      OBVIOUS
    <3> QED
      BY <3>1, <1>8
  <2>3. \A i \in Int : 0 <= i /\ i <= n => i \in S
    <3> HIDE DEF S
    <3> QED
      BY <2>1, <2>2, Stepwise
  <2> QED
    BY <2>3
<1> QED
  BY <1>2, <1>8, <1>9 DEF t

LEMMA TotalTyped ==
  ASSUME NEW n \in Nat, NEW s \in [1..n -> Int]
  PROVE  Total(s) \in Int
<1>1. n \in 0..n
  OBVIOUS
<1> QED
  BY <1>1, TotalSteps

\* A common factor of all terms is one of their sum.
LEMMA TotalOfMultiples ==
  ASSUME NEW n \in Nat, NEW r \in [1..n -> Int], NEW s \in [1..n -> Int],
         NEW k \in Int, \A i \in 1..n : r[i] = k * s[i]
  PROVE  Total(r) = k * Total(s)
<1> DEFINE t == PartialSums(s)
           u == PartialSums(r)
<1>1. /\ Total(s) = t[n] /\ t[0] = 0 /\ \A i \in 0..n : t[i] \in Int
      /\ \A i \in 1..n : t[i] = t[i - 1] + s[i]
  BY TotalSteps
<1>2. /\ Total(r) = u[n] /\ u[0] = 0 /\ \A i \in 0..n : u[i] \in Int
      /\ \A i \in 1..n : u[i] = u[i - 1] + r[i]
  BY TotalSteps
<1> HIDE DEF t, u
<1>3. \A a, b, c \in Int : c * (a + b) = c * a + c * b
  BY SMT
<1> DEFINE S == {i \in Int : u[i] = k * t[i]}
<1>4. 0 \in S
  BY <1>1, <1>2
<1>5. \A i \in Int : 0 < i /\ i <= n /\ i - 1 \in S => i \in S
  <2> TAKE i \in Int
  <2> HAVE 0 < i /\ i <= n /\ i - 1 \in S
  <2>1. i \in 1..n /\ i - 1 \in 0..n
    OBVIOUS
  <2>2. t[i - 1] \in Int /\ s[i] \in Int /\ t[i] = t[i - 1] + s[i]
    BY <1>1, <2>1
  <2>3. u[i] = u[i - 1] + k * s[i] /\ u[i - 1] = k * t[i - 1]
    BY <1>2, <2>1
  <2>4. k * (t[i - 1] + s[i]) = k * t[i - 1] + k * s[i]
    BY <1>3, <2>2
  <2> QED
    BY <2>2, <2>3, <2>4
<1>6. \A i \in Int : 0 <= i /\ i <= n => i \in S
  <2> HIDE DEF S
  <2>1. 0 \in Int /\ n \in Int
    OBVIOUS
  <2> QED
    BY <2>1, <1>4, <1>5, Stepwise
<1>7. n \in Int /\ 0 <= n
  OBVIOUS
<1> QED
  BY <1>1, <1>2, <1>6, <1>7

-----------------------------------------------------------------------------
(* Quantiles of forecast errors.                                           *)

\* sorted(errors): every place has a value, and the values do not fall.
LEMMA OrderedRises ==
  ASSUME NEW n \in Nat, NEW s \in [1..n -> Int]
  PROVE  /\ Ordered(s) \in [1..n -> Int]
         /\ \A k \in 1..n, l \in 1..n : k <= l => Ordered(s)[k] <= Ordered(s)[l]
<1> DEFINE v(k) == OrderStatistic(s, k)
<1>1. IsFiniteSet(1..n) /\ Cardinality(1..n) = n
  BY FS_Interval
<1>2. \A k \in 1..n : v(k) \in Value(s) /\ Below(s, v(k)) < k /\ k <= AtMost(s, v(k))
  <2> TAKE k \in 1..n
  <2>1. \E x \in Value(s) : Below(s, x) < k /\ k <= AtMost(s, x)
    BY <1>1, OrderStatisticExists
  <2> QED
    BY <2>1 DEF OrderStatistic, Value
<1>3. Value(s) \subseteq Int
  BY DEF Value
<1>4. \A x \in Int : AtMost(s, x) \in Nat /\ Below(s, x) \in Nat
  BY <1>1, Counts
<1>5. \A x \in Int, y \in Int : y < x => AtMost(s, y) <= Below(s, x)
  BY <1>1, Counts
<1> HIDE DEF v
<1>6. \A k \in 1..n, l \in 1..n : k <= l => v(k) <= v(l)
  <2> SUFFICES ASSUME NEW k \in 1..n, NEW l \in 1..n, k <= l, v(l) < v(k)  PROVE FALSE
    BY <1>2, <1>3
  <2>1. v(k) \in Int /\ v(l) \in Int
    BY <1>2, <1>3
  <2>2. AtMost(s, v(l)) <= Below(s, v(k))
    BY <2>1, <1>5
  <2>3. Below(s, v(k)) < k /\ l <= AtMost(s, v(l))
    BY <1>2
  <2>4. /\ AtMost(s, v(l)) \in Nat /\ AtMost(s, v(k)) \in Nat
        /\ Below(s, v(l)) \in Nat /\ Below(s, v(k)) \in Nat
    BY <2>1, <1>4
  <2> QED
    BY <2>2, <2>3, <2>4
<1>7. Ordered(s) = [k \in 1..n |-> v(k)]
  BY DEF Ordered, v
<1> QED
  BY <1>2, <1>3, <1>6, <1>7

LEMMA ProductsRise ==
  \A a, b, c \in Nat : a <= b => a * c <= b * c /\ a * c \in Nat
<1> TAKE a, b, c \in Nat
<1> HAVE a <= b
<1>1. b - a \in Nat /\ b = a + (b - a)
  OBVIOUS
<1>2. \A x, y, z \in Nat : (x + y) * z = x * z + y * z /\ x * z \in Nat /\ y * z \in Nat
  BY SMT
<1>3. (a + (b - a)) * c = a * c + (b - a) * c /\ a * c \in Nat /\ (b - a) * c \in Nat
  BY <1>1, <1>2
<1> QED
  BY <1>1, <1>3

\* What interpolation adds to the lower of two neighbours.
LEMMA FractionRises ==
  ASSUME NEW f \in 0..(Whole - 1), NEW g \in 0..(Whole - 1), f <= g, NEW gap \in Nat
  PROVE  /\ (f * gap) \div Whole \in Nat
         /\ (f * gap) \div Whole <= (g * gap) \div Whole
         /\ (g * gap) \div Whole <= gap
<1>1. f \in Nat /\ g \in Nat /\ Whole = 2000 /\ g <= 2000
  BY DEF Whole
<1>2. f * gap <= g * gap /\ f * gap \in Nat
  BY <1>1, ProductsRise
<1>3. g * gap <= 2000 * gap /\ g * gap \in Nat
  BY <1>1, ProductsRise
<1>4. \A x, y \in Nat : x <= y => x \div 2000 <= y \div 2000 /\ x \div 2000 \in Nat
  BY Z3
<1>5. \A x, y \in Nat : x <= 2000 * y => x \div 2000 <= y
  BY Z3
<1> DEFINE F == f * gap
           G == g * gap
<1>6. F \in Nat /\ G \in Nat /\ F <= G /\ G <= 2000 * gap
  BY <1>2, <1>3
<1> HIDE DEF F, G
<1>7. F \div 2000 <= G \div 2000 /\ F \div 2000 \in Nat /\ G \div 2000 <= gap
  BY <1>4, <1>5, <1>6
<1> QED
  BY <1>1, <1>7 DEF F, G

\* Where a level falls among n ordered values.
LEMMA PlaceOfLevel ==
  ASSUME NEW n \in Nat, n >= 2, NEW a \in 1..(Whole - 1)
  PROVE  LET p == (n - 1) * a IN
         /\ p \in Nat /\ p \div Whole \in 0..(n - 2) /\ p % Whole \in 0..(Whole - 1)
         /\ p = Whole * (p \div Whole) + (p % Whole)
<1> DEFINE p == (n - 1) * a
<1>1. a \in Nat /\ a <= 1999 /\ n - 1 \in Nat /\ n - 1 >= 1 /\ Whole = 2000
  BY DEF Whole
<1>2. \A x, y \in Nat : x * y = y * x /\ x * y \in Nat
  BY SMT
<1>3. a * (n - 1) <= 1999 * (n - 1) /\ a * (n - 1) = p /\ p \in Nat
  BY <1>1, <1>2, ProductsRise
<1> HIDE DEF p
<1>4. p < 2000 * (n - 1)
  BY <1>1, <1>3
<1>5. \A x, y \in Nat : x < 2000 * y => x \div 2000 < y /\ x \div 2000 \in Nat
  BY Z3
<1>6. \A x \in Nat : x = 2000 * (x \div 2000) + (x % 2000) /\ x % 2000 \in 0..1999
  BY Z3
<1>7. p \div 2000 < n - 1 /\ p \div 2000 \in Nat
  BY <1>1, <1>3, <1>4, <1>5
<1>8. p = 2000 * (p \div 2000) + (p % 2000) /\ p % 2000 \in 0..1999
  BY <1>3, <1>6
<1> QED
  BY <1>1, <1>3, <1>7, <1>8 DEF p

\* A higher level never gives a lower quantile.
LEMMA QuantilesRise ==
  ASSUME NEW n \in Nat, n >= 2, NEW e \in [1..n -> Int],
         \A k \in 1..n, l \in 1..n : k <= l => e[k] <= e[l],
         NEW a \in 1..(Whole - 1), NEW b \in 1..(Whole - 1), a <= b
  PROVE  /\ LinearQuantile(e, a) \in Int /\ LinearQuantile(e, b) \in Int
         /\ LinearQuantile(e, a) <= LinearQuantile(e, b)
<1> DEFINE gap(x) == e[x + 2] - e[x + 1]
           more(x, y) == (y * gap(x)) \div Whole
<1>1. PICK i \in 0..(n - 2), f \in 0..(Whole - 1) :
        /\ (n - 1) * a = Whole * i + f
        /\ ((n - 1) * a) \div Whole = i /\ ((n - 1) * a) % Whole = f
  BY PlaceOfLevel
<1>2. PICK j \in 0..(n - 2), g \in 0..(Whole - 1) :
        /\ (n - 1) * b = Whole * j + g
        /\ ((n - 1) * b) \div Whole = j /\ ((n - 1) * b) % Whole = g
  BY PlaceOfLevel
<1>3. (n - 1) * a <= (n - 1) * b
  <2>1. a \in Nat /\ b \in Nat /\ n - 1 \in Nat
    BY DEF Whole
  <2>2. a * (n - 1) <= b * (n - 1)
    BY <2>1, ProductsRise
  <2>3. \A x, y \in Nat : x * y = y * x
    BY SMT
  <2> QED
    BY <2>1, <2>2, <2>3
<1>4. i < j \/ (i = j /\ f <= g)
  <2>1. 2000 * i + f <= 2000 * j + g /\ f \in 0..1999 /\ g \in 0..1999
    BY <1>1, <1>2, <1>3 DEF Whole
  <2> QED
    BY <2>1
<1>5. \A x \in 0..(n - 2) : e[x + 1] \in Int /\ e[x + 2] \in Int /\ gap(x) \in Nat
  <2> TAKE x \in 0..(n - 2)
  <2>1. x + 1 \in 1..n /\ x + 2 \in 1..n /\ x + 1 <= x + 2
    OBVIOUS
  <2>2. e[x + 1] <= e[x + 2] /\ e[x + 1] \in Int /\ e[x + 2] \in Int
    BY <2>1
  <2> QED
    BY <2>2
<1>6. \A x \in 0..(n - 2), y \in 0..(Whole - 1) :
        /\ more(x, y) \in Nat /\ more(x, y) <= gap(x)
        /\ y = 0 => more(x, y) = 0
  <2> TAKE x \in 0..(n - 2), y \in 0..(Whole - 1)
  <2>1. gap(x) \in Nat /\ y <= y
    BY <1>5
  <2> HIDE DEF gap
  <2>2. more(x, y) \in Nat /\ more(x, y) <= gap(x)
    BY <2>1, FractionRises
  <2>3. y = 0 => more(x, y) = 0
    BY <2>1 DEF Whole
  <2> QED
    BY <2>2, <2>3
<1>7. i = j /\ f <= g => more(i, f) <= more(j, g)
  <2> HAVE i = j /\ f <= g
  <2>1. gap(i) \in Nat
    BY <1>5
  <2> HIDE DEF gap
  <2> QED
    BY <2>1, FractionRises
<1>8. /\ LinearQuantile(e, a) = e[i + 1] + more(i, f)
      /\ LinearQuantile(e, b) = e[j + 1] + more(j, g)
  <2>1. Len(e) = n
    OBVIOUS
  <2>2. LinearQuantile(e, a) = IF f = 0 THEN e[i + 1] ELSE e[i + 1] + more(i, f)
    BY <2>1, <1>1 DEF LinearQuantile
  <2>3. LinearQuantile(e, b) = IF g = 0 THEN e[j + 1] ELSE e[j + 1] + more(j, g)
    BY <2>1, <1>2 DEF LinearQuantile
  <2> HIDE DEF more
  <2>4. f = 0 => e[i + 1] = e[i + 1] + more(i, f)
    BY <1>5, <1>6
  <2>5. g = 0 => e[j + 1] = e[j + 1] + more(j, g)
    BY <1>5, <1>6
  <2> QED
    BY <2>2, <2>3, <2>4, <2>5
<1>9. /\ e[i + 1] \in Int /\ more(i, f) \in Nat /\ more(i, f) <= e[i + 2] - e[i + 1] /\ e[i + 2] \in Int
      /\ e[j + 1] \in Int /\ more(j, g) \in Nat
  BY <1>5, <1>6
<1>10. i < j => e[i + 2] <= e[j + 1]
  <2> HAVE i < j
  <2>1. i + 2 \in 1..n /\ j + 1 \in 1..n /\ i + 2 <= j + 1
    OBVIOUS
  <2> QED
    BY <2>1
<1> DEFINE u == more(i, f)
           v == more(j, g)
<1>11. /\ LinearQuantile(e, a) = e[i + 1] + u /\ LinearQuantile(e, b) = e[j + 1] + v
       /\ e[i + 1] \in Int /\ e[j + 1] \in Int /\ e[i + 2] \in Int /\ u \in Nat /\ v \in Nat
       /\ u <= e[i + 2] - e[i + 1]
  BY <1>8, <1>9
<1> HIDE DEF more, u, v
<1>12. CASE i < j
  <2> DEFINE w == e[i + 1]
             x == e[i + 2]
             y == e[j + 1]
  <2>1. /\ LinearQuantile(e, a) = w + u /\ LinearQuantile(e, b) = y + v
        /\ w \in Int /\ x \in Int /\ y \in Int /\ u \in Nat /\ v \in Nat /\ u <= x - w /\ x <= y
    BY <1>10, <1>11, <1>12
  <2> HIDE DEF w, x, y
  <2>2. w + u <= y + v
    BY <2>1
  <2> QED
    BY <2>1, <2>2
<1>13. CASE i = j /\ f <= g
  <2>1. u <= v
    BY <1>7, <1>13 DEF u, v
  <2> DEFINE w == e[i + 1]
  <2>2. /\ LinearQuantile(e, a) = w + u /\ LinearQuantile(e, b) = w + v
        /\ w \in Int /\ u \in Nat /\ v \in Nat
    BY <1>11, <1>13
  <2> HIDE DEF w
  <2>3. w + u <= w + v
    BY <2>1, <2>2
  <2> QED
    BY <2>2, <2>3
<1> QED
  BY <1>4, <1>12, <1>13

-----------------------------------------------------------------------------
(* Forecasts and their distributions.                                      *)

Baselines == {"naive", "drift", "seasonal"}

LEMMA ForecastTyped ==
  ASSUME NEW m, m.kind \in Baselines, m.season \in Nat \ {0}, NEW n \in Nat, NEW h \in [1..n -> Int],
         n >= MinimumHistory(m), NEW offset \in Nat \ {0}
  PROVE  ForecastAt(m, h, offset) \in Int
<1>1. Len(h) = n
  OBVIOUS
<1>2. CASE m.kind = "naive"
  <2>1. n \in 1..n
    BY <1>2 DEF MinimumHistory
  <2>2. ForecastAt(m, h, offset) = h[n]
    BY <1>1, <1>2 DEF ForecastAt
  <2> QED
    BY <2>1, <2>2
<1>3. CASE m.kind = "drift"
  <2>1. n \in 1..n /\ 1 \in 1..n /\ n - 1 \in Nat \ {0}
    BY <1>3 DEF MinimumHistory
  <2>2. ForecastAt(m, h, offset) = h[n] + ((h[n] - h[1]) * offset) \div (n - 1)
    BY <1>1, <1>3 DEF ForecastAt
  <2>3. h[n] \in Int /\ (h[n] - h[1]) * offset \in Int
    BY <2>1
  <2>4. \A x \in Int, y \in Nat \ {0} : x \div y \in Int
    BY Z3
  <2> QED
    BY <2>1, <2>2, <2>3, <2>4
<1>4. CASE m.kind = "seasonal"
  <2> DEFINE i == (n - m.season + 1) + ((offset - 1) % m.season)
  <2>1. \A x \in Nat, y \in Nat \ {0} : x % y \in 0..(y - 1)
    BY Z3
  <2>2. offset - 1 \in Nat
    OBVIOUS
  <2>3. (offset - 1) % m.season \in 0..(m.season - 1)
    BY <2>1, <2>2
  <2>4. m.season <= n
    BY <1>4 DEF MinimumHistory
  <2>5. i \in 1..n
    <3> DEFINE z == (offset - 1) % m.season
    <3>1. z \in 0..(m.season - 1)
      BY <2>3
    <3> DEFINE q == m.season
    <3>2. q \in Nat \ {0} /\ q <= n /\ z \in Int /\ 0 <= z /\ z <= q - 1
      BY <2>4, <3>1
    <3> HIDE DEF z, q
    <3>3. (n - q + 1) + z \in 1..n
      BY <3>2
    <3> QED
      BY <3>3 DEF z, q
  <2>6. ForecastAt(m, h, offset) = h[i]
    BY <1>1, <1>4 DEF ForecastAt
  <2> QED
    BY <2>5, <2>6
<1> QED
  BY <1>2, <1>3, <1>4 DEF Baselines

IsModel(m) == m.kind \in Baselines /\ m.season \in Nat \ {0}

LEMMA HistoryNeeded ==
  ASSUME NEW m, IsModel(m)
  PROVE  MinimumHistory(m) \in Nat \ {0}
<1>1. CASE m.kind = "naive"
  BY <1>1 DEF MinimumHistory
<1>2. CASE m.kind = "drift"
  BY <1>2 DEF MinimumHistory
<1>3. CASE m.kind = "seasonal"
  BY <1>3 DEF MinimumHistory, IsModel
<1> QED
  BY <1>1, <1>2, <1>3 DEF IsModel, Baselines

LEMMA SubSeqValues ==
  ASSUME NEW V, NEW n \in Nat, NEW s \in [1..n -> V], NEW a \in Nat \ {0}, NEW b \in Nat,
         b <= n, a <= b + 1
  PROVE  SubSeq(s, a, b) = [i \in 1..(b - a + 1) |-> s[i + a - 1]]
OBVIOUS

LEMMA PrefixTyped ==
  ASSUME NEW V, NEW n \in Nat, NEW h \in [1..n -> V], NEW p \in Nat, p <= n
  PROVE  Prefix(h, p) \in [1..p -> V] /\ Prefix(h, p) = [i \in 1..p |-> h[i]]
<1>1. 1 \in Nat \ {0} /\ 1 <= p + 1 /\ p - 1 + 1 = p /\ \A i \in 1..p : i + 1 - 1 = i
  OBVIOUS
<1>2. SubSeq(h, 1, p) = [i \in 1..(p - 1 + 1) |-> h[i + 1 - 1]]
  BY <1>1, SubSeqValues
<1>3. SubSeq(h, 1, p) = [i \in 1..p |-> h[i]]
  BY <1>1, <1>2
<1>4. \A i \in 1..p : h[i] \in V
  OBVIOUS
<1>5. Prefix(h, p) = [i \in 1..p |-> h[i]]
  BY <1>3 DEF Prefix
<1> QED
  BY <1>4, <1>5

\* The errors of the expanding origins are whole numbers.
LEMMA ErrorsTyped ==
  ASSUME NEW m, IsModel(m), NEW n \in Nat, NEW h \in [1..n -> Int], NEW offset \in Nat \ {0},
         Len(ExpandingOriginErrors(m, h, offset)) >= 2
  PROVE  \E c \in Nat : c >= 2 /\ ExpandingOriginErrors(m, h, offset) \in [1..c -> Int]
<1> DEFINE least == MinimumHistory(m)
           c == n - offset - least + 1
           E == ExpandingOriginErrors(m, h, offset)
           origin(k) == k + least - 1
           err(k) == h[origin(k) + offset] - ForecastAt(m, Prefix(h, origin(k)), offset)
<1>1. least \in Nat \ {0} /\ Len(h) = n /\ c \in Int
  BY HistoryNeeded
<1>2. E = [k \in 1..c |-> err(k)]
  BY <1>1 DEF ExpandingOriginErrors
<1>3. \A k \in 1..c : err(k) \in Int
  <2> TAKE k \in 1..c
  <2>1. origin(k) \in Nat /\ origin(k) <= n /\ origin(k) >= least /\ origin(k) + offset \in 1..n
    <3> HIDE DEF least
    <3>1. least \in Int /\ offset \in Int /\ k \in 1..(n - offset - least + 1)
      BY <1>1
    <3> QED
      BY <3>1, <1>1
  <2> HIDE DEF origin
  <2>2. Prefix(h, origin(k)) \in [1..origin(k) -> Int]
    BY <2>1, PrefixTyped
  <2>3. ForecastAt(m, Prefix(h, origin(k)), offset) \in Int
    <3> DEFINE o == origin(k)
               w == Prefix(h, o)
    <3>1. o \in Nat /\ o >= MinimumHistory(m) /\ w \in [1..o -> Int]
      BY <2>1, <2>2
    <3> HIDE DEF o, w
    <3>2. ForecastAt(m, w, offset) \in Int
      BY <3>1, ForecastTyped DEF IsModel
    <3> QED
      BY <3>2 DEF o, w
  <2>4. h[origin(k) + offset] \in Int
    BY <2>1
  <2> QED
    BY <2>3, <2>4
<1> HIDE DEF err, c, least
<1>4. E \in [1..c -> Int]
  BY <1>2, <1>3
<1>5. c >= 2
  <2> SUFFICES ASSUME c < 2 PROVE FALSE
    BY <1>1
  <2>1. CASE c = 1
    <3>1. Len(E) = 1
      BY <1>4, <2>1
    <3> QED
      BY <3>1
  <2>2. CASE c < 1
    <3>1. 1..c = 1..0
      BY <1>1, <2>2
    <3>2. E \in [1..0 -> Int]
      BY <1>4, <3>1
    <3>3. Len(E) = 0
      <4> HIDE DEF E
      <4> QED
        BY <3>2
    <3> QED
      BY <3>3
  <2> QED
    BY <1>1, <2>1, <2>2
<1> QED
  BY <1>1, <1>4, <1>5

\* A history that a baseline answers with quantiles.
Forecastable(m, h, horizon) ==
  /\ IsModel(m) /\ horizon \in Nat /\ \E n \in Nat : h \in [1..n -> Int]
  /\ Fits(m, h) /\ HasQuantiles(m, h, horizon)

\* Where quantiles are given they do not cross, and the median is the point forecast.
LEMMA LevelsInOrder ==
  ASSUME NEW m, NEW h, NEW horizon, Forecastable(m, h, horizon), NEW offset \in 1..horizon,
         NEW a \in 1..(Whole - 1), NEW b \in 1..(Whole - 1), a <= b
  PROVE  /\ ForecastAt(m, h, offset) \in Int
         /\ QuantileAt(m, h, offset, a) \in Int /\ QuantileAt(m, h, offset, b) \in Int
         /\ QuantileAt(m, h, offset, a) <= QuantileAt(m, h, offset, b)
         /\ QuantileAt(m, h, offset, Median) = ForecastAt(m, h, offset)
<1> DEFINE E == ExpandingOriginErrors(m, h, offset)
           e == Ordered(E)
           point == ForecastAt(m, h, offset)
<1>0. /\ IsModel(m) /\ horizon \in Nat /\ Fits(m, h) /\ HasQuantiles(m, h, horizon)
      /\ \E n \in Nat : h \in [1..n -> Int]
  BY DEF Forecastable
<1> PICK n \in Nat : h \in [1..n -> Int]
  BY <1>0
<1>1. offset \in Nat \ {0} /\ Len(E) >= 2
  BY <1>0 DEF HasQuantiles
<1>2. Len(h) = n /\ n >= MinimumHistory(m)
  BY <1>0 DEF Fits
<1>3. point \in Int
  BY <1>0, <1>1, <1>2, ForecastTyped DEF IsModel
<1>4. PICK c \in Nat : c >= 2 /\ E \in [1..c -> Int]
  BY <1>0, <1>1, ErrorsTyped
<1> HIDE DEF E, point
<1>5. e \in [1..c -> Int] /\ \A k \in 1..c, l \in 1..c : k <= l => e[k] <= e[l]
  BY <1>4, OrderedRises
<1> HIDE DEF e
<1>6. /\ LinearQuantile(e, a) \in Int /\ LinearQuantile(e, b) \in Int
      /\ LinearQuantile(e, a) <= LinearQuantile(e, b)
  BY <1>4, <1>5, QuantilesRise
<1>7. Median \in 1..(Whole - 1) /\ Median <= Median
  BY DEF Median, Whole
<1>8. LinearQuantile(e, Median) \in Int
  BY <1>4, <1>5, <1>7, QuantilesRise
<1>9. \A x : QuantileAt(m, h, offset, x) = point + LinearQuantile(e, x) - LinearQuantile(e, Median)
  BY DEF QuantileAt, e, E, point
<1>10. QuantileAt(m, h, offset, Median) = point
  BY <1>3, <1>8, <1>9
<1>11. point + LinearQuantile(e, a) - LinearQuantile(e, Median)
         <= point + LinearQuantile(e, b) - LinearQuantile(e, Median)
  BY <1>3, <1>6, <1>8
<1>12. /\ point + LinearQuantile(e, a) - LinearQuantile(e, Median) \in Int
       /\ point + LinearQuantile(e, b) - LinearQuantile(e, Median) \in Int
  BY <1>3, <1>6, <1>8
<1>13. point = ForecastAt(m, h, offset)
  BY DEF point
<1> QED
  BY <1>3, <1>9, <1>10, <1>11, <1>12, <1>13

CoverageSets == SUBSET (1..999)

LEMMA LevelsTyped ==
  ASSUME NEW coverages \in CoverageSets
  PROVE  /\ QuantileLevels(coverages) \subseteq 1..(Whole - 1) /\ Median \in QuantileLevels(coverages)
         /\ \A c \in coverages : LowerLevel(c) \in QuantileLevels(coverages)
                                 /\ UpperLevel(c) \in QuantileLevels(coverages)
<1>1. \A c \in coverages : LowerLevel(c) \in 1..(Whole - 1) /\ UpperLevel(c) \in 1..(Whole - 1)
  BY DEF CoverageSets, LowerLevel, UpperLevel, Median, Whole
<1>2. Median \in 1..(Whole - 1)
  BY DEF Median, Whole
<1> QED
  BY <1>1, <1>2 DEF QuantileLevels

\* A distribution of whole numbers whose quantiles are in order, floored or not.
WellFormed(d, horizon, coverages) ==
  /\ ValidDistribution(d) /\ ValidDistribution(Served(d))
  /\ \A offset \in 1..horizon :
       /\ d.point[offset] \in Int
       /\ \A a, b \in QuantileLevels(coverages) : a <= b =>
            /\ d.quantiles[a][offset] \in Int /\ d.quantiles[b][offset] \in Int
            /\ d.quantiles[a][offset] <= d.quantiles[b][offset]
       /\ d.quantiles[Median][offset] = d.point[offset]

\* Every distribution a baseline gives is valid, and stays so when prices are floored.
LEMMA DistributionsHold ==
  ASSUME NEW m, NEW h, NEW horizon, Forecastable(m, h, horizon), NEW coverages \in CoverageSets
  PROVE  WellFormed(Distribution(m, h, horizon, coverages), horizon, coverages)
<1> DEFINE d == Distribution(m, h, horizon, coverages)
           L == QuantileLevels(coverages)
           point == [offset \in 1..horizon |-> ForecastAt(m, h, offset)]
           path(a) == [offset \in 1..horizon |-> QuantileAt(m, h, offset, a)]
<1>1. L \subseteq 1..(Whole - 1) /\ Median \in L
  BY LevelsTyped
<1>2. d = [point |-> point, quantiles |-> [a \in L |-> path(a)]]
  BY DEF Distribution
<1>3. \A offset \in 1..horizon, a \in L, b \in L : a <= b =>
        /\ ForecastAt(m, h, offset) \in Int
        /\ QuantileAt(m, h, offset, a) \in Int /\ QuantileAt(m, h, offset, b) \in Int
        /\ QuantileAt(m, h, offset, a) <= QuantileAt(m, h, offset, b)
        /\ QuantileAt(m, h, offset, Median) = ForecastAt(m, h, offset)
  <2> TAKE offset \in 1..horizon, a \in L, b \in L
  <2> HAVE a <= b
  <2>1. a \in 1..(Whole - 1) /\ b \in 1..(Whole - 1)
    BY <1>1
  <2> HIDE DEF L
  <2> QED
    BY <2>1, LevelsInOrder
<1>4. \A offset \in 1..horizon : /\ ForecastAt(m, h, offset) \in Int
                                 /\ QuantileAt(m, h, offset, Median) = ForecastAt(m, h, offset)
  <2>1. Median <= Median
    BY DEF Median
  <2> HIDE DEF L
  <2> QED
    BY <2>1, <1>1, <1>3
<1> HIDE DEF L
<1>5. /\ d.point = point /\ \A a \in L : d.quantiles[a] = path(a)
      /\ DOMAIN d.point = 1..horizon /\ DOMAIN d.quantiles = L
  BY <1>2
<1>6. \A offset \in 1..horizon :
        /\ d.point[offset] \in Int
        /\ \A a, b \in L : a <= b =>
             /\ d.quantiles[a][offset] \in Int /\ d.quantiles[b][offset] \in Int
             /\ d.quantiles[a][offset] <= d.quantiles[b][offset]
        /\ d.quantiles[Median][offset] = d.point[offset]
  <2> HIDE DEF d
  <2>1. \A offset \in 1..horizon : d.point[offset] = ForecastAt(m, h, offset)
    BY <1>5
  <2>2. \A offset \in 1..horizon, a \in L : d.quantiles[a][offset] = QuantileAt(m, h, offset, a)
    <3> TAKE offset \in 1..horizon, a \in L
    <3>1. d.quantiles[a] = path(a)
      BY <1>5
    <3> QED
      BY <3>1
  <2> TAKE offset \in 1..horizon
  <2>3. d.point[offset] \in Int /\ d.quantiles[Median][offset] = d.point[offset]
    BY <1>1, <1>4, <2>1, <2>2
  <2>4. ASSUME NEW a \in L, NEW b \in L, a <= b
        PROVE  /\ d.quantiles[a][offset] \in Int /\ d.quantiles[b][offset] \in Int
               /\ d.quantiles[a][offset] <= d.quantiles[b][offset]
    <3>1. /\ d.quantiles[a][offset] = QuantileAt(m, h, offset, a)
          /\ d.quantiles[b][offset] = QuantileAt(m, h, offset, b)
      BY <2>2
    <3>2. /\ QuantileAt(m, h, offset, a) \in Int /\ QuantileAt(m, h, offset, b) \in Int
          /\ QuantileAt(m, h, offset, a) <= QuantileAt(m, h, offset, b)
      BY <2>4, <1>3
    <3> QED
      BY <3>1, <3>2
  <2> QED
    BY <2>3, <2>4
<1>7. d.quantiles[Median] = d.point
  BY <1>1, <1>4, <1>5
<1> HIDE DEF d, point, path
<1>8. \A a, b \in L : a < b => a <= b
  BY <1>1
<1>9. ValidDistribution(d)
  BY <1>5, <1>6, <1>7, <1>8 DEF ValidDistribution
<1> DEFINE f == Served(d)
           floors(a) == [offset \in 1..horizon |-> Floored(d.quantiles[a][offset])]
<1>10. /\ f.point = [offset \in 1..horizon |-> Floored(d.point[offset])]
       /\ f.quantiles = [a \in L |-> floors(a)]
  BY <1>5 DEF Served
<1> HIDE DEF f
<1>11. \A v, w \in Int : v <= w => Floored(v) <= Floored(w)
  BY DEF Floored
<1>12. \A a, b \in DOMAIN f.quantiles : a < b =>
         \A offset \in DOMAIN f.point : f.quantiles[a][offset] <= f.quantiles[b][offset]
  <2> SUFFICES ASSUME NEW a \in L, NEW b \in L, a < b, NEW offset \in 1..horizon
               PROVE  f.quantiles[a][offset] <= f.quantiles[b][offset]
    BY <1>10
  <2>1. f.quantiles[a][offset] = Floored(d.quantiles[a][offset])
    BY <1>10
  <2>2. f.quantiles[b][offset] = Floored(d.quantiles[b][offset])
    BY <1>10
  <2>3. /\ d.quantiles[a][offset] \in Int /\ d.quantiles[b][offset] \in Int
        /\ d.quantiles[a][offset] <= d.quantiles[b][offset]
    BY <1>6, <1>8
  <2> QED
    BY <2>1, <2>2, <2>3, <1>11
<1>13. f.quantiles[Median] = f.point
  BY <1>1, <1>7, <1>10
<1>14. ValidDistribution(f)
  BY <1>12, <1>13 DEF ValidDistribution
<1>15. f = Served(d) /\ d = Distribution(m, h, horizon, coverages) /\ L = QuantileLevels(coverages)
  BY DEF f, d, L
<1>16. WellFormed(d, horizon, coverages)
  BY <1>6, <1>9, <1>14, <1>15 DEF WellFormed
<1> QED
  BY <1>15, <1>16

-----------------------------------------------------------------------------
(* Walk-forward evaluation.                                                *)

Settings ==
  [initial: Nat \ {0}, horizon: Nat \ {0}, stride: Nat \ {0}, coverages: CoverageSets]

\* Every origin leaves a complete horizon behind it.
LEMMA OriginsFit ==
  ASSUME NEW n \in Nat, NEW c \in Settings
  PROVE  /\ OriginCount(n, c) \in Nat
         /\ \A k \in 1..OriginCount(n, c) :
              /\ OriginAt(k, c) \in Nat \ {0} /\ OriginAt(k, c) + c.horizon <= n
              /\ OriginAt(k, c) \in Origins(n, c)
<1> DEFINE left == n - c.horizon - c.initial
<1>1. c.initial \in Nat \ {0} /\ c.horizon \in Nat \ {0} /\ c.stride \in Nat \ {0}
  BY DEF Settings
<1>2. \A x \in Nat, y \in Nat \ {0} : x \div y \in Nat /\ (x \div y) * y <= x
  BY Z3
<1>3. CASE n < c.initial + c.horizon
  <2>1. OriginCount(n, c) = 0
    BY <1>3 DEF OriginCount
  <2> QED
    BY <2>1
<1>4. CASE ~ (n < c.initial + c.horizon)
  <2>1. left \in Nat
    BY <1>1, <1>4
  <2>2. OriginCount(n, c) = left \div c.stride + 1
    BY <1>4 DEF OriginCount
  <2> HIDE DEF left
  <2>3. left \div c.stride \in Nat /\ (left \div c.stride) * c.stride <= left
    BY <1>1, <1>2, <2>1
  <2>4. ASSUME NEW k \in 1..OriginCount(n, c)
        PROVE  OriginAt(k, c) \in Nat \ {0} /\ OriginAt(k, c) + c.horizon <= n
    <3>1. k - 1 \in Nat /\ k - 1 <= left \div c.stride
      BY <2>2, <2>3
    <3>2. (k - 1) * c.stride <= (left \div c.stride) * c.stride /\ (k - 1) * c.stride \in Nat
      BY <1>1, <2>3, <3>1, ProductsRise
    <3>3. (left \div c.stride) * c.stride \in Nat
      BY <1>1, <2>3, ProductsRise
    <3> DEFINE z == (k - 1) * c.stride
    <3>4. z \in Nat /\ z <= left
      BY <2>1, <2>3, <3>2, <3>3
    <3>5. OriginAt(k, c) = c.initial + z
      BY DEF OriginAt
    <3> HIDE DEF z
    <3> QED
      BY <1>1, <3>4, <3>5 DEF left
  <2> QED
    BY <2>2, <2>3, <2>4 DEF Origins
<1> QED
  BY <1>3, <1>4

\* What an evaluation has of one origin.
LEMMA OriginHolds ==
  ASSUME NEW n \in Nat, NEW s \in [1..n -> Int], NEW m, IsModel(m), NEW c \in Settings,
         NEW t \in Nat \ {0}, t + c.horizon <= n,
         Fits(m, Training(s, t)), HasQuantiles(m, Training(s, t), c.horizon)
  PROVE  LET o == OriginForecast(s, m, t, c) IN
         /\ o.actual \in [1..c.horizon -> Int]
         /\ o.forecast = Distribution(m, Training(s, t), c.horizon, c.coverages)
         /\ WellFormed(o.forecast, c.horizon, c.coverages)
<1> DEFINE h == Training(s, t)
           o == OriginForecast(s, m, t, c)
           d == Distribution(m, h, c.horizon, c.coverages)
<1>1. c.horizon \in Nat \ {0} /\ c.coverages \in CoverageSets
  BY DEF Settings
<1>2. h \in [1..t -> Int]
  <2>1. t <= n
    BY <1>1
  <2> QED
    BY <2>1, PrefixTyped DEF Training
<1>3. Forecastable(m, h, c.horizon)
  BY <1>1, <1>2 DEF Forecastable
<1>4. o.forecast = d /\ o.actual = SubSeq(s, t + 1, t + c.horizon)
  BY DEF OriginForecast
<1>5. o.actual \in [1..c.horizon -> Int]
  <2>1. /\ t + 1 \in Nat \ {0} /\ t + c.horizon \in Nat /\ t + 1 <= t + c.horizon + 1
        /\ (t + c.horizon) - (t + 1) + 1 = c.horizon
    BY <1>1
  <2>2. o.actual = [i \in 1..((t + c.horizon) - (t + 1) + 1) |-> s[i + (t + 1) - 1]]
    <3> DEFINE a == t + 1
               b == t + c.horizon
    <3>1. a \in Nat \ {0} /\ b \in Nat /\ b <= n /\ a <= b + 1
      BY <2>1
    <3> HIDE DEF o, a, b
    <3>2. SubSeq(s, a, b) = [i \in 1..(b - a + 1) |-> s[i + a - 1]]
      BY <3>1, SubSeqValues
    <3> QED
      BY <1>4, <3>2, Zenon DEF a, b
  <2> HIDE DEF o
  <2>3. \A i \in 1..c.horizon : i + (t + 1) - 1 \in 1..n
    BY <1>1
  <2>4. \A i \in 1..c.horizon : s[i + (t + 1) - 1] \in Int
    BY <2>3
  <2> QED
    BY <2>1, <2>2, <2>4
<1> HIDE DEF h, o
<1>6. WellFormed(d, c.horizon, c.coverages)
  BY <1>1, <1>3, DistributionsHold
<1> HIDE DEF d
<1>7. h = Training(s, t) /\ o = OriginForecast(s, m, t, c)
      /\ d = Distribution(m, h, c.horizon, c.coverages)
  BY DEF h, o, d
<1> QED
  BY <1>4, <1>5, <1>6, <1>7

\* A baseline's forecast is valid and does not see what follows its origin.
LEMMA ForecastsAreCausal ==
  ASSUME NEW n \in Nat, NEW s \in [1..n -> Int], NEW m, IsModel(m), NEW c \in Settings,
         \A b \in Shapes : b.close \in Int
  PROVE  CausalForecasts(s, m, c)
<1>1. Len(s) = n
  OBVIOUS
<1> SUFFICES ASSUME NEW t \in Origins(n, c), Fits(m, Prefix(s, t)),
                    HasQuantiles(m, Prefix(s, t), c.horizon)
             PROVE  LET d == OriginForecast(s, m, t, c).forecast IN
                    /\ ValidDistribution(d) /\ ValidDistribution(Served(d))
                    /\ \A i \in (t + 1)..n, x \in {b.close : b \in Shapes} :
                         OriginForecast([s EXCEPT ![i] = x], m, t, c).forecast = d
  BY <1>1 DEF CausalForecasts
<1> DEFINE d == OriginForecast(s, m, t, c).forecast
<1>2. t \in Nat \ {0} /\ t + c.horizon <= n /\ t <= n
  <2>1. PICK k \in 1..OriginCount(n, c) : t = OriginAt(k, c)
    BY DEF Origins
  <2>2. t \in Nat \ {0} /\ t + c.horizon <= n
    BY <2>1, OriginsFit
  <2>3. c.horizon \in Nat
    BY DEF Settings
  <2> QED
    BY <2>2, <2>3
<1>3. Training(s, t) = Prefix(s, t)
  BY DEF Training
<1>4. /\ WellFormed(d, c.horizon, c.coverages)
      /\ d = Distribution(m, Training(s, t), c.horizon, c.coverages)
  BY <1>2, <1>3, OriginHolds
<1>5. ASSUME NEW i \in (t + 1)..n, NEW x \in {b.close : b \in Shapes}
      PROVE  OriginForecast([s EXCEPT ![i] = x], m, t, c).forecast = d
  <2> DEFINE r == [s EXCEPT ![i] = x]
  <2>1. r \in [1..n -> Int]
    OBVIOUS
  <2>2. \A j \in 1..t : r[j] = s[j]
    BY <1>2
  <2> HIDE DEF r
  <2>8. t \in Nat /\ t <= n
    BY <1>2
  <2>3. Prefix(r, t) = [j \in 1..t |-> r[j]] /\ Prefix(s, t) = [j \in 1..t |-> s[j]]
    BY <2>1, <2>8, SMT DEF Prefix
  <2>4. Prefix(r, t) = Prefix(s, t)
    BY <2>2, <2>3
  <2>5. OriginForecast(r, m, t, c).forecast = Distribution(m, Prefix(r, t), c.horizon, c.coverages)
    BY DEF OriginForecast, Training
  <2>6. OriginForecast(r, m, t, c).forecast = d
    BY <1>3, <1>4, <2>4, <2>5
  <2> QED
    BY <2>6 DEF r
<1>6. ValidDistribution(d) /\ ValidDistribution(Served(d))
  BY <1>4 DEF WellFormed
<1> QED
  BY <1>5, <1>6

\* The pinball loss at the median is half the absolute error.
LEMMA MedianPinball ==
  ASSUME NEW y \in Int, NEW q \in Int
  PROVE  Pinball(y, q, Median) = Median * AbsoluteError(y, q) /\ AbsoluteError(y, q) \in Int
<1>1. Pinball(y, q, 1000) = IF y >= q THEN 1000 * (y - q) ELSE (2000 - 1000) * (q - y)
  BY DEF Pinball, Whole
<1> QED
  BY <1>1 DEF Median, AbsoluteError

LEMMA ScoresHold ==
  ASSUME NEW n \in Nat, NEW s \in [1..n -> Int], NEW m, IsModel(m), NEW c \in Settings
  PROVE  ScoresAgree(s, m, c)
<1> DEFINE N == OriginCount(n, c)
           E == Evaluation(s, m, c)
           o(k) == OriginForecast(s, m, OriginAt(k, c), c)
<1>1. Len(s) = n
  OBVIOUS
<1> SUFFICES ASSUME Evaluable(s, m, c), NEW offset \in 1..c.horizon
             PROVE  /\ TotalPinball(E, offset, Median) = Median * TotalAbsoluteError(E, offset)
                    /\ \A a, b \in c.coverages :
                         a < b => CoveredOrigins(E, offset, a) \subseteq CoveredOrigins(E, offset, b)
  BY DEF ScoresAgree
<1>2. N \in Nat /\ E = [k \in 1..N |-> o(k)]
  BY <1>1, OriginsFit DEF Evaluation
<1>3. \A k \in 1..N : /\ o(k).actual \in [1..c.horizon -> Int]
                      /\ WellFormed(o(k).forecast, c.horizon, c.coverages)
  <2> TAKE k \in 1..N
  <2> DEFINE t == OriginAt(k, c)
  <2>1. t \in Nat \ {0} /\ t + c.horizon <= n /\ t \in Origins(n, c)
    BY OriginsFit
  <2>2. Fits(m, Training(s, t)) /\ HasQuantiles(m, Training(s, t), c.horizon)
    BY <1>1, <2>1 DEF Evaluable
  <2> HIDE DEF t
  <2>3. LET g == OriginForecast(s, m, t, c) IN
        g.actual \in [1..c.horizon -> Int] /\ WellFormed(g.forecast, c.horizon, c.coverages)
    BY <2>1, <2>2, OriginHolds
  <2> QED
    BY <2>3 DEF t
<1> HIDE DEF o, N
<1>4. c.coverages \in CoverageSets
  BY DEF Settings
<1>5. ASSUME NEW k \in 1..N
      PROVE  /\ o(k).actual[offset] \in Int /\ o(k).forecast.point[offset] \in Int
             /\ \A a, b \in QuantileLevels(c.coverages) : a <= b =>
                  /\ o(k).forecast.quantiles[a][offset] \in Int
                  /\ o(k).forecast.quantiles[b][offset] \in Int
                  /\ o(k).forecast.quantiles[a][offset] <= o(k).forecast.quantiles[b][offset]
             /\ o(k).forecast.quantiles[Median][offset] = o(k).forecast.point[offset]
  BY <1>3 DEF WellFormed
<1>6. TotalPinball(E, offset, Median) = Median * TotalAbsoluteError(E, offset)
  <2> DEFINE err(k) == AbsoluteError(o(k).actual[offset], o(k).forecast.point[offset])
             loss(k) == Pinball(o(k).actual[offset], o(k).forecast.quantiles[Median][offset], Median)
             R == [k \in 1..N |-> loss(k)]
             S == [k \in 1..N |-> err(k)]
  <2>1. \A k \in 1..N : loss(k) = Median * err(k) /\ err(k) \in Int
    BY <1>5, MedianPinball
  <2>2. TotalPinball(E, offset, Median) = Total(R)
    BY <1>2 DEF TotalPinball
  <2>3. TotalAbsoluteError(E, offset) = Total(S)
    BY <1>2 DEF TotalAbsoluteError
  <2>4. Median \in Int /\ \A x \in Int : Median * x \in Int
    BY DEF Median
  <2> HIDE DEF err, loss
  <2>5. R \in [1..N -> Int] /\ S \in [1..N -> Int] /\ \A k \in 1..N : R[k] = Median * S[k]
    BY <2>1, <2>4
  <2> HIDE DEF R, S
  <2>6. Total(R) = Median * Total(S)
    BY <1>2, <2>4, <2>5, TotalOfMultiples
  <2> QED
    BY <2>2, <2>3, <2>6
<1>7. ASSUME NEW a \in c.coverages, NEW b \in c.coverages, a < b
      PROVE  CoveredOrigins(E, offset, a) \subseteq CoveredOrigins(E, offset, b)
  <2>1. /\ LowerLevel(a) \in QuantileLevels(c.coverages) /\ UpperLevel(a) \in QuantileLevels(c.coverages)
        /\ LowerLevel(b) \in QuantileLevels(c.coverages) /\ UpperLevel(b) \in QuantileLevels(c.coverages)
    BY <1>4, LevelsTyped
  <2>2. LowerLevel(b) <= LowerLevel(a) /\ UpperLevel(a) <= UpperLevel(b)
    <3>1. a \in 1..999 /\ b \in 1..999
      BY <1>4 DEF CoverageSets
    <3> QED
      BY <1>7, <3>1 DEF LowerLevel, UpperLevel, Median
  <2> SUFFICES ASSUME NEW k \in CoveredOrigins(E, offset, a)
               PROVE  k \in CoveredOrigins(E, offset, b)
    OBVIOUS
  <2>3. /\ k \in 1..N
        /\ o(k).forecast.quantiles[LowerLevel(a)][offset] <= o(k).actual[offset]
        /\ o(k).actual[offset] <= o(k).forecast.quantiles[UpperLevel(a)][offset]
    BY <1>2 DEF CoveredOrigins
  <2>4. /\ o(k).forecast.quantiles[LowerLevel(b)][offset] <= o(k).forecast.quantiles[LowerLevel(a)][offset]
        /\ o(k).forecast.quantiles[LowerLevel(b)][offset] \in Int
        /\ o(k).forecast.quantiles[LowerLevel(a)][offset] \in Int
    BY <1>5, <2>1, <2>2, <2>3
  <2>5. /\ o(k).forecast.quantiles[UpperLevel(a)][offset] <= o(k).forecast.quantiles[UpperLevel(b)][offset]
        /\ o(k).forecast.quantiles[UpperLevel(a)][offset] \in Int
        /\ o(k).forecast.quantiles[UpperLevel(b)][offset] \in Int
    BY <1>5, <2>1, <2>2, <2>3
  <2>6. o(k).actual[offset] \in Int
    BY <1>5, <2>3
  <2>7. /\ o(k).forecast.quantiles[LowerLevel(b)][offset] <= o(k).actual[offset]
        /\ o(k).actual[offset] <= o(k).forecast.quantiles[UpperLevel(b)][offset]
    BY <2>3, <2>4, <2>5, <2>6
  <2> QED
    BY <1>2, <2>3, <2>7 DEF CoveredOrigins
<1> QED
  BY <1>6, <1>7

-----------------------------------------------------------------------------
(* Indicators of a series, and of the same series without its last value.  *)

\* What the shorter series gives is what the longer one gives before its end,
\* and the longer one has a value at its end from length first on.
Continues(early, out, n, first) ==
  early = SubSeq(out, 1, n - 1) /\ (out[n] # None <=> n >= first)

LEMMA AlignedContinues ==
  ASSUME NEW n \in Nat \ {0}, NEW first \in Nat \ {0}, NEW v, NEW w,
         \A i \in first..(n - 1) : w[i] = v[i]
  PROVE  Continues(Aligned(n - 1, first, w), Aligned(n, first, v), n, first)
<1> DEFINE x == Aligned(n, first, v)
           V == {x[i] : i \in 1..n}
<1>1. x = [i \in 1..n |-> IF i < first THEN None ELSE Some(v[i])]
  BY DEF Aligned
<1>2. x \in [1..n -> V]
  <2>1. \A i \in 1..n : x[i] \in V
    OBVIOUS
  <2>2. x = [i \in 1..n |-> x[i]]
    BY <1>1
  <2> HIDE DEF V, x
  <2> QED
    BY <2>1, <2>2
<1>3. n - 1 \in Nat /\ n - 1 <= n
  OBVIOUS
<1>4. SubSeq(x, 1, n - 1) = [i \in 1..(n - 1) |-> x[i]]
  <2> HIDE DEF x, V
  <2> QED
    BY <1>2, <1>3, SMT
<1>5. ASSUME NEW i \in 1..(n - 1)
      PROVE  x[i] = IF i < first THEN None ELSE Some(w[i])
  <2>1. i \in 1..n
    OBVIOUS
  <2>2. ~ (i < first) => i \in first..(n - 1)
    OBVIOUS
  <2> HIDE DEF x
  <2> QED
    BY <1>1, <2>1, <2>2
<1>6. Aligned(n - 1, first, w) = SubSeq(x, 1, n - 1)
  <2> HIDE DEF x
  <2> QED
    BY <1>4, <1>5 DEF Aligned
<1>7. x[n] = IF n < first THEN None ELSE Some(v[n])
  <2>1. n \in 1..n
    OBVIOUS
  <2> HIDE DEF x
  <2> QED
    BY <1>1, <2>1
<1>8. Some(v[n]) # None
  <2> SUFFICES ASSUME Some(v[n]) = None  PROVE FALSE
    OBVIOUS
  <2>1. Len(Some(v[n])) = 1 /\ Len(None) = 0
    BY DEF Some, None
  <2> QED
    BY <2>1
<1> QED
  <2> HIDE DEF x
  <2>1. n < first <=> ~ (n >= first)
    OBVIOUS
  <2>2. x[n] # None <=> n >= first
    BY <1>7, <1>8, <2>1
  <2> QED
    BY <1>6, <2>2 DEF Continues, x

\* A value of an indicator, read through its alignment.
LEMMA AlignedValues ==
  ASSUME NEW n \in Nat, NEW first \in Nat, NEW v
  PROVE  \A i \in 1..n : ~ (i < first) => Aligned(n, first, v)[i][1] = v[i]
BY DEF Aligned, Some

\* The series p is s without its last value.
Begins(p, s, n) == p = [i \in 1..(n - 1) |-> s[i]] /\ s = [i \in 1..n |-> s[i]]

LEMMA BeginsTyped ==
  ASSUME NEW n \in Nat \ {0}, NEW p, NEW s, Begins(p, s, n)
  PROVE  /\ n - 1 \in Nat /\ Len(p) = n - 1 /\ Len(s) = n
         /\ \A i \in 1..(n - 1) : p[i] = s[i] /\ i \in 1..n
<1>1. n - 1 \in Nat /\ n \in Nat /\ \A i \in 1..(n - 1) : i \in 1..n
  OBVIOUS
<1>2. \A m \in Nat : \A q : Len([i \in 1..m |-> q[i]]) = m
  OBVIOUS
<1>3. p = [i \in 1..(n - 1) |-> s[i]] /\ s = [i \in 1..n |-> s[i]]
  BY DEF Begins
<1>4. Len(p) = n - 1
  <2>1. Len([i \in 1..(n - 1) |-> s[i]]) = n - 1
    BY <1>1, <1>2
  <2> QED
    BY <1>3, <2>1, Zenon
<1>5. Len(s) = n
  <2>1. Len([i \in 1..n |-> s[i]]) = n
    BY <1>1, <1>2
  <2> QED
    BY <1>3, <2>1, Zenon
<1>6. ASSUME NEW i \in 1..(n - 1)  PROVE p[i] = s[i]
  <2>1. [j \in 1..(n - 1) |-> s[j]][i] = s[i]
    OBVIOUS
  <2> QED
    BY <1>3, <2>1, Zenon
<1> QED
  BY <1>1, <1>4, <1>5, <1>6, Zenon

SharedWindows(p, s, n) ==
  \A b \in 0..(n - 1) : \A a \in 1..(b + 1) : SubSeq(p, a, b) = SubSeq(s, a, b)

LEMMA WindowsAgree ==
  ASSUME NEW n \in Nat \ {0}, NEW p, NEW s, Begins(p, s, n)
  PROVE  SharedWindows(p, s, n)
<1> SUFFICES \A b \in 0..(n - 1) : \A a \in 1..(b + 1) : SubSeq(p, a, b) = SubSeq(s, a, b)
  BY DEF SharedWindows
<1> DEFINE V == {s[i] : i \in 1..n}
<1>1. /\ p \in [1..(n - 1) -> V] /\ s \in [1..n -> V] /\ n - 1 \in Nat
      /\ \A i \in 1..(n - 1) : p[i] = s[i]
  <2>1. \A i \in 1..n : s[i] \in V
    OBVIOUS
  <2>2. \A i \in 1..(n - 1) : s[i] \in V
    OBVIOUS
  <2> HIDE DEF V
  <2>3. [i \in 1..n |-> s[i]] \in [1..n -> V] /\ [i \in 1..(n - 1) |-> s[i]] \in [1..(n - 1) -> V]
    BY <2>1, <2>2
  <2>4. p \in [1..(n - 1) -> V] /\ s \in [1..n -> V]
    BY <2>3, Zenon DEF Begins
  <2> QED
    BY <2>4, BeginsTyped
<1> HIDE DEF V
<1> TAKE b \in 0..(n - 1)
<1> TAKE a \in 1..(b + 1)
<1>2. SubSeq(p, a, b) = [i \in 1..(b - a + 1) |-> p[i + a - 1]]
  BY <1>1, SMT
<1>3. SubSeq(s, a, b) = [i \in 1..(b - a + 1) |-> s[i + a - 1]]
  <2>1. b <= n
    OBVIOUS
  <2> QED
    BY <2>1, <1>1, SMT
<1>4. ASSUME NEW i \in 1..(b - a + 1)  PROVE p[i + a - 1] = s[i + a - 1]
  <2>1. i + a - 1 \in 1..(n - 1)
    OBVIOUS
  <2> QED
    BY <2>1, <1>1
<1> QED
  BY <1>2, <1>3, <1>4

LEMMA ReturnsContinue ==
  ASSUME NEW n \in Nat \ {0}, NEW p, NEW s, Begins(p, s, n), NEW lag \in Nat \ {0}
  PROVE  Continues(SimpleReturns(p, lag), SimpleReturns(s, lag), n, lag + 1)
<1>0. /\ n - 1 \in Nat /\ Len(p) = n - 1 /\ Len(s) = n
      /\ \A i \in 1..(n - 1) : p[i] = s[i] /\ i \in 1..n
  BY BeginsTyped
<1> DEFINE w == [i \in (lag + 1)..(n - 1) |-> SimpleReturn(p, i, lag)]
           v == [i \in (lag + 1)..n |-> SimpleReturn(s, i, lag)]
<1>1. SimpleReturns(p, lag) = Aligned(n - 1, lag + 1, w) /\ SimpleReturns(s, lag) = Aligned(n, lag + 1, v)
  BY BeginsTyped DEF SimpleReturns
<1>2. ASSUME NEW i \in (lag + 1)..(n - 1)  PROVE w[i] = v[i]
  <2>1. i \in 1..(n - 1) /\ i - lag \in 1..(n - 1) /\ i \in (lag + 1)..n
    OBVIOUS
  <2>2. p[i] = s[i] /\ p[i - lag] = s[i - lag]
    BY <1>0, <2>1
  <2> QED
    BY <2>1, <2>2 DEF SimpleReturn
<1> HIDE DEF w, v
<1>3. lag + 1 \in Nat \ {0}
  OBVIOUS
<1> QED
  BY <1>1, <1>2, <1>3, AlignedContinues

LEMMA TrailingAgrees ==
  ASSUME NEW n \in Nat \ {0}, NEW p, NEW s, Begins(p, s, n), NEW w \in Nat \ {0}, NEW i \in w..(n - 1)
  PROVE  Trailing(p, i, w) = Trailing(s, i, w)
<1>1. i - w + 1 \in Nat \ {0} /\ i \in Nat /\ i <= n - 1 /\ i - w + 1 <= i + 1
  OBVIOUS
<1>2. SubSeq(p, i - w + 1, i) = SubSeq(s, i - w + 1, i)
  <2> DEFINE a == i - w + 1
  <2>1. i \in 0..(n - 1) /\ a \in 1..(i + 1)
    BY <1>1
  <2> HIDE DEF a
  <2>2. SubSeq(p, a, i) = SubSeq(s, a, i)
    <3>1. SharedWindows(p, s, n)
      BY WindowsAgree
    <3> QED
      BY <2>1, <3>1, Zenon DEF SharedWindows
  <2> QED
    BY <2>2 DEF a
<1> QED
  BY <1>2 DEF Trailing

LEMMA SMAContinues ==
  ASSUME NEW n \in Nat \ {0}, NEW p, NEW s, Begins(p, s, n), NEW w \in Nat \ {0}
  PROVE  Continues(SMA(p, w), SMA(s, w), n, w)
<1> DEFINE u == [i \in w..(n - 1) |-> Mean(Trailing(p, i, w))]
           v == [i \in w..n |-> Mean(Trailing(s, i, w))]
<1>1. SMA(p, w) = Aligned(n - 1, w, u) /\ SMA(s, w) = Aligned(n, w, v)
  BY BeginsTyped DEF SMA
<1>2. ASSUME NEW i \in w..(n - 1)  PROVE u[i] = v[i]
  <2>1. i \in w..n
    OBVIOUS
  <2>2. Trailing(p, i, w) = Trailing(s, i, w)
    BY TrailingAgrees
  <2> QED
    BY <2>1, <2>2
<1> HIDE DEF u, v
<1> QED
  BY <1>1, <1>2, AlignedContinues

LEMMA VolatilityContinues ==
  ASSUME NEW n \in Nat \ {0}, NEW p, NEW s, Begins(p, s, n), NEW w \in Nat \ {0}
  PROVE  Continues(ReturnVolatility(p, w), ReturnVolatility(s, w), n, w + 1)
<1>0. /\ n - 1 \in Nat /\ Len(p) = n - 1 /\ Len(s) = n
      /\ \A i \in 1..(n - 1) : p[i] = s[i] /\ i \in 1..n
  BY BeginsTyped
<1> DEFINE past(r, i) == [k \in 1..w |-> SimpleReturn(r, i - w + k, 1)]
           u == [i \in (w + 1)..(n - 1) |-> StandardDeviation(past(p, i), 1)]
           v == [i \in (w + 1)..n |-> StandardDeviation(past(s, i), 1)]
<1>1. /\ ReturnVolatility(p, w) = Aligned(n - 1, w + 1, u)
      /\ ReturnVolatility(s, w) = Aligned(n, w + 1, v)
  BY BeginsTyped DEF ReturnVolatility
<1>2. ASSUME NEW i \in (w + 1)..(n - 1)  PROVE past(p, i) = past(s, i)
  <2>1. ASSUME NEW k \in 1..w
        PROVE  SimpleReturn(p, i - w + k, 1) = SimpleReturn(s, i - w + k, 1)
    <3>1. i - w + k \in 1..(n - 1) /\ (i - w + k) - 1 \in 1..(n - 1)
      OBVIOUS
    <3>2. p[i - w + k] = s[i - w + k] /\ p[(i - w + k) - 1] = s[(i - w + k) - 1]
      BY <1>0, <3>1
    <3> QED
      BY <3>2 DEF SimpleReturn
  <2> QED
    BY <2>1
<1> HIDE DEF past
<1>3. ASSUME NEW i \in (w + 1)..(n - 1)  PROVE u[i] = v[i]
  <2>1. i \in (w + 1)..n
    OBVIOUS
  <2> QED
    BY <2>1, <1>2
<1> HIDE DEF u, v
<1>4. w + 1 \in Nat \ {0}
  OBVIOUS
<1> QED
  BY <1>1, <1>3, <1>4, AlignedContinues

LEMMA BollingerContinues ==
  ASSUME NEW n \in Nat \ {0}, NEW p, NEW s, Begins(p, s, n), NEW w \in Nat \ {0}, NEW width
  PROVE  /\ Continues(Bollinger(p, w, width).lower, Bollinger(s, w, width).lower, n, w)
         /\ Continues(Bollinger(p, w, width).middle, Bollinger(s, w, width).middle, n, w)
         /\ Continues(Bollinger(p, w, width).upper, Bollinger(s, w, width).upper, n, w)
<1> DEFINE middle(r, l) == [i \in w..l |-> Mean(Trailing(r, i, w))]
           dev(r, l) == [i \in w..l |-> StandardDeviation(Trailing(r, i, w), 0)]
           lower(r, l) == [i \in w..l |-> middle(r, l)[i] - width * dev(r, l)[i]]
           upper(r, l) == [i \in w..l |-> middle(r, l)[i] + width * dev(r, l)[i]]
<1>1. Len(p) = n - 1 /\ Len(s) = n
  BY BeginsTyped
<1>2. \A r, l : Len(r) = l => Bollinger(r, w, width) =
        [lower |-> Aligned(l, w, lower(r, l)), middle |-> Aligned(l, w, middle(r, l)),
         upper |-> Aligned(l, w, upper(r, l))]
  BY DEF Bollinger
<1>3. ASSUME NEW i \in w..(n - 1)
      PROVE  middle(p, n - 1)[i] = middle(s, n)[i] /\ dev(p, n - 1)[i] = dev(s, n)[i] /\ i \in w..n
  <2>1. i \in w..n
    OBVIOUS
  <2>2. Trailing(p, i, w) = Trailing(s, i, w)
    BY TrailingAgrees
  <2> QED
    BY <2>1, <2>2
<1> HIDE DEF middle, dev
<1>4. \A i \in w..(n - 1) : /\ lower(p, n - 1)[i] = lower(s, n)[i]
                            /\ upper(p, n - 1)[i] = upper(s, n)[i]
  BY <1>3
<1> HIDE DEF lower, upper
<1>5. /\ Continues(Aligned(n - 1, w, lower(p, n - 1)), Aligned(n, w, lower(s, n)), n, w)
      /\ Continues(Aligned(n - 1, w, middle(p, n - 1)), Aligned(n, w, middle(s, n)), n, w)
      /\ Continues(Aligned(n - 1, w, upper(p, n - 1)), Aligned(n, w, upper(s, n)), n, w)
  <2>1. Continues(Aligned(n - 1, w, lower(p, n - 1)), Aligned(n, w, lower(s, n)), n, w)
    BY <1>4, AlignedContinues
  <2>2. Continues(Aligned(n - 1, w, middle(p, n - 1)), Aligned(n, w, middle(s, n)), n, w)
    BY <1>3, AlignedContinues
  <2>3. Continues(Aligned(n - 1, w, upper(p, n - 1)), Aligned(n, w, upper(s, n)), n, w)
    BY <1>4, AlignedContinues
  <2> QED
    BY <2>1, <2>2, <2>3
<1> QED
  BY <1>1, <1>2, <1>5

\* Wilder's averages up to position i.
Averages(x, w, i) ==
  CHOOSE a : a = [j \in (w + 1)..i |-> IF j = w + 1 THEN Mean(SubSeq(x, 2, w + 1))
                                       ELSE a[j - 1] + (x[j] - a[j - 1]) \div w]

LEMMA WilderAgrees ==
  ASSUME NEW n \in Nat \ {0}, NEW p, NEW s, Begins(p, s, n), NEW w \in Nat \ {0}
  PROVE  \A i \in (w + 1)..(n - 1) : Wilder(p, w)[i] = Wilder(s, w)[i]
<1>1. \A x, l : Len(x) = l => Wilder(x, w) = [i \in (w + 1)..l |-> Averages(x, w, i)[i]]
  BY DEF Wilder, Averages
<1>2. ASSUME NEW i \in (w + 1)..(n - 1)  PROVE Averages(p, w, i) = Averages(s, w, i)
  <2> DEFINE turn(x, a) == [j \in (w + 1)..i |-> IF j = w + 1 THEN Mean(SubSeq(x, 2, w + 1))
                                                 ELSE a[j - 1] + (x[j] - a[j - 1]) \div w]
  <2>1. SubSeq(p, 2, w + 1) = SubSeq(s, 2, w + 1)
    <3> DEFINE b == w + 1
    <3>1. b \in 0..(n - 1) /\ 2 \in 1..(b + 1)
      OBVIOUS
    <3>2. SharedWindows(p, s, n)
      BY WindowsAgree
    <3> HIDE DEF b
    <3>3. SubSeq(p, 2, b) = SubSeq(s, 2, b)
      BY <3>1, <3>2, Zenon DEF SharedWindows
    <3> QED
      BY <3>3 DEF b
  <2>2. \A j \in (w + 1)..i : p[j] = s[j]
    <3>1. \A j \in (w + 1)..i : j \in 1..(n - 1)
      OBVIOUS
    <3> QED
      BY <3>1, BeginsTyped
  <2>3. \A a : turn(p, a) = turn(s, a)
    BY <2>1, <2>2
  <2>4. Averages(p, w, i) = (CHOOSE a : a = turn(p, a)) /\ Averages(s, w, i) = (CHOOSE a : a = turn(s, a))
    BY DEF Averages
  <2> HIDE DEF turn
  <2>5. (CHOOSE a : a = turn(p, a)) = (CHOOSE a : a = turn(s, a))
    BY <2>3, Zenon
  <2> QED
    BY <2>4, <2>5
<1>0. Len(p) = n - 1 /\ Len(s) = n
  BY BeginsTyped
<1>3. Wilder(p, w) = [i \in (w + 1)..(n - 1) |-> Averages(p, w, i)[i]]
  BY <1>0, <1>1
<1>4. Wilder(s, w) = [i \in (w + 1)..n |-> Averages(s, w, i)[i]]
  BY <1>0, <1>1
<1> QED
  <2> TAKE i \in (w + 1)..(n - 1)
  <2>1. i \in (w + 1)..n
    OBVIOUS
  <2> QED
    BY <1>2, <1>3, <1>4, <2>1

LEMMA RSIContinues ==
  ASSUME NEW n \in Nat \ {0}, NEW p, NEW s, Begins(p, s, n), NEW w \in Nat \ {0}
  PROVE  Continues(RSI(p, w), RSI(s, w), n, w + 1)
<1> DEFINE change(x, i) == IF i = 1 THEN 0 ELSE x[i] - x[i - 1]
           rises(x, l) == [i \in 1..l |-> IF change(x, i) > 0 THEN change(x, i) ELSE 0]
           falls(x, l) == [i \in 1..l |-> IF change(x, i) < 0 THEN -change(x, i) ELSE 0]
           values(x, l) == [i \in (w + 1)..l |-> RSIValue(Wilder(rises(x, l), w)[i],
                                                          Wilder(falls(x, l), w)[i])]
<1>1. /\ n - 1 \in Nat /\ Len(p) = n - 1 /\ Len(s) = n
      /\ \A i \in 1..(n - 1) : p[i] = s[i] /\ i \in 1..n
  BY BeginsTyped
<1>2. \A x, l : Len(x) = l => RSI(x, w) = Aligned(l, w + 1, values(x, l))
  BY DEF RSI
<1>3. \A i \in 1..(n - 1) : change(p, i) = change(s, i)
  <2> TAKE i \in 1..(n - 1)
  <2>1. i # 1 => i - 1 \in 1..(n - 1)
    OBVIOUS
  <2> QED
    BY <1>1, <2>1
<1> HIDE DEF change
<1>4. Begins(rises(p, n - 1), rises(s, n), n) /\ Begins(falls(p, n - 1), falls(s, n), n)
  BY <1>1, <1>3 DEF Begins
<1> HIDE DEF rises, falls
<1>5. /\ \A i \in (w + 1)..(n - 1) : Wilder(rises(p, n - 1), w)[i] = Wilder(rises(s, n), w)[i]
      /\ \A i \in (w + 1)..(n - 1) : Wilder(falls(p, n - 1), w)[i] = Wilder(falls(s, n), w)[i]
  BY <1>4, WilderAgrees
<1>6. \A i \in (w + 1)..(n - 1) : i \in (w + 1)..n
  OBVIOUS
<1>7. \A i \in (w + 1)..(n - 1) : values(p, n - 1)[i] = values(s, n)[i]
  BY <1>5, <1>6
<1>8. w + 1 \in Nat \ {0}
  OBVIOUS
<1> HIDE DEF values
<1>9. Continues(Aligned(n - 1, w + 1, values(p, n - 1)), Aligned(n, w + 1, values(s, n)), n, w + 1)
  BY <1>7, <1>8, AlignedContinues
<1> QED
  BY <1>1, <1>2, <1>9

LEMMA ATRContinues ==
  ASSUME NEW n \in Nat \ {0}, NEW p, NEW s, Begins(p, s, n), NEW w \in Nat \ {0}
  PROVE  Continues(ATR(p, w), ATR(s, w), n, w + 1)
<1> DEFINE range(x, i) == IF i = 1 THEN 0 ELSE TrueRange(x, i)
           ranges(x, l) == [i \in 1..l |-> range(x, i)]
<1>1. /\ n - 1 \in Nat /\ Len(p) = n - 1 /\ Len(s) = n
      /\ \A i \in 1..(n - 1) : p[i] = s[i] /\ i \in 1..n
  BY BeginsTyped
<1>2. \A x, l : Len(x) = l => ATR(x, w) = Aligned(l, w + 1, Wilder(ranges(x, l), w))
  BY DEF ATR
<1>3. \A i \in 1..(n - 1) : range(p, i) = range(s, i)
  <2> TAKE i \in 1..(n - 1)
  <2>1. CASE i = 1
    BY <2>1
  <2>2. CASE i # 1
    <3>1. i - 1 \in 1..(n - 1)
      BY <2>2
    <3>2. p[i] = s[i] /\ p[i - 1] = s[i - 1]
      BY <1>1, <3>1
    <3> QED
      BY <3>2 DEF TrueRange
  <2> QED
    BY <2>1, <2>2
<1> HIDE DEF range
<1>4. Begins(ranges(p, n - 1), ranges(s, n), n)
  BY <1>1, <1>3 DEF Begins
<1> HIDE DEF ranges
<1>5. \A i \in (w + 1)..(n - 1) : Wilder(ranges(p, n - 1), w)[i] = Wilder(ranges(s, n), w)[i]
  BY <1>4, WilderAgrees
<1>6. w + 1 \in Nat \ {0}
  OBVIOUS
<1>7. Continues(Aligned(n - 1, w + 1, Wilder(ranges(p, n - 1), w)),
                Aligned(n, w + 1, Wilder(ranges(s, n), w)), n, w + 1)
  BY <1>5, <1>6, AlignedContinues
<1> QED
  BY <1>1, <1>2, <1>7

\* The exponential averages of a series, and one step of them.
Smoothed(x, last, span) == (2 * x + (span - 1) * last) \div (span + 1)

EMAValues(s, span) ==
  CHOOSE e : e = [i \in span..Len(s) |-> IF i = span THEN Mean(SubSeq(s, 1, span))
                                         ELSE (2 * s[i] + (span - 1) * e[i - 1]) \div (span + 1)]

LEMMA EMASteps ==
  ASSUME NEW n \in Nat, NEW s \in [1..n -> Int], NEW span \in 1..n
  PROVE  LET e == EMAValues(s, span) IN
         /\ e[span] = Mean(SubSeq(s, 1, span))
         /\ \A i \in (span + 1)..n : e[i] = Smoothed(s[i], e[i - 1], span)
         /\ \A i \in span..n : e[i] \in Int
<1> DEFINE e == EMAValues(s, span)
           seed == Mean(SubSeq(s, 1, span))
           Step(f) == [i \in span..n |-> IF i = span THEN seed ELSE Smoothed(s[i], f[i - 1], span)]
           turn == [i \in 1..(n - span) |-> [v \in Int |-> Smoothed(s[span + i], v, span)]]
<1>1. Len(s) = n /\ span \in Nat \ {0} /\ n - span \in Nat /\ span \in Int /\ span + (n - span) = n
  OBVIOUS
<1>2. e = CHOOSE f : f = Step(f)
  BY <1>1 DEF EMAValues, Smoothed
<1>3. \A x, v \in Int : Smoothed(x, v, span) \in Int
  <2>1. \A a, b \in Int : a * b \in Int
    BY SMT
  <2>2. \A a \in Int, b \in Nat \ {0} : a \div b \in Int
    BY SMT
  <2> TAKE x, v \in Int
  <2> DEFINE z == (span - 1) * v
  <2>3. z \in Int
    BY <1>1, <2>1
  <2> HIDE DEF z
  <2>4. 2 * x + z \in Int /\ span + 1 \in Nat \ {0}
    BY <1>1, <2>3
  <2>5. (2 * x + z) \div (span + 1) \in Int
    BY <2>2, <2>4
  <2> QED
    BY <2>5 DEF z, Smoothed
<1>4. seed \in Int
  <2> DEFINE r == SubSeq(s, 1, span)
  <2>1. r \in [1..span -> Int]
    <3>1. span \in Nat /\ span <= n
      OBVIOUS
    <3>2. Prefix(s, span) \in [1..span -> Int]
      BY <3>1, PrefixTyped
    <3> QED
      BY <3>2 DEF Prefix
  <2>2. Len(r) = span
    BY <1>1, <2>1
  <2> HIDE DEF r
  <2>3. Total(r) \in Int
    BY <1>1, <2>1, TotalTyped
  <2>4. Total(r) \div span \in Int
    BY <1>1, <2>3
  <2>5. Mean(r) \in Int
    BY <2>2, <2>4 DEF Mean
  <2> QED
    BY <2>5 DEF r
<1> HIDE DEF seed
<1>5. turn \in [1..(n - span) -> [Int -> Int]]
  <2>1. \A i \in 1..(n - span) : s[span + i] \in Int
    OBVIOUS
  <2> QED
    BY <1>3, <2>1
<1>6. PICK h \in [span..(span + (n - span)) -> Int] : IteratesFrom(h, span, n - span, seed, turn)
  <2> HIDE DEF turn
  <2> QED
    BY <1>1, <1>4, <1>5, IterationFrom
<1>7. h = Step(h)
  <2>1. h \in [span..n -> Int]
    BY <1>1
  <2>2. h[span] = seed
    BY <1>6 DEF IteratesFrom
  <2>3. ASSUME NEW i \in span..n, i # span
        PROVE  h[i] = Smoothed(s[i], h[i - 1], span)
    <3>1. /\ i \in (span + 1)..(span + (n - span)) /\ i - span \in 1..(n - span)
          /\ i - 1 \in span..n /\ span + (i - span) = i
      BY <2>3
    <3>2. h[i] = turn[i - span][h[i - 1]]
      BY <1>6, <3>1 DEF IteratesFrom
    <3>3. h[i - 1] \in Int
      BY <2>1, <3>1
    <3>4. turn[i - span] = [v \in Int |-> Smoothed(s[span + (i - span)], v, span)]
      BY <3>1
    <3> HIDE DEF turn
    <3> QED
      BY <3>1, <3>2, <3>3, <3>4
  <2>4. h = [i \in span..n |-> h[i]]
    BY <2>1
  <2> QED
    BY <2>2, <2>3, <2>4
<1>8. e = Step(e)
  <2> HIDE DEF e, Step
  <2> QED
    BY <1>2, <1>7
<1> HIDE DEF e
<1>9. e[span] = seed /\ \A i \in (span + 1)..n : e[i] = Smoothed(s[i], e[i - 1], span)
  <2>1. span \in span..n /\ \A i \in (span + 1)..n : i \in span..n /\ i # span
    OBVIOUS
  <2> QED
    BY <1>8, <2>1
<1>10. \A i \in span..n : e[i] \in Int
  <2> DEFINE S == {i \in Int : e[i] \in Int}
  <2>1. span \in S /\ span \in Int /\ n \in Int
    BY <1>4, <1>9
  <2>2. \A i \in Int : span < i /\ i <= n /\ i - 1 \in S => i \in S
    <3> TAKE i \in Int
    <3> HAVE span < i /\ i <= n /\ i - 1 \in S
    <3>1. i \in (span + 1)..n /\ i \in 1..n /\ e[i - 1] \in Int
      OBVIOUS
    <3>2. s[i] \in Int /\ e[i] = Smoothed(s[i], e[i - 1], span)
      BY <1>9, <3>1
    <3> QED
      BY <1>3, <3>1, <3>2
  <2>3. \A i \in Int : span <= i /\ i <= n => i \in S
    <3> HIDE DEF S
    <3> QED
      BY <2>1, <2>2, Stepwise
  <2> QED
    BY <2>3
<1> QED
  BY <1>9, <1>10 DEF e, seed

SharedAverages(p, s, n, span) ==
  /\ Continues(EMA(p, span), EMA(s, span), n, span)
  /\ EMA(p, span) = Aligned(n - 1, span, EMAValues(p, span))
  /\ EMA(s, span) = Aligned(n, span, EMAValues(s, span))
  /\ \A i \in span..(n - 1) : EMAValues(p, span)[i] = EMAValues(s, span)[i]
  /\ \A i \in span..n : EMAValues(s, span)[i] \in Int

LEMMA EMAContinues ==
  ASSUME NEW n \in Nat \ {0}, NEW p, NEW s \in [1..n -> Int], Begins(p, s, n), NEW span \in Nat \ {0}
  PROVE  SharedAverages(p, s, n, span)
<1> DEFINE e == EMAValues(s, span)
           f == EMAValues(p, span)
<1>1. /\ n - 1 \in Nat /\ Len(p) = n - 1 /\ Len(s) = n
      /\ \A i \in 1..(n - 1) : p[i] = s[i] /\ i \in 1..n
  BY BeginsTyped
<1>2. \A x, l : Len(x) = l => EMA(x, span) = Aligned(l, span, EMAValues(x, span))
  BY DEF EMA, EMAValues
<1>3. EMA(p, span) = Aligned(n - 1, span, f) /\ EMA(s, span) = Aligned(n, span, e)
  BY <1>1, <1>2
<1>4. \A i \in span..n : e[i] \in Int
  <2>1. CASE span \in 1..n
    BY <2>1, EMASteps
  <2>2. CASE ~ (span \in 1..n)
    BY <2>2
  <2> QED
    BY <2>1, <2>2
<1>5. \A i \in span..(n - 1) : f[i] = e[i]
  <2>1. CASE span \in 1..(n - 1)
    <3>1. p \in [1..(n - 1) -> Int] /\ span \in 1..n
      <4>1. \A i \in 1..(n - 1) : s[i] \in Int
        OBVIOUS
      <4>2. [i \in 1..(n - 1) |-> s[i]] \in [1..(n - 1) -> Int]
        BY <4>1
      <4>3. p \in [1..(n - 1) -> Int]
        BY <4>2, Zenon DEF Begins
      <4> QED
        BY <2>1, <4>3
    <3>2. /\ e[span] = Mean(SubSeq(s, 1, span))
          /\ \A i \in (span + 1)..n : e[i] = Smoothed(s[i], e[i - 1], span)
      BY <3>1, EMASteps
    <3>3. /\ f[span] = Mean(SubSeq(p, 1, span))
          /\ \A i \in (span + 1)..(n - 1) : f[i] = Smoothed(p[i], f[i - 1], span)
      <4> DEFINE l == n - 1
      <4>1. l \in Nat /\ span \in 1..l /\ p \in [1..l -> Int]
        BY <1>1, <2>1, <3>1
      <4> HIDE DEF l
      <4>2. /\ f[span] = Mean(SubSeq(p, 1, span))
            /\ \A i \in (span + 1)..l : f[i] = Smoothed(p[i], f[i - 1], span)
        BY <4>1, EMASteps
      <4> QED
        BY <4>2 DEF l
    <3>4. SubSeq(p, 1, span) = SubSeq(s, 1, span)
      <4>1. span \in 0..(n - 1) /\ 1 \in 1..(span + 1)
        BY <2>1
      <4>2. SharedWindows(p, s, n)
        BY WindowsAgree
      <4> QED
        BY <4>1, <4>2, Zenon DEF SharedWindows
    <3> HIDE DEF e, f
    <3> DEFINE S == {i \in Int : f[i] = e[i]}
    <3>5. span \in S /\ span \in Int /\ n - 1 \in Int
      <4>1. f[span] = e[span]
        BY <3>2, <3>3, <3>4, Zenon
      <4> QED
        BY <4>1
    <3>6. \A i \in Int : span < i /\ i <= n - 1 /\ i - 1 \in S => i \in S
      <4> TAKE i \in Int
      <4> HAVE span < i /\ i <= n - 1 /\ i - 1 \in S
      <4>1. i \in (span + 1)..(n - 1) /\ i \in (span + 1)..n /\ i \in 1..(n - 1) /\ f[i - 1] = e[i - 1]
        OBVIOUS
      <4> QED
        BY <1>1, <3>2, <3>3, <4>1
    <3>7. \A i \in Int : span <= i /\ i <= n - 1 => i \in S
      <4> HIDE DEF S
      <4> QED
        BY <3>5, <3>6, Stepwise
    <3> QED
      BY <3>7
  <2>2. CASE ~ (span \in 1..(n - 1))
    BY <2>2
  <2> QED
    BY <2>1, <2>2
<1> HIDE DEF e, f
<1>6. Continues(Aligned(n - 1, span, f), Aligned(n, span, e), n, span)
  BY <1>5, AlignedContinues
<1> QED
  BY <1>3, <1>4, <1>5, <1>6 DEF e, f, SharedAverages

LEMMA MACDContinues ==
  ASSUME NEW n \in Nat \ {0}, NEW p, NEW s \in [1..n -> Int], Begins(p, s, n),
         NEW slow \in Nat \ {0}, NEW fast \in 1..(slow - 1), NEW signal \in Nat \ {0}
  PROVE  LET early == MACD(p, fast, slow, signal)
             out == MACD(s, fast, slow, signal)
             first == slow + signal - 1
         IN /\ Continues(early.line, out.line, n, slow)
            /\ Continues(early.signal, out.signal, n, first)
            /\ Continues(early.histogram, out.histogram, n, first)
<1> DEFINE first == slow + signal - 1
           line(x, l) == [i \in slow..l |-> EMA(x, fast)[i][1] - EMA(x, slow)[i][1]]
           own(x, l) == [k \in 1..(l - slow + 1) |-> line(x, l)[slow + k - 1]]
           tail(x, l) == EMA(own(x, l), signal)
           sig(x, l) == [i \in first..l |-> tail(x, l)[i - slow + 1][1]]
           rest(x, l) == [i \in first..l |-> line(x, l)[i] - sig(x, l)[i]]
<1>1. n - 1 \in Nat /\ Len(p) = n - 1 /\ Len(s) = n
  BY BeginsTyped
<1>2. \A x, l : Len(x) = l => MACD(x, fast, slow, signal) =
        [line |-> Aligned(l, slow, line(x, l)), signal |-> Aligned(l, first, sig(x, l)),
         histogram |-> Aligned(l, first, rest(x, l))]
  BY DEF MACD
<1>3. fast \in Nat \ {0} /\ fast < slow /\ first \in Nat \ {0} /\ slow <= first
  OBVIOUS
<1>4. /\ \A i \in slow..n : line(s, n)[i] \in Int
      /\ \A i \in slow..(n - 1) : line(p, n - 1)[i] = line(s, n)[i]
  <2> DEFINE ef == EMAValues(s, fast)
             es == EMAValues(s, slow)
             pf == EMAValues(p, fast)
             ps == EMAValues(p, slow)
  <2>1. /\ EMA(p, fast) = Aligned(n - 1, fast, pf) /\ EMA(s, fast) = Aligned(n, fast, ef)
        /\ \A i \in fast..(n - 1) : pf[i] = ef[i]
        /\ \A i \in fast..n : ef[i] \in Int
    BY <1>3, EMAContinues DEF SharedAverages
  <2>2. /\ EMA(p, slow) = Aligned(n - 1, slow, ps) /\ EMA(s, slow) = Aligned(n, slow, es)
        /\ \A i \in slow..(n - 1) : ps[i] = es[i]
        /\ \A i \in slow..n : es[i] \in Int
    BY EMAContinues DEF SharedAverages
  <2> HIDE DEF ef, es, pf, ps
  <2>3. ASSUME NEW i \in slow..n
        PROVE  line(s, n)[i] = ef[i] - es[i] /\ ef[i] \in Int /\ es[i] \in Int
    <3>1. i \in 1..n /\ ~ (i < slow) /\ ~ (i < fast) /\ i \in fast..n /\ n \in Nat
      BY <1>3
    <3>2. Aligned(n, fast, ef)[i][1] = ef[i] /\ Aligned(n, slow, es)[i][1] = es[i]
      BY <1>3, <3>1, AlignedValues
    <3> QED
      BY <2>1, <2>2, <3>1, <3>2
  <2>4. ASSUME NEW i \in slow..(n - 1)
        PROVE  line(p, n - 1)[i] = ef[i] - es[i] /\ i \in slow..n
    <3>1. i \in 1..(n - 1) /\ ~ (i < slow) /\ ~ (i < fast) /\ i \in fast..(n - 1) /\ i \in slow..n
      BY <1>3
    <3>2. Aligned(n - 1, fast, pf)[i][1] = pf[i] /\ Aligned(n - 1, slow, ps)[i][1] = ps[i]
      BY <1>1, <1>3, <3>1, AlignedValues
    <3>3. pf[i] = ef[i] /\ ps[i] = es[i]
      BY <2>1, <2>2, <3>1
    <3> QED
      BY <2>1, <2>2, <3>1, <3>2, <3>3
  <2> HIDE DEF line
  <2>5. \A i \in slow..n : line(s, n)[i] \in Int
    BY <2>3
  <2>6. \A i \in slow..(n - 1) : line(p, n - 1)[i] = line(s, n)[i]
    BY <2>3, <2>4
  <2> QED
    BY <2>5, <2>6
<1> HIDE DEF line
<1>5. \A i \in first..(n - 1) : tail(p, n - 1)[i - slow + 1][1] = tail(s, n)[i - slow + 1][1]
  <2> TAKE i \in first..(n - 1)
  <2> DEFINE N == n - slow + 1
             k == i - slow + 1
             x == own(s, n)
             y == own(p, n - 1)
             e == EMAValues(x, signal)
             f == EMAValues(y, signal)
  <2>1. /\ N \in Nat \ {0} /\ N - 1 = (n - 1) - slow + 1 /\ N - 1 \in Nat /\ N \in Nat
        /\ k \in 1..(N - 1) /\ k \in 1..N /\ k \in signal..(N - 1) /\ ~ (k < signal)
    BY <1>3
  <2>2. x \in [1..N -> Int]
    <3>1. \A j \in 1..N : slow + j - 1 \in slow..n
      OBVIOUS
    <3> QED
      BY <1>4, <3>1
  <2>3. Begins(y, x, N)
    <3>1. \A j \in 1..(N - 1) : slow + j - 1 \in slow..(n - 1) /\ j \in 1..N
      OBVIOUS
    <3>2. \A j \in 1..(N - 1) : line(p, n - 1)[slow + j - 1] = x[j]
      BY <1>4, <3>1
    <3>3. x = [j \in 1..N |-> x[j]]
      OBVIOUS
    <3>4. y = [j \in 1..(N - 1) |-> line(p, n - 1)[slow + j - 1]]
      BY <2>1
    <3> HIDE DEF x, y, N
    <3>5. y = [j \in 1..(N - 1) |-> x[j]]
      BY <3>2, <3>4
    <3> QED
      BY <3>3, <3>5 DEF Begins
  <2> HIDE DEF x, y, N, k
  <2>4. /\ EMA(y, signal) = Aligned(N - 1, signal, f) /\ EMA(x, signal) = Aligned(N, signal, e)
        /\ \A j \in signal..(N - 1) : f[j] = e[j]
    <3>1. SharedAverages(y, x, N, signal)
      BY <2>1, <2>2, <2>3, EMAContinues
    <3> QED
      BY <3>1 DEF SharedAverages
  <2> HIDE DEF e, f
  <2>5. Aligned(N, signal, e)[k][1] = e[k] /\ Aligned(N - 1, signal, f)[k][1] = f[k]
    BY <2>1, AlignedValues
  <2>6. EMA(y, signal)[k][1] = EMA(x, signal)[k][1]
    BY <2>1, <2>4, <2>5
  <2> QED
    BY <2>6 DEF x, y, k
<1> HIDE DEF tail
<1>6. \A i \in first..(n - 1) : i \in first..n /\ i \in slow..(n - 1)
  BY <1>3
<1>7. \A i \in first..(n - 1) : sig(p, n - 1)[i] = sig(s, n)[i]
  BY <1>5, <1>6
<1> HIDE DEF sig
<1>8. \A i \in first..(n - 1) : rest(p, n - 1)[i] = rest(s, n)[i]
  BY <1>4, <1>6, <1>7
<1> HIDE DEF rest, first
<1>9. /\ Continues(Aligned(n - 1, slow, line(p, n - 1)), Aligned(n, slow, line(s, n)), n, slow)
      /\ Continues(Aligned(n - 1, first, sig(p, n - 1)), Aligned(n, first, sig(s, n)), n, first)
      /\ Continues(Aligned(n - 1, first, rest(p, n - 1)), Aligned(n, first, rest(s, n)), n, first)
  <2>1. Continues(Aligned(n - 1, slow, line(p, n - 1)), Aligned(n, slow, line(s, n)), n, slow)
    BY <1>4, AlignedContinues
  <2>2. Continues(Aligned(n - 1, first, sig(p, n - 1)), Aligned(n, first, sig(s, n)), n, first)
    BY <1>3, <1>7, AlignedContinues
  <2>3. Continues(Aligned(n - 1, first, rest(p, n - 1)), Aligned(n, first, rest(s, n)), n, first)
    BY <1>3, <1>8, AlignedContinues
  <2> QED
    BY <2>1, <2>2, <2>3
<1>10. MACD(p, fast, slow, signal) =
         [line |-> Aligned(n - 1, slow, line(p, n - 1)), signal |-> Aligned(n - 1, first, sig(p, n - 1)),
          histogram |-> Aligned(n - 1, first, rest(p, n - 1))]
  BY <1>1, <1>2
<1>11. MACD(s, fast, slow, signal) =
         [line |-> Aligned(n, slow, line(s, n)), signal |-> Aligned(n, first, sig(s, n)),
          histogram |-> Aligned(n, first, rest(s, n))]
  BY <1>1, <1>2
<1> QED
  BY <1>9, <1>10, <1>11 DEF first

LEMMA AtLeastMax ==
  ASSUME NEW S, NEW N \in Nat, S \subseteq 0..N, S # {}, NEW n \in Nat
  PROVE  n >= Max(S) <=> \A x \in S : n >= x
<1>1. Max(S) \in S /\ Max(S) \in Nat /\ \A x \in S : x <= Max(S)
  BY MaxOfNaturals
<1>2. \A x \in S : x \in Nat
  OBVIOUS
<1> QED
  BY <1>1, <1>2

\* The observations every output needs.
Configuration ==
  [lag: Nat \ {0}, sma: Nat \ {0}, ema: Nat \ {0}, volatility: Nat \ {0}, rsi: Nat \ {0},
   fast: Nat \ {0}, slow: Nat \ {0}, signal: Nat \ {0}, bollinger: Nat \ {0}, width: Nat \ {0},
   atr: Nat \ {0}]

LEMMA EnoughObservations ==
  ASSUME NEW c \in Configuration, NEW n \in Nat
  PROVE  n >= RequiredObservations(c) <=>
           /\ n >= c.lag + 1 /\ n >= c.sma /\ n >= c.ema /\ n >= c.volatility + 1
           /\ n >= c.rsi + 1 /\ n >= c.slow + c.signal - 1 /\ n >= c.bollinger /\ n >= c.atr + 1
<1> DEFINE S == {c.lag + 1, c.sma, c.ema, c.volatility + 1, c.rsi + 1, c.slow + c.signal - 1,
                 c.bollinger, c.atr + 1}
           N == c.lag + c.sma + c.ema + c.volatility + c.rsi + c.slow + c.signal + c.bollinger + c.atr
<1>1. /\ c.lag \in Nat \ {0} /\ c.sma \in Nat \ {0} /\ c.ema \in Nat \ {0}
      /\ c.volatility \in Nat \ {0} /\ c.rsi \in Nat \ {0} /\ c.slow \in Nat \ {0}
      /\ c.signal \in Nat \ {0} /\ c.bollinger \in Nat \ {0} /\ c.atr \in Nat \ {0}
  BY DEF Configuration
<1>2. N \in Nat /\ S \subseteq 0..N /\ S # {}
  BY <1>1
<1>3. RequiredObservations(c) = Max(S)
  BY DEF RequiredObservations
<1>4. (\A x \in S : n >= x) <=>
        /\ n >= c.lag + 1 /\ n >= c.sma /\ n >= c.ema /\ n >= c.volatility + 1
        /\ n >= c.rsi + 1 /\ n >= c.slow + c.signal - 1 /\ n >= c.bollinger /\ n >= c.atr + 1
  BY Zenon
<1> HIDE DEF S, N
<1>5. n >= Max(S) <=> \A x \in S : n >= x
  BY <1>2, AtLeastMax
<1> QED
  BY <1>3, <1>4, <1>5

\* The closes of the bars, with and without the last one.
LEMMA BarsBegin ==
  ASSUME NEW n \in Nat \ {0}, NEW bars \in [1..n -> Shapes]
  PROVE  LET early == SubSeq(bars, 1, n - 1) IN
         /\ Len(bars) = n /\ Len(early) = n - 1 /\ Begins(early, bars, n)
         /\ Closes(bars) \in [1..n -> Int] /\ Closes(bars) = [i \in 1..Len(bars) |-> bars[i].close]
         /\ Begins([i \in 1..(n - 1) |-> early[i].close], Closes(bars), n)
<1> DEFINE early == SubSeq(bars, 1, n - 1)
           s == [i \in 1..n |-> bars[i].close]
           p == [i \in 1..(n - 1) |-> early[i].close]
<1>1. Len(bars) = n /\ n - 1 \in Nat /\ n - 1 <= n /\ bars = [i \in 1..n |-> bars[i]]
  OBVIOUS
<1>2. early = [i \in 1..(n - 1) |-> bars[i]]
  BY <1>1, SMT
<1>3. Begins(early, bars, n)
  BY <1>1, <1>2, Zenon DEF Begins
<1> HIDE DEF early
<1>4. /\ Len(early) = n - 1 /\ \A i \in 1..(n - 1) : early[i] = bars[i] /\ i \in 1..n
  BY <1>3, BeginsTyped
<1>5. \A i \in 1..n : bars[i].close \in Int
  BY WindowAssumption
<1>6. s \in [1..n -> Int] /\ Closes(bars) = s
  BY <1>1, <1>5 DEF Closes
<1>7. p = [i \in 1..(n - 1) |-> s[i]]
  BY <1>4
<1>8. s = [i \in 1..n |-> s[i]]
  OBVIOUS
<1> HIDE DEF s, p
<1>9. Begins(p, s, n)
  BY <1>7, <1>8, Zenon DEF Begins
<1> QED
  BY <1>1, <1>3, <1>4, <1>6, <1>9 DEF early, s, p

LEMMA IndicatorsAreCausal ==
  ASSUME NEW n \in Nat \ {0}, NEW bars \in [1..n -> Shapes]
  PROVE  CausalIndicators(bars)
<1> DEFINE c == IndicatorConfig
           first == c.slow + c.signal - 1
           before == SubSeq(bars, 1, n - 1)
           s == Closes(bars)
           p == [i \in 1..(n - 1) |-> before[i].close]
           out == Outputs(bars, c)
           early == Outputs(before, c)
           names == {"return", "sma", "ema", "volatility", "rsi", "line", "signal", "histogram",
                     "lower", "middle", "upper", "atr"}
<1>1. /\ Len(bars) = n /\ Len(before) = n - 1 /\ Begins(before, bars, n)
      /\ s \in [1..n -> Int] /\ s = [i \in 1..Len(bars) |-> bars[i].close]
      /\ Begins(p, s, n)
  BY BarsBegin
<1>2. p = [i \in 1..Len(before) |-> before[i].close]
  BY <1>1
<1>3. /\ c \in Configuration
      /\ c.lag \in Nat \ {0} /\ c.sma \in Nat \ {0} /\ c.ema \in Nat \ {0}
      /\ c.volatility \in Nat \ {0} /\ c.rsi \in Nat \ {0} /\ c.slow \in Nat \ {0}
      /\ c.fast \in 1..(c.slow - 1) /\ c.signal \in Nat \ {0} /\ c.bollinger \in Nat \ {0}
      /\ c.atr \in Nat \ {0}
  BY AnalysisAssumption DEF Configuration
<1> DEFINE Shown(x, b) ==
      [return |-> SimpleReturns(x, c.lag), sma |-> SMA(x, c.sma), ema |-> EMA(x, c.ema),
       volatility |-> ReturnVolatility(x, c.volatility), rsi |-> RSI(x, c.rsi),
       line |-> MACD(x, c.fast, c.slow, c.signal).line,
       signal |-> MACD(x, c.fast, c.slow, c.signal).signal,
       histogram |-> MACD(x, c.fast, c.slow, c.signal).histogram,
       lower |-> Bollinger(x, c.bollinger, c.width).lower,
       middle |-> Bollinger(x, c.bollinger, c.width).middle,
       upper |-> Bollinger(x, c.bollinger, c.width).upper, atr |-> ATR(b, c.atr)]
<1>4. out = Shown(s, bars) /\ early = Shown(p, before)
  <2>1. \A b, x : x = [i \in 1..Len(b) |-> b[i].close] => Outputs(b, c) = Shown(x, b)
    BY DEF Outputs
  <2> HIDE DEF s, p, before, Shown, c
  <2> QED
    BY <1>1, <1>2, <2>1
<1> HIDE DEF c, s, p, before, out, early
<1>5. /\ DOMAIN out = names
      /\ out.return = SimpleReturns(s, c.lag) /\ out.sma = SMA(s, c.sma) /\ out.ema = EMA(s, c.ema)
      /\ out.volatility = ReturnVolatility(s, c.volatility) /\ out.rsi = RSI(s, c.rsi)
      /\ out.line = MACD(s, c.fast, c.slow, c.signal).line
      /\ out.signal = MACD(s, c.fast, c.slow, c.signal).signal
      /\ out.histogram = MACD(s, c.fast, c.slow, c.signal).histogram
      /\ out.lower = Bollinger(s, c.bollinger, c.width).lower
      /\ out.middle = Bollinger(s, c.bollinger, c.width).middle
      /\ out.upper = Bollinger(s, c.bollinger, c.width).upper /\ out.atr = ATR(bars, c.atr)
  BY <1>4
<1>6. /\ early.return = SimpleReturns(p, c.lag) /\ early.sma = SMA(p, c.sma) /\ early.ema = EMA(p, c.ema)
      /\ early.volatility = ReturnVolatility(p, c.volatility) /\ early.rsi = RSI(p, c.rsi)
      /\ early.line = MACD(p, c.fast, c.slow, c.signal).line
      /\ early.signal = MACD(p, c.fast, c.slow, c.signal).signal
      /\ early.histogram = MACD(p, c.fast, c.slow, c.signal).histogram
      /\ early.lower = Bollinger(p, c.bollinger, c.width).lower
      /\ early.middle = Bollinger(p, c.bollinger, c.width).middle
      /\ early.upper = Bollinger(p, c.bollinger, c.width).upper /\ early.atr = ATR(before, c.atr)
  BY <1>4
<1> HIDE DEF Shown
<1>7. /\ Continues(early.return, out.return, n, c.lag + 1)
      /\ Continues(early.sma, out.sma, n, c.sma)
      /\ Continues(early.volatility, out.volatility, n, c.volatility + 1)
      /\ Continues(early.rsi, out.rsi, n, c.rsi + 1)
  <2>1. Continues(SimpleReturns(p, c.lag), SimpleReturns(s, c.lag), n, c.lag + 1)
    BY <1>1, <1>3, ReturnsContinue
  <2>2. Continues(SMA(p, c.sma), SMA(s, c.sma), n, c.sma)
    BY <1>1, <1>3, SMAContinues
  <2>3. Continues(ReturnVolatility(p, c.volatility), ReturnVolatility(s, c.volatility), n, c.volatility + 1)
    BY <1>1, <1>3, VolatilityContinues
  <2>4. Continues(RSI(p, c.rsi), RSI(s, c.rsi), n, c.rsi + 1)
    BY <1>1, <1>3, RSIContinues
  <2> QED
    BY <1>5, <1>6, <2>1, <2>2, <2>3, <2>4
<1>8. Continues(early.ema, out.ema, n, c.ema)
  <2>1. SharedAverages(p, s, n, c.ema)
    BY <1>1, <1>3, EMAContinues
  <2> QED
    BY <1>5, <1>6, <2>1 DEF SharedAverages
<1>9. /\ Continues(early.line, out.line, n, c.slow)
      /\ Continues(early.signal, out.signal, n, first)
      /\ Continues(early.histogram, out.histogram, n, first)
  <2> DEFINE a == MACD(p, c.fast, c.slow, c.signal)
             b == MACD(s, c.fast, c.slow, c.signal)
  <2>1. /\ Continues(a.line, b.line, n, c.slow)
        /\ Continues(a.signal, b.signal, n, first)
        /\ Continues(a.histogram, b.histogram, n, first)
    BY <1>1, <1>3, MACDContinues
  <2> HIDE DEF first
  <2> QED
    BY <1>5, <1>6, <2>1, Zenon
<1>10. /\ Continues(early.lower, out.lower, n, c.bollinger)
       /\ Continues(early.middle, out.middle, n, c.bollinger)
       /\ Continues(early.upper, out.upper, n, c.bollinger)
  <2> DEFINE a == Bollinger(p, c.bollinger, c.width)
             b == Bollinger(s, c.bollinger, c.width)
  <2>1. /\ Continues(a.lower, b.lower, n, c.bollinger)
        /\ Continues(a.middle, b.middle, n, c.bollinger)
        /\ Continues(a.upper, b.upper, n, c.bollinger)
    BY <1>1, <1>3, BollingerContinues
  <2> QED
    BY <1>5, <1>6, <2>1, Zenon
<1>11. Continues(early.atr, out.atr, n, c.atr + 1)
  BY <1>1, <1>3, <1>5, <1>6, ATRContinues
<1>12. ASSUME NEW name \in DOMAIN out
       PROVE  early[name] = SubSeq(out[name], 1, n - 1)
  <2>1. name \in names
    BY <1>5
  <2> QED
    BY <2>1, <1>7, <1>8, <1>9, <1>10, <1>11, Zenon DEF Continues
<1>13. (\A name \in DOMAIN out : out[name][n] # None) <=>
         /\ n >= c.lag + 1 /\ n >= c.sma /\ n >= c.ema /\ n >= c.volatility + 1 /\ n >= c.rsi + 1
         /\ n >= c.slow /\ n >= first /\ n >= c.bollinger /\ n >= c.atr + 1
  <2>1. (\A name \in DOMAIN out : out[name][n] # None) <=>
          /\ out.return[n] # None /\ out.sma[n] # None /\ out.ema[n] # None
          /\ out.volatility[n] # None /\ out.rsi[n] # None /\ out.line[n] # None
          /\ out.signal[n] # None /\ out.histogram[n] # None /\ out.lower[n] # None
          /\ out.middle[n] # None /\ out.upper[n] # None /\ out.atr[n] # None
    <3>1. DOMAIN out = names
      BY <1>5
    <3> QED
      BY <3>1, Zenon
  <2> HIDE DEF first
  <2>2. /\ out.return[n] # None <=> n >= c.lag + 1
        /\ out.sma[n] # None <=> n >= c.sma
        /\ out.ema[n] # None <=> n >= c.ema
        /\ out.volatility[n] # None <=> n >= c.volatility + 1
        /\ out.rsi[n] # None <=> n >= c.rsi + 1
        /\ out.line[n] # None <=> n >= c.slow
        /\ out.signal[n] # None <=> n >= first
        /\ out.histogram[n] # None <=> n >= first
        /\ out.lower[n] # None <=> n >= c.bollinger
        /\ out.middle[n] # None <=> n >= c.bollinger
        /\ out.upper[n] # None <=> n >= c.bollinger
        /\ out.atr[n] # None <=> n >= c.atr + 1
    BY <1>7, <1>8, <1>9, <1>10, <1>11, Zenon DEF Continues
  <2> QED
    BY <2>1, <2>2, Zenon
<1>14. Calculable(bars, c) <=> \A name \in DOMAIN out : out[name][n] # None
  <2>1. Calculable(bars, c) <=> n >= RequiredObservations(c)
    BY <1>1 DEF Calculable
  <2>2. n >= first => n >= c.slow
    BY <1>3
  <2> QED
    BY <1>3, <1>13, <2>1, <2>2, EnoughObservations
<1>15. early = Outputs(SubSeq(bars, 1, Len(bars) - 1), c)
  BY <1>1 DEF early, before
<1> QED
  BY <1>1, <1>12, <1>14, <1>15, Zenon DEF CausalIndicators, out, c

\* Whatever values the bars of a window have.
LEMMA EveryLengthIsSound == \A n \in 1..Cardinality(Sessions) : n \in SoundLengths
<1> SUFFICES ASSUME NEW n \in 1..Cardinality(Sessions), NEW bars \in [1..n -> Shapes]
             PROVE  /\ CausalIndicators(bars)
                    /\ \A m \in Models, c \in EvaluationConfigs :
                         CausalForecasts(Closes(bars), m, c) /\ ScoresAgree(Closes(bars), m, c)
  BY DEF SoundLengths, SeriesOf
<1>1. n \in Nat \ {0} /\ n \in Nat
  OBVIOUS
<1>2. CausalIndicators(bars)
  BY <1>1, IndicatorsAreCausal
<1>3. Closes(bars) \in [1..n -> Int]
  BY <1>1, BarsBegin
<1>4. \A b \in Shapes : b.close \in Int
  BY WindowAssumption
<1>5. ASSUME NEW m \in Models, NEW c \in EvaluationConfigs
      PROVE  CausalForecasts(Closes(bars), m, c) /\ ScoresAgree(Closes(bars), m, c)
  <2> DEFINE s == Closes(bars)
  <2>1. IsModel(m)
    BY AnalysisAssumption DEF IsModel, Baselines
  <2>2. c \in Settings
    <3>1. EvaluationConfigs \subseteq Settings
      BY AnalysisAssumption, Zenon DEF Settings, CoverageSets
    <3> QED
      BY <3>1
  <2>3. s \in [1..n -> Int]
    BY <1>3
  <2> HIDE DEF s
  <2>4. CausalForecasts(s, m, c)
    BY <1>1, <1>4, <2>1, <2>2, <2>3, ForecastsAreCausal
  <2>5. ScoresAgree(s, m, c)
    BY <1>1, <2>1, <2>2, <2>3, ScoresHold
  <2> QED
    BY <2>4, <2>5 DEF s
<1> QED
  BY <1>2, <1>5

\* AnalysisIsCausal: no indicator of read_indicators, and no forecast or score of the
\* baselines, depends on a bar after its own time; the bundle is calculable from
\* exactly the length RequiredObservations names, the quantiles do not cross, and
\* the scores of an evaluation agree, whatever was stored.
THEOREM AnalysisCausal == LaneSpec => []AnalysisIsCausal
<1>1. ASSUME NEW input \in SUBSET Sessions, input # {}
      PROVE  Cardinality(input) \in SoundLengths
  <2>1. IsFiniteSet(Sessions) /\ IsFiniteSet(input)
    BY LaneSets
  <2>2. Cardinality(input) \in Nat /\ Cardinality(Sessions) \in Nat
    BY <2>1, FS_CardinalityType
  <2>3. Cardinality(input) <= Cardinality(Sessions)
    BY <2>1, FS_Subset
  <2>4. Cardinality(input) # 0
    BY <1>1, <2>1, FS_EmptySet
  <2> DEFINE k == Cardinality(input)
             l == Cardinality(Sessions)
  <2>5. k \in 1..l
    BY <2>2, <2>3, <2>4
  <2> QED
    BY <2>5, EveryLengthIsSound
<1>2. LaneTypeOK => AnalysisIsCausal
  <2> SUFFICES ASSUME stored \subseteq Sessions  PROVE AnalysisIsCausal
    BY DEF LaneTypeOK
  <2>1. IndicatorInput \subseteq Sessions /\ ForecastInput \subseteq Sessions
    BY DEF IndicatorInput, ForecastInput, Newest
  <2> QED
    BY <1>1, <2>1 DEF AnalysisIsCausal
<1> QED
  BY <1>2, LaneTyped, PTL
=============================================================================
