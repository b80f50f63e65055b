----------------------------- MODULE Calibration -----------------------------
(***************************************************************************)
(* Publication of calibration evidence                                     *)
(* (forecast_calibration_evidence.py, ..._evidence_store.py, ..._sets.py,  *)
(* ..._releases.py, ..._release_store.py and migration 0015).  A fitted    *)
(* calibration set and its held-out coverage are recorded in one           *)
(* transaction; the release becomes available by a receipt in a later one. *)
(* The publisher reads both source cohorts first and recomputes the fit    *)
(* and the coverage from them, and every reader does so again.             *)
(*                                                                         *)
(* Sets and releases are identified by their content, so a record stands   *)
(* for its id.  The policy registry is PolicyRegistry, whose clients that  *)
(* register nothing publish or read here; cohorts and outcomes arrive as   *)
(* in Cohorts and Outcomes.                                                *)
(***************************************************************************)
EXTENDS PolicyRegistry, Conformal, FiniteSetsExt

CONSTANTS
  Cohorts,      \* records [policy, purpose, members]
  Observation,  \* what the outcome of each member says: [truth, point, lower, upper]
  Coverage,     \* the nominal coverage of every emitted interval, in thousandths
  Requests,     \* what a caller may ask: [op, set, heldout, confidence]
  NoRequest,    \* the request of a client that registers a policy
  NoDoc         \* the release of a client that has none yet

Members == UNION {c.members : c \in Cohorts}

ASSUME EvidenceAssumption ==
  /\ Coverage \in 1..(CoverageScale - 1)
  /\ \A c \in Cohorts :
       /\ c.policy \in SelectionPolicies /\ IsFiniteSet(c.members) /\ c.members # {}
       /\ c.purpose \in {"calibration_fit", "heldout_evaluation"}

VARIABLES
  sealed,      \* the sealed cohorts
  published,   \* the outcomes published for the members of each cohort
  sets,        \* committed fitted sets: [doc, by]
  releases,    \* committed releases: [doc, by]
  receipts,    \* committed receipts: [doc, by]
  request,     \* what each client asks
  step,        \* client side: the control state of each call
  seen,        \* the outcomes each client has read, of both cohorts
  release,     \* the release each client publishes or reads
  txn,         \* server side: the transaction of each client
  reply        \* the answer to each client

evidence == <<sealed, published>>
tables   == <<sets, releases, receipts>>
registry == <<creator, registration>>
caller   == <<request, step, seen, release, reply>>
vars     == <<evidence, tables, caller, txn, registry, faults>>

Steps == {"start", "fit", "heldout", "prepare", "set", "release", "content", "content_wait",
          "content_matches", "receipt", "receipt_commit", "receipt_wait", "receipt_visible",
          "stored", "proof_fit", "proof_heldout", "reproduce", "done"}

Kinds == {"none", "ok", "invalid", "missing", "incomplete", "not_ready", "conflict",
          "refused", "corrupt", "unavailable", "unknown", "lost"}

NoTxn == [state |-> "none", rows |-> {}]

TypeOK ==
  /\ RegistryTypeOK
  /\ sealed \subseteq Cohorts
  /\ published \in [Cohorts -> SUBSET Members]
  /\ request \in [Clients -> Requests \cup {NoRequest}]
  /\ step \in [Clients -> Steps]
  /\ seen \in [Clients -> [fit: SUBSET Members, heldout: SUBSET Members]]
  /\ \A p \in Clients : release[p] # NoDoc => release[p].set = request[p].set
  /\ txn \in [Clients -> [state: TxnStates, rows: SUBSET {"set", "release", "receipt"}]]
  /\ reply \in [Clients -> [kind: Kinds, stage: {"none", "content", "receipt", "proof"}]]

-----------------------------------------------------------------------------
(* The datasets: forecast_calibration_evidence_store.py.                   *)

Complete(c) == c \in sealed /\ published[c] = c.members

\* _read_snapshot and _assemble_evidence, in one snapshot.
ReadKind(c) ==
  IF c \notin sealed THEN "incomplete"
  ELSE IF published[c] # c.members THEN "not_ready" ELSE "ok"

\* join_calibration_evidence: one observation for each member with an outcome.
Joined(c) == {m \in c.members : m \in published[c]}

-----------------------------------------------------------------------------
(* Fit and coverage: forecast_calibration_evidence.py.                     *)

Horizons(S) == {m.step : m \in S}

AtHorizon(S, h) == {m \in S : m.step = h}

Scores(method, S, h) == [m \in AtHorizon(S, h) |-> Score(method, Observation[m])]

\* _normalized_dataset_shape: no opportunity twice at one horizon.
DatasetHolds(S) == S # {} /\ \A m, n \in S : m.opp = n.opp /\ m.step = n.step => m = n

\* One bucket for each horizon and each interval emitted for it.
CanFit(method, S) == DatasetHolds(S) /\ \A h \in Horizons(S) : HasQuantile(Scores(method, S, h), Coverage)

\* _fit_calibration_set over the dataset S of cohort c; the digest names the
\* observations it rests on.
Fitted(c, method, S) ==
  [cohort |-> c, method |-> method, digest |-> S,
   buckets |-> [h \in Horizons(S) |-> FiniteSampleQuantile(Scores(method, S, h), Coverage)]]

\* forecast_calibration_sets.py: what every set must satisfy, fitted or supplied.
BucketHolds(set, b) ==
  Selected(set.method, b, Coverage) /\ b.sample <= Cardinality(set.digest)

SetWellFormed(set) ==
  DOMAIN set.buckets # {} /\ \A h \in DOMAIN set.buckets : BucketHolds(set, set.buckets[h])

\* estimate_heldout_coverage: how many observations of each horizon the
\* corrected intervals cover.
Measured(set, heldout, S, confidence) ==
  [set |-> set, heldout |-> heldout, confidence |-> confidence, digest |-> S,
   covered |-> [h \in DOMAIN set.buckets |->
     [sample |-> Cardinality(AtHorizon(S, h)),
      hits   |-> Cardinality({m \in AtHorizon(S, h) :
                   Covered(set.method, set.buckets[h].value, Observation[m])})]]]

\* forecast_calibration_releases.py, _normalized_bucket.
CountsHold(row, total) == 0 <= row.hits /\ row.hits <= row.sample /\ row.sample \in 1..total

\* _normalized_evidence: the grid is that of the set, and its populations
\* partition the held-out cohort.
ReleaseWellFormed(d) ==
  /\ d.heldout # d.set.cohort
  /\ DOMAIN d.covered = DOMAIN d.set.buckets
  /\ \A h \in DOMAIN d.covered : CountsHold(d.covered[h], Cardinality(d.digest))
  /\ MapThenSumSet(LAMBDA h : d.covered[h].sample, DOMAIN d.covered) = Cardinality(d.digest)

\* The realized value a member is about: one per target in this scope.
Targets(S) == {m.target : m \in S}

\* Mutant: only shared members count as an overlap.
Disjoint_Members(S, T) == S \cap T = {}

\* Neither a member, an opportunity nor a realized value in common.
Disjoint(S, T) ==
  /\ Targets(S) \cap Targets(T) = {}
  /\ {m.opp : m \in S} \cap {m.opp : m \in T} = {}

SameEpoch(c, d) == c.policy.epoch = d.policy.epoch

\* _require_heldout_compatibility.
Compatible(set, S, heldout, T) ==
  /\ Disjoint(S, T)
  /\ SameEpoch(set.cohort, heldout)
  /\ Horizons(T) = DOMAIN set.buckets

\* The set must be the one that its own cohort gives.
Reproduces(set, S) == SetWellFormed(set) /\ CanFit(set.method, S) /\ set = Fitted(set.cohort, set.method, S)

\* _reproduce_release succeeds on these datasets.
Reproducible(set, S, heldout, T, confidence) ==
  /\ set.cohort.purpose = "calibration_fit" /\ heldout.purpose = "heldout_evaluation"
  /\ Reproduces(set, S) /\ DatasetHolds(T)
  /\ Compatible(set, S, heldout, T)
  /\ \A m \in T : Applies(set.method, set.buckets[m.step].value, Observation[m])
  /\ ReleaseWellFormed(Measured(set, heldout, T, confidence))

-----------------------------------------------------------------------------
Goto(p, s) == step' = [step EXCEPT ![p] = s]

\* The stage at which a call is answered.
Stage(p) ==
  CASE step[p] \in {"set", "release", "content", "content_wait", "content_matches"} -> "content"
    [] step[p] \in {"receipt", "receipt_commit", "receipt_wait", "receipt_visible"} -> "receipt"
    [] step[p] \in {"stored", "proof_fit", "proof_heldout", "reproduce"}            -> "proof"
    [] OTHER -> "none"

Answer(p, kind) ==
  /\ reply' = [reply EXCEPT ![p] = [kind |-> kind, stage |-> Stage(p)]]
  /\ Goto(p, "done")

Doomed(p) ==
  CASE txn[p].state = "open" /\ txn[p].rows = {} -> [txn EXCEPT ![p] = NoTxn]
    [] txn[p].state = "open"                     -> [txn EXCEPT ![p].state = "doomed"]
    [] OTHER                                     -> txn

Refuse(p, kind) == Answer(p, kind) /\ txn' = Doomed(p)

SetOf(p) == request[p].set

Docs(table)      == {r.doc : r \in table}
InFlight(p, row) == {q \in Clients \ {p} : row \in txn[q].rows}

-----------------------------------------------------------------------------
(* The surroundings: cohorts and their outcomes.                           *)

\* validate_forecast_cohort_selection_policy: all targets lie in the window of
\* the purpose, and every opportunity brings the policy's steps, no more or less.
MatchesPolicy(c) ==
  /\ Registered(c.policy)
  /\ \A m \in c.members : PurposeOf(c.policy, m.target) = c.purpose
  /\ \A m \in c.members : {n.step : n \in {k \in c.members : k.opp = m.opp}} = c.policy.steps

SealCohort(c) ==
  /\ c \notin sealed /\ MatchesPolicy(c)
  /\ sealed' = sealed \cup {c}
  /\ UNCHANGED <<published, tables, caller, txn, registry, faults>>

PublishOutcome(c) ==
  /\ c \in sealed
  /\ \E m \in c.members \ published[c] : published' = [published EXCEPT ![c] = @ \cup {m}]
  /\ UNCHANGED <<sealed, tables, caller, txn, registry, faults>>

-----------------------------------------------------------------------------
(* publish(): the trusted reload.                                          *)

Begin(p) ==
  /\ step[p] = "start" /\ asked[p] = NoPolicy /\ request[p].op = "publish"
  /\ Goto(p, "fit")
  /\ UNCHANGED <<evidence, tables, request, seen, release, reply, txn, registry, faults>>

\* The cohort that the next reload is about.
Source(p) ==
  IF step[p] \in {"fit", "proof_fit"} THEN SetOf(p).cohort ELSE request[p].heldout

AfterReload(p) ==
  CASE step[p] = "fit"           -> "heldout"
    [] step[p] = "heldout"       -> "prepare"
    [] step[p] = "proof_fit"     -> "proof_heldout"
    [] step[p] = "proof_heldout" -> "reproduce"

Loaded(p) ==
  IF step[p] \in {"fit", "proof_fit"} THEN [seen EXCEPT ![p].fit = Joined(Source(p))]
  ELSE [seen EXCEPT ![p].heldout = Joined(Source(p))]

\* read_validated of the evidence reader; what it refuses while a stored
\* release is checked means that the release is corrupt.
Reload(p) ==
  /\ step[p] \in {"fit", "heldout", "proof_fit", "proof_heldout"}
  /\ LET kind == ReadKind(Source(p)) IN
     IF kind = "ok" THEN Goto(p, AfterReload(p)) /\ seen' = Loaded(p) /\ UNCHANGED reply
     ELSE /\ Answer(p, IF step[p] \in {"fit", "heldout"} THEN kind ELSE "corrupt")
          /\ UNCHANGED seen
  /\ UNCHANGED <<evidence, tables, request, release, txn, registry, faults>>

\* _prepare_release.
Prepare(p) ==
  /\ step[p] = "prepare"
  /\ IF Reproducible(SetOf(p), seen[p].fit, request[p].heldout, seen[p].heldout,
                     request[p].confidence)
     THEN /\ release' = [release EXCEPT ![p] =
               Measured(SetOf(p), request[p].heldout, seen[p].heldout, request[p].confidence)]
          /\ Goto(p, "set") /\ txn' = [txn EXCEPT ![p].state = "open"]
          /\ UNCHANGED reply
     ELSE Answer(p, "invalid") /\ UNCHANGED <<release, txn>>
  /\ UNCHANGED <<evidence, tables, request, seen, registry, faults>>

-----------------------------------------------------------------------------
(* publish(): _publish_content.                                            *)

\* uq_fitted_calibration_sets_cohort_method: one fit for a cohort and method.
SameFit(set, other) == set.cohort = other.cohort /\ set.method = other.method

\* publish_fitted_calibration_set: one exact complete calibration-fit cohort,
\* with a bucket for each of its horizons.  The corrections themselves are not
\* recomputed here.
FitCohortExact(set) ==
  /\ Complete(set.cohort) /\ set.cohort.purpose = "calibration_fit"
  /\ Cardinality(set.digest) = Cardinality(set.cohort.members)

\* The same horizons as the cohort, and the same number of members at each.
SetHorizonsMatch(set) ==
  /\ DOMAIN set.buckets = Horizons(set.cohort.members)
  /\ \A h \in DOMAIN set.buckets :
       set.buckets[h].sample = Cardinality(AtHorizon(set.cohort.members, h))

\* Rank and sign of a bucket, by the database's own arithmetic (22023).
BucketAccepted(set, b) ==
  /\ b.sample \in 1..Cardinality(set.digest)
  /\ b.rank \in 1..b.sample /\ b.rank = DatabaseRank(b.sample, Coverage)
  /\ set.method = "empirical_residual" => b.value >= 0

SetAccepted(set) ==
  /\ \A h \in DOMAIN set.buckets : BucketAccepted(set, set.buckets[h])
  /\ FitCohortExact(set) /\ SetHorizonsMatch(set)

\* ON CONFLICT (calibration_set_version) DO NOTHING, and the same bytes.
PublishSet(p) ==
  /\ step[p] = "set"
  /\ IF ~ SetAccepted(SetOf(p)) THEN Refuse(p, "conflict")
     ELSE /\ ~ \E q \in InFlight(p, "set") : SameFit(SetOf(q), SetOf(p))
          /\ IF SetOf(p) \in Docs(sets) THEN Goto(p, "release") /\ UNCHANGED <<txn, reply>>
             ELSE IF \E d \in Docs(sets) : SameFit(d, SetOf(p)) THEN Refuse(p, "conflict")
             ELSE /\ txn' = [txn EXCEPT ![p].rows = @ \cup {"set"}]
                  /\ Goto(p, "release") /\ UNCHANGED reply
  /\ UNCHANGED <<evidence, tables, request, seen, release, registry, faults>>

\* uq_heldout_coverage_releases_exact_analysis.
SameAnalysis(d, e) == d.set = e.set /\ d.heldout = e.heldout /\ d.confidence = e.confidence

\* publish_forecast_heldout_coverage_release: the set is stored with the same
\* bucket grid, the held-out cohort is complete and of that purpose and epoch,
\* with the same horizons, and nothing overlaps.
SetStored(p) ==
  /\ SetOf(p) \in Docs(sets) \/ "set" \in txn[p].rows
  /\ DOMAIN release[p].covered = DOMAIN SetOf(p).buckets

HeldoutExact(d) ==
  /\ Complete(d.heldout) /\ d.heldout.purpose = "heldout_evaluation"
  /\ SameEpoch(d.set.cohort, d.heldout)
  /\ Cardinality(d.digest) = Cardinality(d.heldout.members)

HeldoutHorizonsMatch(d) ==
  /\ DOMAIN d.covered = Horizons(d.heldout.members)
  /\ \A h \in DOMAIN d.covered :
       d.covered[h].sample = Cardinality(AtHorizon(d.heldout.members, h))

SeparateEvidence(d) == Disjoint(d.set.cohort.members, d.heldout.members)

\* The loop over the release's buckets (22023).
CountsAccepted(row) == row.sample >= 1 /\ row.hits \in 0..row.sample

ReleaseAccepted(p) ==
  /\ \A h \in DOMAIN release[p].covered : CountsAccepted(release[p].covered[h])
  /\ SetStored(p) /\ HeldoutExact(release[p])
  /\ HeldoutHorizonsMatch(release[p]) /\ SeparateEvidence(release[p])

PublishRelease(p) ==
  /\ step[p] = "release"
  /\ IF ~ ReleaseAccepted(p) THEN Refuse(p, "conflict")
     ELSE /\ ~ \E q \in InFlight(p, "release") : SameAnalysis(release[q], release[p])
          /\ IF release[p] \in Docs(releases) THEN Goto(p, "content") /\ UNCHANGED <<txn, reply>>
             ELSE IF \E d \in Docs(releases) : SameAnalysis(d, release[p]) THEN Refuse(p, "conflict")
             ELSE /\ txn' = [txn EXCEPT ![p].rows = @ \cup {"release"}]
                  /\ Goto(p, "content") /\ UNCHANGED reply
  /\ UNCHANGED <<evidence, tables, request, seen, release, registry, faults>>

\* commit_pending, and COMMIT.
SendCommit(p) ==
  /\ step[p] \in {"content", "receipt_commit"}
  /\ txn' = [txn EXCEPT ![p].state = "committing"]
  /\ Goto(p, IF step[p] = "content" THEN "content_wait" ELSE "receipt_wait")
  /\ UNCHANGED <<evidence, tables, request, seen, release, reply, registry, faults>>

\* Mutant: polls until the content is there.
ContentMatches_Again(p) ==
  /\ step[p] = "content_matches"
  /\ IF release[p] \in Docs(releases) THEN Goto(p, "receipt") ELSE Goto(p, step[p])
  /\ UNCHANGED <<evidence, tables, request, seen, release, reply, txn, registry, faults>>

\* _content_matches, in a snapshot of its own.
ContentMatches(p) ==
  /\ step[p] = "content_matches"
  /\ IF release[p] \in Docs(releases) THEN Goto(p, "receipt") /\ UNCHANGED reply
     ELSE Answer(p, "unknown")
  /\ UNCHANGED <<evidence, tables, request, seen, release, txn, registry, faults>>

-----------------------------------------------------------------------------
(* publish(): _publish_receipt.                                            *)

\* Mutant: the trigger does not look who created the release.
InsideCreation_Never(p) == FALSE

\* stamp_forecast_heldout_coverage_release_availability raises 55000 in the
\* transaction that created the release.
InsideCreation(p) == "release" \in txn[p].rows

\* A client has one transaction here, so the receipt's begins when the server
\* has ended the content's.  The trigger needs a visible release (23503); an
\* earlier receipt makes the insert do nothing.
PublishReceipt(p) ==
  /\ step[p] = "receipt" /\ txn[p].state = "none"
  /\ IF release[p] \notin Docs(releases) THEN Answer(p, "conflict") /\ UNCHANGED txn
     ELSE /\ ~ \E q \in InFlight(p, "receipt") : release[q] = release[p]
          /\ txn' = [txn EXCEPT ![p].state = "open",
                       ![p].rows = IF release[p] \in Docs(receipts) THEN {} ELSE {"receipt"}]
          /\ Goto(p, "receipt_commit") /\ UNCHANGED reply
  /\ UNCHANGED <<evidence, tables, request, seen, release, registry, faults>>

\* Another client of the database may ask for the receipt at once.
ReceiptAtOnce(p) ==
  /\ step[p] = "content"
  /\ IF InsideCreation(p) THEN Refuse(p, "refused")
     ELSE /\ ~ \E q \in InFlight(p, "receipt") : release[q] = release[p]
          /\ release[p] \notin Docs(receipts) /\ "receipt" \notin txn[p].rows
          /\ txn' = [txn EXCEPT ![p].rows = @ \cup {"receipt"}]
          /\ UNCHANGED <<step, reply>>
  /\ UNCHANGED <<evidence, tables, request, seen, release, registry, faults>>

\* _receipt_visible.
ReceiptVisible(p) ==
  /\ step[p] = "receipt_visible"
  /\ IF release[p] \in Docs(receipts) THEN Goto(p, "stored") /\ UNCHANGED reply
     ELSE Answer(p, "unknown")
  /\ UNCHANGED <<evidence, tables, request, seen, release, txn, registry, faults>>

-----------------------------------------------------------------------------
(* read_validated(), also the last stage of publish().                     *)

\* A reader names a release by its id.
BeginRead(p) ==
  /\ step[p] = "start" /\ asked[p] = NoPolicy /\ request[p].op = "read"
  /\ release' = [release EXCEPT ![p] =
       Measured(SetOf(p), request[p].heldout, request[p].heldout.members, request[p].confidence)]
  /\ Goto(p, "stored")
  /\ UNCHANGED <<evidence, tables, request, seen, reply, txn, registry, faults>>

\* _read_stored, in one snapshot.
ReadStored(p) ==
  /\ step[p] = "stored"
  /\ IF release[p] \notin Docs(releases) THEN Answer(p, "missing")
     ELSE IF release[p] \notin Docs(receipts) THEN Answer(p, "incomplete")
     ELSE Goto(p, "proof_fit") /\ UNCHANGED reply
  /\ UNCHANGED <<evidence, tables, request, seen, release, txn, registry, faults>>

Reproduce(p) ==
  /\ step[p] = "reproduce"
  /\ LET d == release[p] IN
     IF Reproducible(d.set, seen[p].fit, d.heldout, seen[p].heldout, d.confidence)
        /\ d = Measured(d.set, d.heldout, seen[p].heldout, d.confidence)
     THEN Answer(p, "ok") ELSE Answer(p, "corrupt")
  /\ UNCHANGED <<evidence, tables, request, seen, release, txn, registry, faults>>

-----------------------------------------------------------------------------
(* Faults and the server.                                                  *)

InStatement == {"set", "release", "content", "receipt", "receipt_commit"}

\* A database error outside COMMIT: the transaction, if any, is rolled back.
DatabaseError(p) ==
  /\ step[p] \in InStatement \cup {"fit", "heldout", "stored", "proof_fit", "proof_heldout"}
  /\ Fault
  /\ Refuse(p, "unavailable")
  /\ UNCHANGED <<evidence, tables, request, seen, release, registry>>

\* Mutant: an error of COMMIT is taken for a rollback.
OutcomeUnknown_Rollback(p) ==
  /\ step[p] \in InStatement \cup {"content_wait", "receipt_wait"}
  /\ Fault
  /\ Refuse(p, "unavailable")
  /\ UNCHANGED <<evidence, tables, request, seen, release, registry>>

\* SQLSTATE 40003 in a statement, or any error of COMMIT: reconcile.
OutcomeUnknown(p) ==
  /\ step[p] \in InStatement \cup {"content_wait", "receipt_wait"}
  /\ Fault
  /\ txn' = Doomed(p)
  /\ Goto(p, IF Stage(p) = "content" THEN "content_matches" ELSE "receipt_visible")
  /\ UNCHANGED <<evidence, tables, request, seen, release, reply, registry>>

\* _content_matches and _receipt_visible swallow errors; one more error of a
\* call that ends with it needs no bound.
MatchFails(p) ==
  /\ step[p] \in {"content_matches", "receipt_visible"}
  /\ Answer(p, "unknown")
  /\ UNCHANGED <<evidence, tables, request, seen, release, txn, registry, faults>>

Crash(p) ==
  /\ step[p] \notin {"start", "done"}
  /\ Fault
  /\ Refuse(p, "lost")
  /\ UNCHANGED <<evidence, tables, request, seen, release, registry>>

Recorded(p, row, table, doc) ==
  IF row \in txn[p].rows THEN table \cup {[doc |-> doc, by |-> p]} ELSE table

ServerCommit(p) ==
  /\ txn[p].state = "committing"
  /\ sets'     = Recorded(p, "set", sets, SetOf(p))
  /\ releases' = Recorded(p, "release", releases, release[p])
  /\ receipts' = Recorded(p, "receipt", receipts, release[p])
  /\ txn' = [txn EXCEPT ![p] = NoTxn]
  /\ CASE step[p] = "content_wait" -> Goto(p, "receipt")
       [] step[p] = "receipt_wait" -> Goto(p, "stored")
       [] OTHER                    -> UNCHANGED step
  /\ UNCHANGED <<evidence, request, seen, release, reply, registry, faults>>

\* A refused COMMIT still reconciles: commit_pending is set.
ServerAbort(p) ==
  /\ \/ txn[p].state = "doomed" /\ UNCHANGED <<step, faults>>
     \/ /\ txn[p].state = "committing" /\ Fault
        /\ CASE step[p] = "content_wait" -> Goto(p, "content_matches")
             [] step[p] = "receipt_wait" -> Goto(p, "receipt_visible")
             [] OTHER                    -> UNCHANGED step
  /\ txn' = [txn EXCEPT ![p] = NoTxn]
  /\ UNCHANGED <<evidence, tables, request, seen, release, reply, registry>>

ClientStep(p) ==
  \/ Begin(p) \/ BeginRead(p) \/ Reload(p) \/ Prepare(p)
  \/ PublishSet(p) \/ PublishRelease(p) \/ SendCommit(p) \/ ContentMatches(p)
  \/ PublishReceipt(p) \/ ReceiptVisible(p) \/ ReadStored(p) \/ Reproduce(p)

Init ==
  /\ RegistryInit
  /\ sealed = {} /\ published = [c \in Cohorts |-> {}]
  /\ sets = {} /\ releases = {} /\ receipts = {}
  /\ request \in [Clients -> Requests \cup {NoRequest}]
  /\ \A p \in Clients : request[p] = NoRequest <=> asked[p] # NoPolicy
  /\ step = [p \in Clients |-> "start"]
  /\ seen = [p \in Clients |-> [fit |-> {}, heldout |-> {}]]
  /\ release = [p \in Clients |-> NoDoc]
  /\ txn = [p \in Clients |-> NoTxn]
  /\ reply = [p \in Clients |-> [kind |-> "none", stage |-> "none"]]

ForRegistry == UNCHANGED <<evidence, tables, caller, txn>>

RegistryNext == (\E r \in Clients : RegistryStep(r)) /\ ForRegistry

Next ==
  \/ RegistryNext
  \/ \E c \in Cohorts : SealCohort(c) \/ PublishOutcome(c)
  \/ \E p \in Clients :
       \/ ClientStep(p) \/ ReceiptAtOnce(p)
       \/ DatabaseError(p) \/ OutcomeUnknown(p) \/ MatchFails(p) \/ Crash(p)
       \/ ServerCommit(p) \/ ServerAbort(p)

Spec == Init /\ [][Next]_vars

\* The event loop runs every call on; PostgreSQL ends every transaction whose
\* COMMIT it has received or whose client is gone.
Fairness ==
  \A p \in Clients :
    /\ WF_vars(ClientStep(p) \/ (RegClientStep(p) /\ ForRegistry))
    /\ WF_vars(ServerCommit(p) \/ ServerAbort(p) \/ ((RegServerCommit(p) \/ RegServerAbort(p)) /\ ForRegistry))

FairSpec == Spec /\ Fairness

-----------------------------------------------------------------------------
(* Properties.                                                             *)

\* "A stale or forged in-memory dataset could permanently occupy the
\* append-only release identity/semantic slot": it never does.  Whatever is
\* recorded is what the complete, disjoint source cohorts give, and one fit
\* exists for a cohort and method (publish(), migration 0015).
RecordedIsReproducible ==
  /\ \A s \in Docs(sets) :
       /\ Complete(s.cohort)
       /\ s = Fitted(s.cohort, s.method, s.cohort.members)
  /\ \A d \in Docs(releases) :
       /\ d.set \in Docs(sets) /\ Complete(d.heldout)
       /\ d = Measured(d.set, d.heldout, d.heldout.members, d.confidence)
       /\ Targets(d.set.cohort.members) \cap Targets(d.heldout.members) = {}

\* Publishers of the same evidence never conflict, and no stored release is
\* ever found corrupt: the non-retryable answers of _publish_content,
\* _publish_receipt and read_validated are out of reach for honest evidence.
EvidenceNeverConflicts == \A p \in Clients : reply[p].kind \notin {"conflict", "corrupt"}

\* A proof rests on a release and a receipt that are durable, and a call that
\* was answered "unavailable" while it published the content has not recorded
\* it and never will (commit_pending in _publish_content).  No honest publisher
\* meets a conflict.
AnswersHold ==
  /\ EvidenceNeverConflicts
  /\ \A p \in Clients :
       /\ reply[p].kind = "ok" =>
            /\ release[p] \in Docs(releases) /\ release[p] \in Docs(receipts)
            /\ Registered(release[p].set.cohort.policy)
       /\ reply[p] = [kind |-> "unavailable", stage |-> "content"] =>
            /\ txn[p].state # "committing"
            /\ [doc |-> release[p], by |-> p] \notin releases

\* A release becomes available only when everybody could already see it: no
\* step makes a receipt visible together with its release (the trigger of
\* migration 0015 and the two transactions of publish()).
AvailableAfterVisible ==
  [][\A d \in Docs(receipts)' \ Docs(receipts) : d \in Docs(releases)]_vars

Begun(p)    == step[p] # "start" \/ regStep[p] # "start"
Answered(p) == step[p] = "done" \/ regStep[p] = "done"

\* Every call is answered, of the registry and of the release store: no
\* publisher or registrar waits for ever on another's uncommitted row.
CallsAnswered == \A p \in Clients : Begun(p) ~> Answered(p)
=============================================================================
