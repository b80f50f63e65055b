------------------------------- MODULE Cohorts -------------------------------
(***************************************************************************)
(* Publication of forecast cohorts                                         *)
(* (app/services/forecast_cohort_store.py and the triggers and constraints *)
(* of migrations 0010 and 0016).  A cohort fixes which archived forecasts  *)
(* a calibration or an evaluation will use.  It is recorded in one         *)
(* transaction and sealed in a later one, and the seal proves that the     *)
(* cohort was visible before its first target time.                        *)
(*                                                                         *)
(* A cohort is identified by its content, so the manifest stands for its   *)
(* id.  Every call of publish() is a publication of its own, a retry       *)
(* included, and names the one transaction it may have in the server,      *)
(* which outlives the client when the connection is lost.                  *)
(***************************************************************************)
EXTENDS Integers, FiniteSets

CONSTANTS
  MaxPublications,     \* bound: calls of publish(), all possibly concurrent
  MaxTime,             \* bound: the database clock
  MaxFaults,           \* bound: database faults and client crashes
  Policies,            \* selection policies
  Opportunities,       \* scheduled opportunities; each has at most one run
  Manifests,           \* the cohorts somebody may want to publish
  Target(_),           \* the target time of a slot: an opportunity and a step
  Rank(_),             \* the place of a slot in canonical member order
  SelectedSteps(_),    \* the steps a policy selects
  InWindow(_, _, _)    \* policy, purpose, time: the time is in that window

Publications == 1..MaxPublications
Purposes     == {"calibration_fit", "heldout_evaluation"}
Slots        == UNION {m.slots : m \in Manifests}
NoTime       == 0
Times        == 0..MaxTime

ASSUME ManifestAssumption ==
  /\ MaxPublications \in Nat /\ MaxTime \in Nat \ {0} /\ MaxFaults \in Nat
  /\ \A m \in Manifests :
       /\ m.policy \in Policies /\ m.purpose \in Purposes
       /\ m.slots # {} /\ IsFiniteSet(m.slots)
       /\ \A s \in m.slots : s.opp \in Opportunities /\ Target(s) \in Nat /\ Rank(s) \in Nat
  /\ \A s, t \in Slots : Rank(s) = Rank(t) => s = t

VARIABLES
  clock,       \* clock_timestamp()
  archived,    \* when the scheduled run of an opportunity was committed
  registered,  \* when a selection policy was committed
  recorded,    \* recorded_at of the committed manifests
  committed,   \* when they were committed (not stored)
  members,     \* the committed member rows, by cohort
  sealed,      \* sealed_at of the committed seals
  txn,         \* server side: the transaction of each publication
  pc,          \* client side: the control state of each publish()
  manifest,    \* what each publication publishes
  reply,       \* the answer of each publication
  faults

tables == <<archived, registered, recorded, committed, members, sealed>>
client == <<pc, manifest, reply>>
vars   == <<clock, tables, txn, client, faults>>

NoTxn   == [state |-> "none", rows |-> {}, slots |-> {}, recorded |-> NoTime, sealed |-> NoTime]
NoReply == [kind |-> "none", recorded |-> NoTime, sealed |-> NoTime]

Kinds == {"none", "ok", "deadline", "source_unavailable", "integrity", "taken",
          "unavailable", "write_conflict", "commit_unknown", "incomplete", "lost"}

TxnRecords == [state: {"none", "open", "committing", "doomed"},
               rows: SUBSET {"manifest", "seal"}, slots: SUBSET Slots,
               recorded: Times, sealed: Times]

Open  == {"m_read", "m_stamp", "m_validate", "m_insert", "m_members", "m_commit",
          "s_read", "s_stamp", "s_insert", "s_commit"}
Steps == Open \cup {"start", "m_wait", "m_lookup", "m_reconcile",
                    "s_wait", "s_lookup", "s_reconcile", "proof", "done"}

TypeOK ==
  /\ clock \in Times \ {NoTime}
  /\ archived \in [Opportunities -> Times]
  /\ registered \in [Policies -> Times]
  /\ recorded \in [Manifests -> Times] /\ committed \in [Manifests -> Times]
  /\ members \in [Manifests -> SUBSET Slots]
  /\ sealed \in [Manifests -> Times]
  /\ txn \in [Publications -> TxnRecords]
  /\ pc \in [Publications -> Steps]
  /\ manifest \in [Publications -> Manifests]
  /\ reply \in [Publications -> [kind: Kinds, recorded: Times, sealed: Times]]
  /\ faults \in 0..MaxFaults

Init ==
  /\ clock = 1
  /\ archived = [o \in Opportunities |-> NoTime]
  /\ registered = [q \in Policies |-> NoTime]
  /\ recorded = [m \in Manifests |-> NoTime] /\ committed = [m \in Manifests |-> NoTime]
  /\ members = [m \in Manifests |-> {}]
  /\ sealed = [m \in Manifests |-> NoTime]
  /\ txn = [p \in Publications |-> NoTxn]
  /\ pc = [p \in Publications |-> "start"]
  /\ manifest \in [Publications -> Manifests]
  /\ reply = [p \in Publications |-> NoReply]
  /\ faults = 0

-----------------------------------------------------------------------------
(* Tables, constraints and triggers.                                       *)

IsCommitted(m) == committed[m] # NoTime
IsSealed(m)    == sealed[m] # NoTime

\* The time precedes every target of the cohort.
BeforeTargets(t, m) == \A s \in m.slots : t < Target(s)

\* Mutant: uniqueness within each purpose only.
Clash_SamePurpose(m, s, n, t) == m.policy = n.policy /\ t = s /\ m.purpose = n.purpose

\* uq_forecast_outcome_cohort_members_policy_opportunity_step, and the
\* exclusion of one opportunity under two purposes.
Clash(m, s, n, t) ==
  m.policy = n.policy /\ (t = s \/ (t.opp = s.opp /\ m.purpose # n.purpose))

\* validate_forecast_cohort_selection_policy: the targets lie in the window of
\* the purpose, and each opportunity comes with exactly the selected steps.
FitsPolicy(m) ==
  /\ \A s \in m.slots : InWindow(m.policy, m.purpose, Target(s))
  /\ \A s \in m.slots : {t.step : t \in {u \in m.slots : u.opp = s.opp}} = SelectedSteps(m.policy)

RunsArchived(m) == \A s \in m.slots : archived[s.opp] # NoTime

\* Rows an unfinished transaction has inserted block those that clash with them.
Holds(q, row, m) == txn[q].state # "none" /\ row \in txn[q].rows /\ manifest[q] = m
Others(p)        == Publications \ {p}
HeldRow(p, row)  == {q \in Others(p) : Holds(q, row, manifest[p])}
HeldSlot(p, s)   ==
  {q \in Others(p) : txn[q].state # "none"
                     /\ \E t \in txn[q].slots : Clash(manifest[p], s, manifest[q], t)}

Remaining(p) == manifest[p].slots \ txn[p].slots

\* Mutant: members are inserted in the order the caller listed them, some
\* callers listing them backwards.
NextSlot_AsListed(p) ==
  {s \in Remaining(p) :
     \A t \in Remaining(p) : IF p % 2 = 0 THEN Rank(s) <= Rank(t) ELSE Rank(t) <= Rank(s)}

\* materialize_forecast_outcome_cohort_members follows the canonical manifest;
\* a set of at most one slot.
NextSlot(p) == {s \in Remaining(p) : \A t \in Remaining(p) : Rank(s) <= Rank(t)}

Goto(p, step) == pc' = [pc EXCEPT ![p] = step]

Reply(p, answer) == reply' = [reply EXCEPT ![p] = answer] /\ Goto(p, "done")
Answer(p, kind)  == Reply(p, [NoReply EXCEPT !.kind = kind])

\* Losing the client before COMMIT was sent, or an error in a statement, dooms
\* the transaction; its rows stay in the way until the server has ended it.
Doomed(p) == IF txn[p].state = "open" THEN [txn EXCEPT ![p].state = "doomed"] ELSE txn

Refuse(p, kind) == Answer(p, kind) /\ txn' = Doomed(p)

Fault == faults < MaxFaults /\ faults' = faults + 1

-----------------------------------------------------------------------------
(* The surroundings: time, the run archive and the policy registry.        *)

Tick ==
  /\ clock < MaxTime
  /\ clock' = clock + 1
  /\ UNCHANGED <<tables, txn, client, faults>>

\* ForecastArchive commits the scheduled run of an opportunity.
ArchiveRun(o) ==
  /\ archived[o] = NoTime
  /\ archived' = [archived EXCEPT ![o] = clock]
  /\ UNCHANGED <<clock, registered, recorded, committed, members, sealed, txn, client, faults>>

\* register_forecast_selection_policy commits.
RegisterPolicy(q) ==
  /\ registered[q] = NoTime
  /\ registered' = [registered EXCEPT ![q] = clock]
  /\ UNCHANGED <<clock, archived, recorded, committed, members, sealed, txn, client, faults>>

-----------------------------------------------------------------------------
(* publish(): _ensure_manifest.                                            *)

Publish(p) ==
  /\ pc[p] = "start"
  /\ \A q \in 1..(p - 1) : pc[q] # "start"
  /\ Goto(p, "m_read")
  /\ UNCHANGED <<clock, tables, txn, manifest, reply, faults>>

ReadManifest(p) ==
  /\ pc[p] = "m_read"
  /\ IF IsCommitted(manifest[p]) THEN Goto(p, "s_read") /\ UNCHANGED txn
     ELSE Goto(p, "m_stamp") /\ txn' = [txn EXCEPT ![p].state = "open"]
  /\ UNCHANGED <<clock, tables, manifest, reply, faults>>

\* stamp_forecast_outcome_cohort_manifest.
StampManifest(p) ==
  /\ pc[p] = "m_stamp"
  /\ txn' = [txn EXCEPT ![p].recorded = clock]
  /\ Goto(p, "m_validate")
  /\ UNCHANGED <<clock, tables, manifest, reply, faults>>

\* Mutant: the archive is not consulted.
ValidateManifest_NoRuns(p) ==
  /\ pc[p] = "m_validate"
  /\ LET m == manifest[p] IN
     IF registered[m.policy] = NoTime THEN Refuse(p, "source_unavailable")
     ELSE IF ~ FitsPolicy(m) THEN Refuse(p, "integrity")
     ELSE IF ~ BeforeTargets(txn[p].recorded, m) THEN Refuse(p, "deadline")
     ELSE Goto(p, "m_insert") /\ UNCHANGED <<txn, reply>>
  /\ UNCHANGED <<clock, tables, manifest, faults>>

\* validate_forecast_cohort_selection_policy, which reads what has been
\* committed by then (23503 or 23000), and then the time-order CHECK (23514);
\* the answers are those of _integrity_error.
ValidateManifest(p) ==
  /\ pc[p] = "m_validate"
  /\ LET m == manifest[p] IN
     IF registered[m.policy] = NoTime THEN Refuse(p, "source_unavailable")
     ELSE IF ~ FitsPolicy(m) \/ ~ RunsArchived(m) THEN Refuse(p, "integrity")
     ELSE IF ~ BeforeTargets(txn[p].recorded, m) THEN Refuse(p, "deadline")
     ELSE Goto(p, "m_insert") /\ UNCHANGED <<txn, reply>>
  /\ UNCHANGED <<clock, tables, manifest, faults>>

\* The primary key: wait for an unfinished insert of the same cohort, and fail
\* if one has been committed.
InsertManifest(p) ==
  /\ pc[p] = "m_insert"
  /\ HeldRow(p, "manifest") = {}
  /\ IF IsCommitted(manifest[p]) THEN Goto(p, "m_lookup") /\ txn' = Doomed(p)
     ELSE Goto(p, "m_members") /\ txn' = [txn EXCEPT ![p].rows = @ \cup {"manifest"}]
  /\ UNCHANGED <<clock, tables, manifest, reply, faults>>

\* The AFTER trigger inserts the members one by one, each under its constraints.
InsertMember(p) ==
  /\ pc[p] = "m_members"
  /\ \E s \in NextSlot(p) :
     /\ HeldSlot(p, s) = {}
     /\ IF \E n \in Manifests : \E t \in members[n] : Clash(manifest[p], s, n, t)
        THEN Refuse(p, "taken")
        ELSE /\ txn' = [txn EXCEPT ![p].slots = @ \cup {s}]
             /\ Goto(p, IF Remaining(p) = {s} THEN "m_commit" ELSE "m_members")
             /\ UNCHANGED reply
  /\ UNCHANGED <<clock, tables, manifest, faults>>

\* stamp_forecast_outcome_cohort_availability raises 55000: in the transaction
\* that creates the manifest, and from the first target on.
SealRefused(p) == "manifest" \in txn[p].rows \/ ~ BeforeTargets(clock, manifest[p])

\* Another client of the database may try to seal at once what it records.
SealAtOnce(p) ==
  /\ pc[p] = "m_commit"
  /\ IF SealRefused(p) THEN Refuse(p, "integrity")
     ELSE /\ txn' = [txn EXCEPT ![p].sealed = clock, ![p].rows = @ \cup {"seal"}]
          /\ UNCHANGED <<pc, reply>>
  /\ UNCHANGED <<clock, tables, manifest, faults>>

SendCommit(p) ==
  /\ pc[p] \in {"m_commit", "s_commit"}
  /\ txn' = [txn EXCEPT ![p].state = "committing"]
  /\ Goto(p, IF pc[p] = "m_commit" THEN "m_wait" ELSE "s_wait")
  /\ UNCHANGED <<clock, tables, manifest, reply, faults>>

\* After a duplicate key or an unknown commit: _try_record.
TryRecord(p) ==
  /\ pc[p] \in {"m_lookup", "m_reconcile"}
  /\ IF IsCommitted(manifest[p]) THEN Goto(p, "s_read") /\ UNCHANGED reply
     ELSE Answer(p, IF pc[p] = "m_lookup" THEN "write_conflict" ELSE "commit_unknown")
  /\ UNCHANGED <<clock, tables, txn, manifest, faults>>

-----------------------------------------------------------------------------
(* publish(): _ensure_seal and _read_proof.                                *)

\* A publication names one transaction, so the seal's begins when the server
\* has ended the manifest's.
ReadSeal(p) ==
  /\ pc[p] = "s_read"
  /\ txn[p].state = "none"
  /\ IF IsSealed(manifest[p]) THEN Goto(p, "proof") /\ UNCHANGED txn
     ELSE Goto(p, "s_stamp") /\ txn' = [txn EXCEPT ![p].state = "open"]
  /\ UNCHANGED <<clock, tables, manifest, reply, faults>>

\* The trigger reads the manifest, then the clock; _integrity_error answers a
\* 55000 of this stage as an expired deadline.
StampSeal(p) ==
  /\ pc[p] = "s_stamp"
  /\ IF SealRefused(p) THEN Refuse(p, "deadline")
     ELSE /\ txn' = [txn EXCEPT ![p].sealed = clock]
          /\ Goto(p, "s_insert") /\ UNCHANGED reply
  /\ UNCHANGED <<clock, tables, manifest, faults>>

\* Mutant: the later seal replaces the earlier one.
InsertSeal_Upsert(p) ==
  /\ pc[p] = "s_insert"
  /\ txn' = [txn EXCEPT ![p].rows = @ \cup {"seal"}] /\ Goto(p, "s_commit")
  /\ UNCHANGED <<clock, tables, manifest, reply, faults>>

InsertSeal(p) ==
  /\ pc[p] = "s_insert"
  /\ HeldRow(p, "seal") = {}
  /\ IF IsSealed(manifest[p]) THEN Goto(p, "s_lookup") /\ txn' = Doomed(p)
     ELSE Goto(p, "s_commit") /\ txn' = [txn EXCEPT ![p].rows = @ \cup {"seal"}]
  /\ UNCHANGED <<clock, tables, manifest, reply, faults>>

\* _try_seal.
TrySeal(p) ==
  /\ pc[p] \in {"s_lookup", "s_reconcile"}
  /\ IF IsSealed(manifest[p]) THEN Goto(p, "proof") /\ UNCHANGED reply
     ELSE Answer(p, IF pc[p] = "s_lookup" THEN "write_conflict" ELSE "commit_unknown")
  /\ UNCHANGED <<clock, tables, txn, manifest, faults>>

\* _read_proof: manifest, seal and members, read afresh.  Answers 503 when
\* evidence is missing; a member mismatch (corrupt) counts as missing here.
ReadProof(p) ==
  /\ pc[p] = "proof"
  /\ LET m == manifest[p] IN
     IF IsCommitted(m) /\ IsSealed(m) /\ members[m] = m.slots
     THEN Reply(p, [kind |-> "ok", recorded |-> recorded[m], sealed |-> sealed[m]])
     ELSE Answer(p, "incomplete")
  /\ UNCHANGED <<clock, tables, txn, manifest, faults>>

-----------------------------------------------------------------------------
(* Faults and the server.                                                  *)

\* A database error known to have rolled back, or with no commit pending.
DatabaseError(p) ==
  /\ pc[p] \in Open \cup {"proof"}
  /\ Fault
  /\ Refuse(p, "unavailable")
  /\ UNCHANGED <<clock, tables, manifest>>

\* SQLSTATE 40003 in any statement, or any unclassified error of a COMMIT.
OutcomeUnknown(p) ==
  /\ pc[p] \in Open \cup {"m_wait", "s_wait"}
  /\ Fault
  /\ txn' = Doomed(p)
  /\ Goto(p, IF pc[p] \in {"s_read", "s_stamp", "s_insert", "s_commit", "s_wait"}
             THEN "s_reconcile" ELSE "m_reconcile")
  /\ UNCHANGED <<clock, tables, manifest, reply>>

\* _try_record and _try_seal swallow database errors.
LookupFails(p) ==
  /\ pc[p] \in {"m_lookup", "m_reconcile", "s_lookup", "s_reconcile"}
  /\ Fault
  /\ Answer(p, IF pc[p] \in {"m_lookup", "s_lookup"} THEN "write_conflict" ELSE "commit_unknown")
  /\ UNCHANGED <<clock, tables, txn, manifest>>

\* The client dies.
Crash(p) ==
  /\ pc[p] \notin {"start", "done"}
  /\ Fault
  /\ Refuse(p, "lost")
  /\ UNCHANGED <<clock, tables, manifest>>

\* The next step of a client that was waiting for its COMMIT.
Acknowledged(p) ==
  CASE pc[p] = "m_wait" -> Goto(p, "s_read")
    [] pc[p] = "s_wait" -> Goto(p, "proof")
    [] OTHER            -> UNCHANGED pc

\* PostgreSQL makes the rows of a COMMIT it has received visible at once.
ServerCommit(p) ==
  /\ txn[p].state = "committing"
  /\ LET m == manifest[p]
         new == "manifest" \in txn[p].rows IN
     /\ recorded'  = IF new THEN [recorded EXCEPT ![m] = txn[p].recorded] ELSE recorded
     /\ committed' = IF new THEN [committed EXCEPT ![m] = clock] ELSE committed
     /\ members'   = IF new THEN [members EXCEPT ![m] = txn[p].slots] ELSE members
     /\ sealed'    = IF "seal" \in txn[p].rows THEN [sealed EXCEPT ![m] = txn[p].sealed] ELSE sealed
  /\ txn' = [txn EXCEPT ![p] = NoTxn]
  /\ Acknowledged(p)
  /\ UNCHANGED <<clock, archived, registered, manifest, reply, faults>>

\* A doomed transaction ends; a COMMIT is refused, which the client is told
\* when it still waits (as a known rollback).
ServerAbort(p) ==
  /\ \/ txn[p].state = "doomed" /\ UNCHANGED <<pc, reply, faults>>
     \/ /\ txn[p].state = "committing" /\ Fault
        /\ IF pc[p] \in {"m_wait", "s_wait"} THEN Answer(p, "unavailable")
           ELSE UNCHANGED <<pc, reply>>
  /\ txn' = [txn EXCEPT ![p] = NoTxn]
  /\ UNCHANGED <<clock, tables, manifest>>

Step(p) ==
  \/ ReadManifest(p) \/ StampManifest(p) \/ ValidateManifest(p) \/ InsertManifest(p)
  \/ InsertMember(p) \/ SendCommit(p) \/ TryRecord(p)
  \/ ReadSeal(p) \/ StampSeal(p) \/ InsertSeal(p) \/ TrySeal(p) \/ ReadProof(p)

Next ==
  \/ Tick
  \/ \E o \in Opportunities : ArchiveRun(o)
  \/ \E q \in Policies : RegisterPolicy(q)
  \/ \E p \in Publications :
       \/ Publish(p) \/ Step(p) \/ SealAtOnce(p)
       \/ DatabaseError(p) \/ OutcomeUnknown(p) \/ LookupFails(p) \/ Crash(p)
       \/ ServerCommit(p) \/ ServerAbort(p)

Spec == Init /\ [][Next]_vars

\* The event loop runs every publication on; PostgreSQL ends every transaction
\* whose COMMIT it has received or whose client is gone.
Fairness ==
  \A p \in Publications : WF_vars(Step(p)) /\ WF_vars(ServerCommit(p) \/ ServerAbort(p))

FairSpec == Spec /\ Fairness

-----------------------------------------------------------------------------
(* Properties.                                                             *)

\* A seal proves that nothing was chosen with hindsight: the policy, the runs
\* and the whole manifest were committed, hence public, when the seal was
\* stamped, and every target still lay in the future (the two transactions of
\* publish(), and what the triggers of 0010 and 0016 check in them).
SealedInTime ==
  \A m \in Manifests : IsSealed(m) =>
    /\ members[m] = m.slots
    /\ registered[m.policy] \in 1..committed[m]
    /\ \A s \in m.slots : archived[s.opp] \in 1..committed[m]
    /\ recorded[m] <= committed[m]
    /\ committed[m] \in 1..sealed[m] /\ BeforeTargets(sealed[m], m)

\* Under one policy no forecast step is evaluated in two cohorts and no
\* opportunity serves two purposes, although cohorts are inserted concurrently
\* (the unique and exclusion constraints of 0016).
ForecastUsedOnce ==
  \A m, n \in Manifests : m # n /\ m.policy = n.policy =>
    \A s \in members[m], t \in members[n] :
      s # t /\ (s.opp = t.opp => m.purpose = n.purpose)

\* A proof that publish() returned stays what the tables say: concurrent and
\* repeated publications return the same recording and sealing times.
ProofHolds ==
  \A p \in Publications : reply[p].kind = "ok" =>
    /\ IsSealed(manifest[p])
    /\ reply[p].recorded = recorded[manifest[p]] /\ reply[p].sealed = sealed[manifest[p]]

\* publish() never finds its own evidence missing after both stages: the
\* "incomplete" and "corrupt" answers of _read_proof are unreachable.
EvidenceIsComplete == \A p \in Publications : reply[p].kind # "incomplete"

\* A cohort refused because a member is taken (a unique or exclusion violation
\* other than the manifest's key) is never recorded by anybody else, so the
\* non-retryable answer of _integrity_error is right.
TakenIsFinal ==
  \A p \in Publications : reply[p].kind = "taken" => ~ IsCommitted(manifest[p])

\* What publish() answers holds for ever: its proofs, and its refusals of members
\* that are taken.
AnswersHold == ProofHolds /\ EvidenceIsComplete /\ TakenIsFinal

\* Every publication that is started is answered in the end: overlapping cohorts
\* wait for each other's rows but never in a circle, because members are inserted
\* in canonical order (_normalized_manifest).
PublicationAnswered == <>[](\A p \in Publications : pc[p] \in {"start", "done"})

\* "The forecast cohort can no longer be recorded (sealed) before its first
\* target": whoever is told so, not retryable, will not see it sealed.
DeadlineIsFinal ==
  \A p \in Publications : reply[p].kind = "deadline" => ~ IsSealed(manifest[p])
=============================================================================
