------------------------------- MODULE Outcomes -------------------------------
(***************************************************************************)
(* Resolution and publication of realized outcomes                         *)
(* (app/services/forecast_outcome_resolution.py, forecast_outcome_store.py *)
(* and forecast_outcome_collection.py, with the triggers and functions of  *)
(* migrations 0010 and 0011).  Once the cutoff of a registered policy has  *)
(* passed, the realized value of a forecast target is the newest version   *)
(* of its bar whose availability receipt is not after the cutoff.  It is   *)
(* stored once, and linked to every sealed cohort member that asks for it. *)
(*                                                                         *)
(* A collection resolves in one transaction and publishes in a second one. *)
(* Both take the lane's advisory lock, as every writer of receipts does    *)
(* (BarStore has the detail of versions and receipts).  Each call has one  *)
(* transaction at a time in the server, which outlives a lost client.      *)
(***************************************************************************)
EXTENDS Integers, FiniteSets

CONSTANTS
  Collectors,   \* calls of collect(), retries included
  Publishers,   \* other calls of publish() or of the SQL function
  Finalizers,   \* transactions that stamp receipts (workers and direct writers)
  Bars,         \* the bars of one lane that are targets
  Keys,         \* semantic keys: an outcome policy and a bar
  Members,      \* cohort members
  Bar(_), Cutoff(_), Key(_),  \* of a key, of a key, of a member
  Target(_),    \* the target time of a bar, which is its session close
  NoClient,
  MaxTime,      \* bound: the database clock
  MaxFaults     \* bound: database faults and client crashes

Calls  == Collectors \cup Publishers
NoTime == 0
Times  == 0..MaxTime

ASSUME KeyAssumption ==
  /\ MaxTime \in Nat \ {0} /\ MaxFaults \in Nat
  /\ \A m \in Members : Key(m) \in Keys
  /\ \A k \in Keys : /\ Bar(k) \in Bars /\ Target(Bar(k)) \in Nat \ {0}
                     /\ Cutoff(k) \in Nat /\ Target(Bar(k)) < Cutoff(k) /\ Cutoff(k) < MaxTime
  /\ Collectors \cap Publishers = {} /\ Calls \cap Finalizers = {} /\ NoClient \notin Calls \cup Finalizers

VARIABLES
  clock,         \* clock_timestamp()
  versions,      \* recorded_at of the committed versions of each bar
  receipts,      \* table bar_version_availability
  stamping,      \* uncommitted receipts of each finalizer
  sealed,        \* when the cohort of a member was sealed
  fence,         \* holder of the lane's advisory lock
  outcomes,      \* table forecast_realized_outcomes
  publications,  \* table forecast_realized_outcome_publications
  txn,           \* server side: the transaction of each call
  pc, member, got, reply,  \* client side: step, member, evidence, answer
  faults

bars   == <<versions, receipts, stamping>>
tables == <<outcomes, publications>>
vars   == <<clock, bars, sealed, fence, tables, txn, pc, member, got, reply, faults>>

\* The exact bar version an outcome names: its recording and its receipt.
Evidence   == [rec: Times, avail: Times]
NoEvidence == [rec |-> NoTime, avail |-> NoTime]
Receipt    == [bar: Bars, rec: Times, avail: Times]
Outcome    == [key: Keys, ev: Evidence, at: Times]
Link       == [key: Keys, ev: Evidence, member: Members, at: Times]

\* The clock a transaction has read last, and the rows it has inserted.
TxnRecords == [state: {"none", "open", "committing", "doomed"}, at: Times,
               outcome: SUBSET Outcome, link: SUBSET Link]
NoTxn == [state |-> "none", at |-> NoTime, outcome |-> {}, link |-> {}]

Steps == {"start", "cohort", "r_lock", "r_clock", "r_read", "r_wait", "p_find", "c_lock",
          "c_find", "c_insert", "c_link", "c_commit", "c_wait", "c_read",
          "c_race", "c_reconcile", "done"}
Kinds == {"none", "ok", "no_cohort", "not_ready", "source_unavailable", "evidence_missing",
          "not_member", "integrity", "semantic_conflict", "write_conflict",
          "commit_unknown", "unavailable", "incomplete", "lost"}

TypeOK ==
  /\ clock \in Times \ {NoTime}
  /\ versions \in [Bars -> SUBSET Times]
  /\ receipts \subseteq Receipt
  /\ stamping \in [Finalizers -> SUBSET Receipt]
  /\ sealed \in [Members -> Times]
  /\ fence \in Calls \cup Finalizers \cup {NoClient}
  /\ outcomes \subseteq Outcome /\ publications \subseteq Link
  /\ txn \in [Calls -> TxnRecords]
  /\ pc \in [Calls -> Steps] /\ member \in [Calls -> Members]
  /\ got \in [Calls -> Evidence] /\ reply \in [Calls -> Kinds]
  /\ faults \in 0..MaxFaults

Init ==
  /\ clock = 1
  /\ versions = [b \in Bars |-> {}] /\ receipts = {}
  /\ stamping = [w \in Finalizers |-> {}]
  /\ sealed = [m \in Members |-> NoTime]
  /\ fence = NoClient
  /\ outcomes = {} /\ publications = {}
  /\ txn = [p \in Calls |-> NoTxn]
  /\ pc = [p \in Calls |-> "start"] /\ member \in [Calls -> Members]
  /\ got = [p \in Calls |-> NoEvidence] /\ reply = [p \in Calls |-> "none"]
  /\ faults = 0

-----------------------------------------------------------------------------
(* What the tables say.                                                    *)

KeyOf(p) == Key(member[p])

\* Committed versions of a key's bar with a receipt not after the cutoff.
Visible(k) ==
  {r \in receipts : r.bar = Bar(k) /\ r.rec \in versions[r.bar] /\ r.avail <= Cutoff(k)}

\* build_exact_bar_version_statement: the newest of them (rank 1).
Newest(k) ==
  {[rec |-> r.rec, avail |-> r.avail] :
     r \in {s \in Visible(k) : \A t \in Visible(k) : t.rec <= s.rec}}

\* The content identity of an outcome is its key and its evidence.
SameContent(k, e) == {o \in outcomes : o.key = k /\ o.ev = e}
SameKey(k)        == {o \in outcomes : o.key = k}

\* The link row that proves the outcome to this member (_publication_identity).
Published(p) ==
  {l \in publications : l.key = KeyOf(p) /\ l.ev = got[p] /\ l.member = member[p]}

IsSealed(m) == sealed[m] # NoTime

Goto(p, step)   == pc' = [pc EXCEPT ![p] = step]
Answer(p, kind) == reply' = [reply EXCEPT ![p] = kind] /\ Goto(p, "done")

\* An error or a lost client dooms the transaction; it keeps the lane lock
\* until the server has ended it.
Doomed(p)       == IF txn[p].state = "open" THEN [txn EXCEPT ![p].state = "doomed"] ELSE txn
Refuse(p, kind) == Answer(p, kind) /\ txn' = Doomed(p)

Fault == faults < MaxFaults /\ faults' = faults + 1

\* _find_prepared and _try_reconcile: an exact outcome counts only with this
\* member's own link; other evidence under the same key is a conflict.
Lookup(p, otherwise) ==
  IF SameContent(KeyOf(p), got[p]) # {} /\ Published(p) # {} THEN Refuse(p, "ok")
  ELSE IF SameContent(KeyOf(p), got[p]) = {} /\ SameKey(KeyOf(p)) # {}
       THEN Refuse(p, "semantic_conflict")
       ELSE otherwise

-----------------------------------------------------------------------------
(* The surroundings: time, cohorts, versions and receipts.                 *)

Tick ==
  /\ clock < MaxTime
  /\ clock' = clock + 1
  /\ UNCHANGED <<bars, sealed, fence, tables, txn, pc, member, got, reply, faults>>

\* Cohorts commits a seal, stamped earlier and before the target.
Seal(m) ==
  /\ ~ IsSealed(m)
  /\ \E t \in Times \ {NoTime} :
       t <= clock /\ t < Target(Bar(Key(m))) /\ sealed' = [sealed EXCEPT ![m] = t]
  /\ UNCHANGED <<clock, bars, fence, tables, txn, pc, member, got, reply, faults>>

\* BarStore commits a version: recorded no earlier than the session close and
\* by now, but later than all before it, one instant later if need be.
Revise(b) ==
  /\ \E t \in Times :
       /\ Target(b) <= t
       /\ \A u \in versions[b] : u < t
       /\ t <= clock \/ t - 1 \in versions[b]
       /\ versions' = [versions EXCEPT ![b] = @ \cup {t}]
  /\ UNCHANGED <<clock, receipts, stamping, sealed, fence, tables, txn, pc, member, got, reply, faults>>

LockLane(w) ==
  /\ fence = NoClient
  /\ fence' = w
  /\ UNCHANGED <<clock, bars, sealed, tables, txn, pc, member, got, reply, faults>>

\* Mutant: the schema before migration 0011, without the fence trigger.
StampReceipt_NoFence(w) ==
  /\ \E b \in Bars : \E v \in versions[b] :
       /\ v <= clock
       /\ \A r \in receipts \cup stamping[w] : ~ (r.bar = b /\ r.rec = v)
       /\ stamping' = [stamping EXCEPT ![w] = @ \cup {[bar |-> b, rec |-> v, avail |-> clock]}]
  /\ UNCHANGED <<clock, versions, receipts, sealed, fence, tables, txn, pc, member, got, reply, faults>>

\* A receipt of a committed version that has none.
StampReceipt(w) ==
  /\ fence = w
  /\ \E b \in Bars : \E v \in versions[b] :
       /\ v <= clock
       /\ \A r \in receipts \cup stamping[w] : ~ (r.bar = b /\ r.rec = v)
       /\ stamping' = [stamping EXCEPT ![w] = @ \cup {[bar |-> b, rec |-> v, avail |-> clock]}]
  /\ UNCHANGED <<clock, versions, receipts, sealed, fence, tables, txn, pc, member, got, reply, faults>>

\* The finalizing transaction commits or rolls back.
EndFinalize(w) ==
  /\ fence = w
  /\ receipts' \in {receipts, receipts \cup stamping[w]}
  /\ stamping' = [stamping EXCEPT ![w] = {}]
  /\ fence' = NoClient
  /\ UNCHANGED <<clock, versions, sealed, tables, txn, pc, member, got, reply, faults>>

-----------------------------------------------------------------------------
(* collect() and the resolver.                                             *)

Collect(p) ==
  /\ pc[p] = "start"
  /\ Goto(p, "cohort")
  /\ UNCHANGED <<clock, bars, sealed, fence, tables, txn, member, got, reply, faults>>

\* Another caller of publish() or of the SQL function brings its own payload,
\* which only has to be well-formed (_normalized_payload, _normalized_source).
Submit(p) ==
  /\ pc[p] = "start"
  /\ \E e \in Evidence :
       /\ Target(Bar(KeyOf(p))) <= e.rec /\ e.rec <= e.avail /\ e.avail <= Cutoff(KeyOf(p))
       /\ got' = [got EXCEPT ![p] = e]
  /\ Goto(p, "p_find")
  /\ UNCHANGED <<clock, bars, sealed, fence, tables, txn, member, reply, faults>>

\* read_validated and read_self_validated: the sealed cohort and the run.
ReadCohort(p) ==
  /\ pc[p] = "cohort"
  /\ IF IsSealed(member[p]) THEN Goto(p, "r_lock") /\ UNCHANGED reply ELSE Answer(p, "no_cohort")
  /\ UNCHANGED <<clock, bars, sealed, fence, tables, txn, member, got, faults>>

\* BEGIN and the lane lock, of the resolving or of the publishing transaction.
TakeFence(p) ==
  /\ pc[p] \in {"r_lock", "c_lock"}
  /\ txn[p].state = "none" /\ fence = NoClient
  /\ fence' = p
  /\ txn' = [txn EXCEPT ![p] = [NoTxn EXCEPT !.state = "open"]]
  /\ Goto(p, IF pc[p] = "r_lock" THEN "r_clock" ELSE "c_find")
  /\ UNCHANGED <<clock, bars, sealed, tables, member, got, reply, faults>>

\* Only under the lock is the database clock compared with the cutoff.
ReadClock(p) ==
  /\ pc[p] = "r_clock"
  /\ IF clock < Cutoff(KeyOf(p)) THEN Refuse(p, "not_ready")
     ELSE txn' = [txn EXCEPT ![p].at = clock] /\ Goto(p, "r_read") /\ UNCHANGED reply
  /\ UNCHANGED <<clock, bars, sealed, fence, tables, member, got, faults>>

\* The selection, at most one row; then the end of the transaction.
Resolve(p) ==
  /\ pc[p] = "r_read"
  /\ got' = [got EXCEPT ![p] = IF Newest(KeyOf(p)) = {} THEN NoEvidence
                               ELSE CHOOSE e \in Newest(KeyOf(p)) : TRUE]
  /\ txn' = [txn EXCEPT ![p].state = "committing"]
  /\ Goto(p, "r_wait")
  /\ UNCHANGED <<clock, bars, sealed, fence, tables, member, reply, faults>>

-----------------------------------------------------------------------------
(* publish().                                                              *)

Preflight(p) ==
  /\ pc[p] = "p_find"
  /\ Lookup(p, Goto(p, "c_lock") /\ UNCHANGED <<txn, reply>>)
  /\ UNCHANGED <<clock, bars, sealed, fence, tables, member, got, faults>>

\* The same lookup under the lane lock; a replay writes nothing.
FindPrepared(p) ==
  /\ pc[p] = "c_find"
  /\ Lookup(p, Goto(p, "c_insert") /\ UNCHANGED <<txn, reply>>)
  /\ UNCHANGED <<clock, bars, sealed, fence, tables, member, got, faults>>

\* stamp_forecast_realized_outcome: the version and its receipt are stored.
EvidenceStored(p) ==
  /\ got[p].rec \in versions[Bar(KeyOf(p))]
  /\ [bar |-> Bar(KeyOf(p)), rec |-> got[p].rec, avail |-> got[p].avail] \in receipts

\* Mutant: any version visible at the cutoff will do.
PolicyHolds_AnyVisible(p) ==
  clock >= Cutoff(KeyOf(p)) /\ \E r \in Visible(KeyOf(p)) : r.rec = got[p].rec

\* validate_forecast_realized_outcome_policy: the cutoff has passed, and the
\* evidence is the unique newest visible version.
PolicyHolds(p) == clock >= Cutoff(KeyOf(p)) /\ Newest(KeyOf(p)) = {got[p]}

\* publish_forecast_realized_outcome, first half: insert the outcome unless
\* its content is stored already; the triggers run in either case.
InsertOutcome(p) ==
  LET k == KeyOf(p) IN
  /\ pc[p] = "c_insert"
  /\ IF ~ EvidenceStored(p) THEN Refuse(p, "evidence_missing")
     ELSE IF ~ PolicyHolds(p) THEN Refuse(p, "integrity")
     ELSE IF SameContent(k, got[p]) = {} /\ SameKey(k) # {}
          THEN Goto(p, "c_race") /\ txn' = Doomed(p) /\ UNCHANGED reply
     ELSE /\ txn' = [txn EXCEPT ![p].at = clock,
                                ![p].outcome = IF SameContent(k, got[p]) # {} THEN {}
                                               ELSE {[key |-> k, ev |-> got[p], at |-> clock]}]
          /\ Goto(p, "c_link") /\ UNCHANGED reply
  /\ UNCHANGED <<clock, bars, sealed, fence, tables, member, got, faults>>

\* Second half: the member must belong to a cohort sealed before the target.
LinkMember(p) ==
  /\ pc[p] = "c_link"
  /\ IF ~ IsSealed(member[p]) THEN Refuse(p, "not_member")
     ELSE /\ txn' = [txn EXCEPT ![p].link =
                       IF Published(p) # {} THEN {}
                       ELSE {[key |-> KeyOf(p), ev |-> got[p], member |-> member[p], at |-> clock]}]
          /\ Goto(p, "c_commit") /\ UNCHANGED reply
  /\ UNCHANGED <<clock, bars, sealed, fence, tables, member, got, faults>>

SendCommit(p) ==
  /\ pc[p] = "c_commit"
  /\ txn' = [txn EXCEPT ![p].state = "committing"]
  /\ Goto(p, "c_wait")
  /\ UNCHANGED <<clock, bars, sealed, fence, tables, member, got, reply, faults>>

\* _read_committed: both rows, read afresh.
ReadCommitted(p) ==
  /\ pc[p] = "c_read"
  /\ Answer(p, IF SameContent(KeyOf(p), got[p]) # {} /\ Published(p) # {} THEN "ok" ELSE "incomplete")
  /\ UNCHANGED <<clock, bars, sealed, fence, tables, txn, member, got, faults>>

\* Mutant: an unknown commit is reported as a success.
Reconcile_Trusts(p) ==
  /\ pc[p] \in {"c_race", "c_reconcile"}
  /\ Answer(p, "ok")
  /\ UNCHANGED <<clock, bars, sealed, fence, tables, txn, member, got, faults>>

\* Mutant: an unknown commit is reconciled until a row appears.
Reconcile_Polls(p) ==
  /\ pc[p] \in {"c_race", "c_reconcile"}
  /\ Lookup(p, UNCHANGED <<pc, txn, reply>>)
  /\ UNCHANGED <<clock, bars, sealed, fence, tables, member, got, faults>>

\* _try_reconcile, after a lost race or an unknown commit.
Reconcile(p) ==
  /\ pc[p] \in {"c_race", "c_reconcile"}
  /\ Lookup(p, Refuse(p, IF pc[p] = "c_race" THEN "write_conflict" ELSE "commit_unknown"))
  /\ UNCHANGED <<clock, bars, sealed, fence, tables, member, got, faults>>

-----------------------------------------------------------------------------
(* Faults and the server.                                                  *)

\* A database error with no commit pending, a lock timeout included.
DatabaseError(p) ==
  /\ pc[p] \notin {"start", "c_wait", "c_race", "c_reconcile", "done"}
  /\ Fault
  /\ Refuse(p, "unavailable")
  /\ UNCHANGED <<clock, bars, sealed, fence, tables, member, got>>

\* SQLSTATE 40003 in a statement, or any unclassified error of the COMMIT.
OutcomeUnknown(p) ==
  /\ pc[p] \in {"c_find", "c_insert", "c_link", "c_commit", "c_wait"}
  /\ Fault
  /\ txn' = Doomed(p)
  /\ Goto(p, "c_reconcile")
  /\ UNCHANGED <<clock, bars, sealed, fence, tables, member, got, reply>>

\* _try_reconcile swallows database errors; a call reads once, which needs no
\* bound.
ReconcileFails(p) ==
  /\ pc[p] \in {"c_race", "c_reconcile"}
  /\ Answer(p, IF pc[p] = "c_race" THEN "write_conflict" ELSE "commit_unknown")
  /\ UNCHANGED <<clock, bars, sealed, fence, tables, txn, member, got, faults>>

Crash(p) ==
  /\ pc[p] \notin {"start", "done"}
  /\ Fault
  /\ Refuse(p, "lost")
  /\ UNCHANGED <<clock, bars, sealed, fence, tables, member, got>>

\* What a client that was waiting for its COMMIT does next.
Acknowledged(p) ==
  CASE pc[p] = "r_wait" /\ got[p] = NoEvidence -> Answer(p, "source_unavailable")
    [] pc[p] = "r_wait" /\ got[p] # NoEvidence -> Goto(p, "p_find") /\ UNCHANGED reply
    [] pc[p] = "c_wait"                        -> Goto(p, "c_read") /\ UNCHANGED reply
    [] OTHER                                   -> UNCHANGED <<pc, reply>>

ReleaseFence(p) == fence' = IF fence = p THEN NoClient ELSE fence

\* The round trips between a clock read and the end of its transaction take at
\* least one tick of the microsecond clock (which stops at the bound).
Later(t) == t < clock \/ clock = MaxTime

ServerCommit(p) ==
  /\ txn[p].state = "committing"
  /\ Later(txn[p].at)
  /\ outcomes' = outcomes \cup txn[p].outcome
  /\ publications' = publications \cup txn[p].link
  /\ txn' = [txn EXCEPT ![p] = NoTxn]
  /\ ReleaseFence(p)
  /\ Acknowledged(p)
  /\ UNCHANGED <<clock, bars, sealed, member, got, faults>>

\* A doomed transaction ends; a COMMIT is refused, of which a client that
\* waits for it is told.
ServerAbort(p) ==
  /\ \/ txn[p].state = "doomed" /\ UNCHANGED <<pc, reply, faults>>
     \/ /\ txn[p].state = "committing" /\ Fault
        /\ IF pc[p] \in {"r_wait", "c_wait"} THEN Answer(p, "unavailable")
           ELSE UNCHANGED <<pc, reply>>
  /\ txn' = [txn EXCEPT ![p] = NoTxn]
  /\ ReleaseFence(p)
  /\ UNCHANGED <<clock, bars, sealed, tables, member, got>>

Step(p) ==
  \/ ReadCohort(p) \/ ReadClock(p) \/ Resolve(p) \/ Preflight(p) \/ FindPrepared(p)
  \/ InsertOutcome(p) \/ LinkMember(p) \/ SendCommit(p) \/ ReadCommitted(p) \/ Reconcile(p)

Next ==
  \/ Tick
  \/ \E m \in Members : Seal(m)
  \/ \E b \in Bars : Revise(b)
  \/ \E w \in Finalizers : LockLane(w) \/ StampReceipt(w) \/ EndFinalize(w)
  \/ \E p \in Collectors : Collect(p)
  \/ \E p \in Publishers : Submit(p)
  \/ \E p \in Calls :
       \/ TakeFence(p) \/ Step(p)
       \/ DatabaseError(p) \/ OutcomeUnknown(p) \/ ReconcileFails(p) \/ Crash(p)
       \/ ServerCommit(p) \/ ServerAbort(p)

Spec == Init /\ [][Next]_vars

\* The event loop runs every call on; PostgreSQL ends transactions, gives the
\* lane lock to waiters in turn, and finalizing transactions end.
Fairness ==
  /\ WF_vars(Tick)
  /\ \A w \in Finalizers : WF_vars(EndFinalize(w))
  /\ \A p \in Calls : WF_vars(Step(p)) /\ SF_vars(TakeFence(p))
                      /\ WF_vars(ServerCommit(p) \/ ServerAbort(p))

FairSpec == Spec /\ Fairness

-----------------------------------------------------------------------------
(* Properties.                                                             *)

\* A published outcome stays what its policy selects: no version and no
\* receipt that is committed afterwards, however late, makes another version
\* the newest one visible at the cutoff (the fence of 0011 and the clock read
\* behind it), so an outcome can be recomputed from the tables for ever.
TruthIsStable == \A o \in outcomes : Newest(o.key) = {o.ev}

\* "No finalized source version was available at the outcome cutoff" is not
\* retryable, and right for ever: the resolver would find nothing later either,
\* and nobody publishes an outcome of that key.
UnavailableIsFinal ==
  \A p \in Calls : reply[p] = "source_unavailable" =>
    Newest(KeyOf(p)) = {} /\ SameKey(KeyOf(p)) = {}

\* A resolution after the cutoff, with a version or without one, is never
\* overtaken by what is committed later.
CutoffIsFinal == TruthIsStable /\ UnavailableIsFinal

\* What a collection resolves is what the triggers accept in its second
\* transaction, and what every other call has stored: collections of several
\* cohorts and their retries never meet a conflict or an integrity failure
\* (non-retryable answers all), whatever evidence other callers bring.
NeverDisputed ==
  \A p \in Collectors : reply[p] \notin
    {"semantic_conflict", "write_conflict", "integrity", "evidence_missing",
     "not_member", "incomplete"}

\* A proof that publish() returns names an outcome and the caller's own link
\* row, both committed, also after a commit of unknown outcome.
ProofHolds ==
  \A p \in Calls : reply[p] = "ok" => SameContent(KeyOf(p), got[p]) # {} /\ Published(p) # {}

\* Every link is backed by a cohort sealed before the target, by a version
\* recorded after it, and by an outcome sealed no earlier than its cutoff and
\* no later than the link (published_at >= sealed_at in _proof).
LinksJustified ==
  \A l \in publications :
    /\ Key(l.member) = l.key
    /\ sealed[l.member] \in 1..(Target(Bar(l.key)) - 1) /\ Target(Bar(l.key)) <= l.ev.rec
    /\ \E o \in outcomes : /\ o.key = l.key /\ o.ev = l.ev
                           /\ l.ev.avail <= Cutoff(l.key) /\ Cutoff(l.key) <= o.at /\ o.at <= l.at

\* What is returned rests on committed rows, and those rows on evidence that was
\* there in time.
EvidenceJustified == ProofHolds /\ LinksJustified

\* Every call that is started is answered in the end, although it queues for the
\* lane lock (acquire_advisory_xact_lock) behind transactions that may have lost
\* their client.
CollectionAnswered == <>[](\A p \in Calls : pc[p] \in {"start", "done"})
=============================================================================
