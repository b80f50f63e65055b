--------------------------- MODULE AdjustedSnapshots ---------------------------
(***************************************************************************)
(* Adjusted forecast snapshots and the evidence they rest on               *)
(* (corporate_action_store.py, adjustment_factor_builder.py,               *)
(* adjustment_factor_store.py, adjusted_forecast_snapshot_builder.py,      *)
(* seal_adjusted_forecast_snapshot.py, migrations 0012 and 0013).          *)
(*                                                                         *)
(* A collection of corporate actions is stored in one transaction and      *)
(* becomes available by a receipt in a later one; so does a factor set,    *)
(* which names the newest inputs of each series at its cutoff.  A seal     *)
(* publishes one factor set and stores the snapshot of the time at which   *)
(* that set became available.                                              *)
(*                                                                         *)
(* One symbol, coverage and session.  Receipts are stamped inside          *)
(* transactions that commit later, in any order that the advisory fences   *)
(* allow.  The versions of the raw bars are a series like the others,      *)
(* stamped under their own fence (BarStore shows how).  Collections and    *)
(* factor sets are identified by their content.  The rows of single action *)
(* versions are shared by all collections that have them.                  *)
(***************************************************************************)
EXTENDS Naturals, FiniteSets, Sequences, SequencesExt

CONSTANTS
  MaxClients,   \* number of clients
  MaxFaults,    \* bound on database errors, ambiguous commits and crashes
  ReadOrder,    \* the series of a factor set in the order prepare() reads them
  LockOrder,    \* the same series by fence id
  Collections,  \* what a collector may publish: [series, id, page]
  Founded,      \* the rows at the start
  Requests,     \* what a caller asks: [op, doc] or [op, cutoff]
  NoDoc

Clients == 1..MaxClients
Series  == Range(ReadOrder)

IsSet(d) == "inputs" \in DOMAIN d

ASSUME SeriesAssumption ==
  /\ MaxClients \in Nat \ {0} /\ MaxFaults \in Nat
  /\ ReadOrder \in Seq(Series)
  /\ LockOrder \in Seq(Series) /\ IsInjective(LockOrder) /\ Range(LockOrder) = Series /\ LockOrder # <<>>

\* A collection is of one series and is no factor set.
IsCollection(d) == ~ IsSet(d) /\ d.series \in Series

ASSUME RequestAssumption ==
  /\ \A c \in Collections : IsCollection(c)
  /\ \A q \in Requests : \/ q.op = "collect" /\ q.doc \in Collections
                         \/ q.op = "seal" /\ q.cutoff \in Nat

\* At the start collections are stored, each recorded no later than it became
\* available, at the latest at 1.
ASSUME FoundedAssumption ==
  /\ \A r \in Founded : /\ r.table \in {"content", "receipt"} /\ IsCollection(r.doc)
                        /\ r.at \in {0, 1}
  /\ \A r, q \in Founded : r.table = q.table /\ r.doc = q.doc => r.at = q.at
  /\ \A r \in Founded : r.table = "receipt" =>
       \E q \in Founded : q.table = "content" /\ q.doc = r.doc /\ q.at <= r.at

VARIABLES
  now,       \* the database clock; every stamp is a new tick
  stored,    \* committed rows: [table, doc, at]
  request,   \* what each client asks
  step,      \* client side: the control state of each call
  doc,       \* the collection or the factor set each client publishes
  inputs,    \* what prepare() has read so far
  chosen,    \* the factor set selected for the snapshot
  txn,       \* server side: the transaction of each client
  reply,     \* the answer to each client
  faults     \* how many faults have happened

caller == <<request, step, doc, inputs, chosen, reply>>
vars   == <<now, stored, caller, txn, faults>>

Steps == {"start", "prepare", "fences", "content", "versions", "content_wait", "content_matches", "receipt",
          "receipt_wait", "receipt_visible", "eligible", "snapshot", "snapshot_wait", "lineage", "done"}

Kinds == {"none", "ok", "refused", "conflict", "semantic_conflict", "unavailable", "unknown",
          "failed", "lost"}

NoTxn == [state |-> "none", locks |-> {}, rows |-> {}, versions |-> 0]

TypeOK ==
  /\ now \in Nat /\ faults \in 0..MaxFaults
  /\ \A r \in stored : r.table \in {"content", "version", "receipt", "snapshot"} /\ r.at <= now
  /\ request \in [Clients -> Requests]
  /\ step \in [Clients -> Steps]
  /\ \A p \in Clients : DOMAIN inputs[p] \subseteq Series
  /\ \A p \in Clients : txn[p].state \in {"none", "open", "committing", "doomed"}
  /\ reply \in [Clients -> Kinds]

-----------------------------------------------------------------------------
(* What is stored.                                                         *)

Row(table, d, at) == [table |-> table, doc |-> d, at |-> at]

Rows(table) == {r \in stored : r.table = table}

Stored(table, d) == \E r \in Rows(table) : r.doc = d

\* The stamp of a stored row.
At(table, d) == (CHOOSE r \in Rows(table) : r.doc = d).at

Receipts(s)    == {r \in Rows("receipt") : ~ IsSet(r.doc) /\ r.doc.series = s}
FactorReceipts == {r \in Rows("receipt") : IsSet(r.doc)}

\* _load_collection and build_factor_raw_inputs_statement: of what was receipted
\* at the cutoff, the version recorded last.
Candidates(s, cutoff) == {r.doc : r \in {e \in Receipts(s) : e.at <= cutoff}}

Newest(s, cutoff) ==
  LET visible == Candidates(s, cutoff)
      versions == {r \in Rows("content") : r.doc \in visible}
  IN (CHOOSE r \in versions : \A e \in versions : e.at <= r.at).doc

\* A plan made now, in one go; a seal names the set its plan has found.
Planned(cutoff) == [cutoff |-> cutoff, inputs |-> [s \in Series |-> Newest(s, cutoff)]]

\* Mutant: the receipt of the factor set may be younger than the snapshot.
Eligible_AnyReceipt(as_of) == {r \in FactorReceipts : r.doc.cutoff <= as_of}

\* build_eligible_adjustment_factor_statement.
Eligible(as_of) == {r \in FactorReceipts : r.doc.cutoff <= as_of /\ r.at <= as_of}

\* Its order: the latest cutoff, then the latest receipt.
Precedes(r, q) == r.doc.cutoff > q.doc.cutoff \/ (r.doc.cutoff = q.doc.cutoff /\ r.at >= q.at)

Selected(as_of) ==
  (CHOOSE r \in Eligible(as_of) : \A q \in Eligible(as_of) : Precedes(r, q)).doc

-----------------------------------------------------------------------------
(* Clients, transactions and fences.                                       *)

Goto(p, s) == step' = [step EXCEPT ![p] = s]

Doomed(p) ==
  IF txn[p].state = "open" THEN [txn EXCEPT ![p].state = "doomed"] ELSE txn

Refuse(p, kind) ==
  /\ reply' = [reply EXCEPT ![p] = kind]
  /\ Goto(p, "done") /\ txn' = Doomed(p)

\* Advisory transaction locks, held until the server has ended the transaction.
Free(p, fence) == \A q \in Clients \ {p} : fence \notin txn[q].locks

\* An insert waits for an uncommitted row of the same key.
NoRival(p, table, d) ==
  \A q \in Clients \ {p} : \A r \in txn[q].rows : ~ (r.table = table /\ r.doc = d)

Fault == faults < MaxFaults /\ faults' = faults + 1

SeriesFence(s)  == <<"series", s>>
SnapshotLock(t) == <<"snapshot", t>>

\* Mutant: receipts of factor sets are stamped without a fence.
ReceiptFences_None(d) == IF IsSet(d) THEN {} ELSE {SeriesFence(d.series)}

\* What a receipt is stamped under: adjustment_factor_series_fence_id or
\* corporate_action_series_fence_id.
ReceiptFences(d) == {IF IsSet(d) THEN <<"factors", "">> ELSE SeriesFence(d.series)}

Locked(p, fence) == [txn EXCEPT ![p].state = "open", ![p].locks = @ \cup {fence}]

\* The last statement of a transaction; COMMIT follows at once.
Committing(p, locks, rows) ==
  [txn EXCEPT ![p].state = "committing", ![p].locks = @ \cup locks, ![p].rows = @ \cup rows]

-----------------------------------------------------------------------------
(* Calls: a collector publishes a collection, an operator seals a snapshot. *)

Collect(p) ==
  /\ step[p] = "start" /\ request[p].op = "collect"
  /\ doc' = [doc EXCEPT ![p] = request[p].doc]
  /\ Goto(p, "content")
  /\ UNCHANGED <<now, stored, request, inputs, chosen, reply, txn, faults>>

\* seal_once up to prepare(): a plan was made for the cutoff, which must not lie
\* in the future.
Seal(p) ==
  /\ step[p] = "start" /\ request[p].op = "seal"
  /\ LET cutoff == request[p].cutoff IN
     IF cutoff > now \/ \E s \in Series : Candidates(s, cutoff) = {}
     THEN Refuse(p, "refused") /\ UNCHANGED doc
     ELSE /\ doc' = [doc EXCEPT ![p] = Planned(cutoff)]
          /\ Goto(p, "prepare") /\ UNCHANGED <<reply, txn>>
  /\ UNCHANGED <<now, stored, request, inputs, chosen, faults>>

\* prepare(): one statement for each series, each with its own snapshot.
ReadSeries(p) ==
  /\ step[p] = "prepare" /\ Cardinality(DOMAIN inputs[p]) < Len(ReadOrder)
  /\ LET s == ReadOrder[Cardinality(DOMAIN inputs[p]) + 1] IN
     inputs' = [inputs EXCEPT ![p] =
       [t \in DOMAIN @ \cup {s} |-> IF t = s THEN Newest(s, request[p].cutoff) ELSE @[t]]]
  /\ UNCHANGED <<now, stored, request, step, doc, chosen, reply, txn, faults>>

\* The prepared set must be the planned one.
Prepared(p) ==
  /\ step[p] = "prepare" /\ DOMAIN inputs[p] = Series
  /\ IF doc[p] = [cutoff |-> request[p].cutoff, inputs |-> inputs[p]]
     THEN Goto(p, "fences") /\ UNCHANGED <<reply, txn>>
     ELSE Refuse(p, "refused")
  /\ UNCHANGED <<now, stored, request, doc, inputs, chosen, faults>>

-----------------------------------------------------------------------------
(* publish() of a collection or a factor set: the content.                 *)

\* publish_adjustment_factor_set takes the fences of its inputs in sorted order.
LockFence(p) ==
  /\ step[p] = "fences"
  /\ LET n == Cardinality(txn[p].locks) + 1
         fence == SeriesFence(LockOrder[n])
     IN /\ Free(p, fence)
        /\ txn' = Locked(p, fence)
        /\ IF n = Len(LockOrder) THEN Goto(p, "content") ELSE UNCHANGED step
  /\ UNCHANGED <<now, stored, request, doc, inputs, chosen, reply, faults>>

\* Mutant: the inputs are trusted to be the newest.
StillNewest_Trusted(p) == doc[p].cutoff <= now

\* Under the fences: the cutoff has passed and every input is the newest one.
StillNewest(p) ==
  /\ doc[p].cutoff <= now
  /\ \A s \in Series : doc[p].inputs[s] = Newest(s, doc[p].cutoff)

\* ON CONFLICT DO NOTHING keeps a row that is there.
NewContent(p) == IF Stored("content", doc[p]) THEN {} ELSE {Row("content", doc[p], now + 1)}

Insert(p) ==
  /\ txn' = Committing(p, {}, NewContent(p))
  /\ now' = IF NewContent(p) = {} THEN now ELSE now + 1
  /\ Goto(p, "content_wait") /\ UNCHANGED reply

Before(e, f) == e.date < f.date \/ (e.date = f.date /\ e.provider < f.provider)

\* Mutant: the members are kept as the provider listed them.
Members_AsListed(d) == d.page

\* build_split_collection, build_dividend_collection: the actions of the page by
\* date and provider id.
Members(d) == SortSeq(d.page, Before)

\* publish_corporate_action_collection: the manifest; its members follow.
PublishCollection(p) ==
  /\ step[p] = "content" /\ ~ IsSet(doc[p]) /\ NoRival(p, "content", doc[p])
  /\ IF doc[p].page = <<>> THEN Insert(p)
     ELSE /\ txn' = [txn EXCEPT ![p].state = "open", ![p].rows = NewContent(p)]
          /\ now' = IF NewContent(p) = {} THEN now ELSE now + 1
          /\ Goto(p, "versions") /\ UNCHANGED reply
  /\ UNCHANGED <<stored, request, doc, inputs, chosen, faults>>

\* No stamp of a version is ever read.
NewVersion(e) == IF Stored("version", e) THEN {} ELSE {Row("version", e, 0)}

\* The loop over the members: an insert waits for a collection that has the same
\* version and is not committed.
InsertVersion(p) ==
  /\ step[p] = "versions" /\ txn[p].versions < Len(doc[p].page)
  /\ LET e == Members(doc[p])[txn[p].versions + 1] IN
     /\ NoRival(p, "version", e)
     /\ txn' = [txn EXCEPT ![p].versions = @ + 1, ![p].rows = @ \cup NewVersion(e)]
  /\ UNCHANGED <<now, stored, request, step, doc, inputs, chosen, reply, faults>>

\* All members are there; COMMIT.
MembersComplete(p) ==
  /\ step[p] = "versions" /\ txn[p].versions = Len(doc[p].page)
  /\ txn' = Committing(p, {}, {}) /\ Goto(p, "content_wait")
  /\ UNCHANGED <<now, stored, request, doc, inputs, chosen, reply, faults>>

\* publish_adjustment_factor_set, after the fences.
PublishFactorSet(p) ==
  /\ step[p] = "content" /\ IsSet(doc[p]) /\ NoRival(p, "content", doc[p])
  /\ IF StillNewest(p) THEN Insert(p) ELSE Refuse(p, "conflict") /\ UNCHANGED now
  /\ UNCHANGED <<stored, request, doc, inputs, chosen, faults>>

\* _require_content_match, also after an error whose outcome is unknown.
ContentMatches(p) ==
  /\ step[p] = "content_matches"
  /\ IF Stored("content", doc[p]) THEN Goto(p, "receipt") /\ UNCHANGED <<reply, txn>>
     ELSE Refuse(p, "unknown")
  /\ UNCHANGED <<now, stored, request, doc, inputs, chosen, faults>>

-----------------------------------------------------------------------------
(* publish(): the receipt, stamped under its fence.                        *)

\* The stamping triggers of both receipts; a receipt that is there is kept.
NewReceipt(p) == IF Stored("receipt", doc[p]) THEN {} ELSE {Row("receipt", doc[p], now + 1)}

PublishReceipt(p) ==
  /\ step[p] = "receipt" /\ txn[p].state = "none"
  /\ \A fence \in ReceiptFences(doc[p]) : Free(p, fence)
  /\ NoRival(p, "receipt", doc[p])
  /\ now' = now + 1
  /\ txn' = Committing(p, ReceiptFences(doc[p]), NewReceipt(p))
  /\ Goto(p, "receipt_wait")
  /\ UNCHANGED <<stored, request, doc, inputs, chosen, reply, faults>>

\* _reconcile_receipt of the collection store ends the call.
CollectionAvailable(p) ==
  /\ step[p] = "receipt_visible" /\ ~ IsSet(doc[p])
  /\ Refuse(p, IF Stored("receipt", doc[p]) THEN "ok" ELSE "unknown")
  /\ UNCHANGED <<now, stored, request, doc, inputs, chosen, faults>>

\* _reconcile_receipt of the factor store; the seal goes on.
FactorSetAvailable(p) ==
  /\ step[p] = "receipt_visible" /\ IsSet(doc[p])
  /\ IF Stored("receipt", doc[p]) THEN Goto(p, "eligible") /\ UNCHANGED <<reply, txn>>
     ELSE Refuse(p, "unknown")
  /\ UNCHANGED <<now, stored, request, doc, inputs, chosen, faults>>

-----------------------------------------------------------------------------
(* seal_once: the snapshot at the time of the factor receipt.              *)

AsOf(p) == At("receipt", doc[p])

\* _require_current_session refuses once the next session comes near.
SessionRollsOver(p) ==
  /\ step[p] \in {"prepare", "eligible"}
  /\ Fault
  /\ Refuse(p, "refused")
  /\ UNCHANGED <<now, stored, request, doc, inputs, chosen>>

\* load_adjusted_price_evidence: the receipts of the set and of all it names.
EvidenceStored(d) ==
  Stored("receipt", d) /\ \A s \in Series : Stored("receipt", d.inputs[s])

\* _collection_receipt: recorded, then available, then the cutoff.
InputInOrder(input, cutoff) ==
  At("content", input) <= At("receipt", input) /\ At("receipt", input) <= cutoff

\* _factor_set_receipt: no set is older than an input it names.
SetInOrder(d) ==
  /\ \A s \in Series : At("receipt", d.inputs[s]) <= At("content", d)
  /\ At("content", d) <= At("receipt", d)

\* adjust_ohlcv_window: what it asks of the receipts.
EvidenceInOrder(d) == SetInOrder(d) /\ \A s \in Series : InputInOrder(d.inputs[s], d.cutoff)

\* verify_adjusted_snapshot_evidence.
EvidenceHolds(d, as_of) ==
  EvidenceStored(d) /\ EvidenceInOrder(d) /\ d.cutoff <= as_of /\ At("receipt", d) <= as_of

SelectFactors(p) ==
  /\ step[p] = "eligible"
  /\ LET d == Selected(AsOf(p)) IN
     IF EvidenceHolds(d, AsOf(p))
     THEN chosen' = [chosen EXCEPT ![p] = d] /\ Goto(p, "snapshot") /\ UNCHANGED <<reply, txn>>
     ELSE Refuse(p, "unavailable") /\ UNCHANGED chosen
  /\ UNCHANGED <<now, stored, request, doc, inputs, faults>>

Snapshots(t) == {r \in Rows("snapshot") : r.at = t}

\* build(), the final transaction: an existing snapshot must be the one that is
\* reconstructed from the selected factors.
BuildSnapshot(p) ==
  /\ step[p] = "snapshot" /\ txn[p].state = "none" /\ Free(p, SnapshotLock(AsOf(p)))
  /\ IF \E r \in Snapshots(AsOf(p)) : r.doc # chosen[p] THEN Refuse(p, "semantic_conflict")
     ELSE /\ txn' = Committing(p, {SnapshotLock(AsOf(p))},
               IF Snapshots(AsOf(p)) # {} THEN {} ELSE {Row("snapshot", chosen[p], AsOf(p))})
          /\ Goto(p, "snapshot_wait") /\ UNCHANGED reply
  /\ UNCHANGED <<now, stored, request, doc, inputs, chosen, faults>>

\* _require_exact_factor_lineage: a set with a later cutoff may have taken the
\* place of the one just published.
CheckLineage(p) ==
  /\ step[p] = "lineage"
  /\ IF \E r \in Snapshots(AsOf(p)) : r.doc = doc[p] THEN Refuse(p, "ok") ELSE Refuse(p, "refused")
  /\ UNCHANGED <<now, stored, request, doc, inputs, chosen, faults>>

-----------------------------------------------------------------------------
(* Faults and the server.                                                  *)

\* Where an error leaves a call: publications reconcile, the rest gives up.
AfterError(p) ==
  CASE step[p] \in {"fences", "content", "versions", "content_wait"} -> "content_matches"
    [] step[p] \in {"receipt", "receipt_wait"}           -> "receipt_visible"
    [] OTHER                                             -> "done"

KindOfError(p) ==
  IF step[p] \in {"content_matches", "receipt_visible"} THEN "unknown" ELSE "failed"

\* A database error, a lock timeout, or a COMMIT without an answer.
DatabaseError(p) ==
  /\ step[p] \notin {"start", "done"}
  /\ Fault
  /\ IF AfterError(p) = "done" THEN Refuse(p, KindOfError(p))
     ELSE Goto(p, AfterError(p)) /\ txn' = Doomed(p) /\ UNCHANGED reply
  /\ UNCHANGED <<now, stored, request, doc, inputs, chosen>>

Crash(p) ==
  /\ step[p] \notin {"start", "done"}
  /\ Fault
  /\ Refuse(p, "lost")
  /\ UNCHANGED <<now, stored, request, doc, inputs, chosen>>

AfterCommit(p) ==
  CASE step[p] = "content_wait"  -> "content_matches"
    [] step[p] = "receipt_wait"  -> "receipt_visible"
    [] step[p] = "snapshot_wait" -> "lineage"
    [] OTHER                     -> step[p]

ServerCommit(p) ==
  /\ txn[p].state = "committing"
  /\ stored' = stored \cup txn[p].rows
  /\ txn' = [txn EXCEPT ![p] = NoTxn]
  /\ Goto(p, AfterCommit(p))
  /\ UNCHANGED <<now, request, doc, inputs, chosen, reply, faults>>

\* A lost connection before or during COMMIT.
ServerRollback(p) ==
  /\ \/ txn[p].state = "doomed"
     \/ txn[p].state = "committing" /\ step[p] \notin {"content_wait", "receipt_wait", "snapshot_wait"}
  /\ txn' = [txn EXCEPT ![p] = NoTxn]
  /\ UNCHANGED <<now, stored, caller, faults>>

-----------------------------------------------------------------------------
Init ==
  /\ now = 1
  /\ stored = Founded
  /\ request \in [Clients -> Requests]
  /\ step = [p \in Clients |-> "start"]
  /\ doc = [p \in Clients |-> NoDoc]
  /\ inputs = [p \in Clients |-> <<>>]
  /\ chosen = [p \in Clients |-> NoDoc]
  /\ txn = [p \in Clients |-> NoTxn]
  /\ reply = [p \in Clients |-> "none"]
  /\ faults = 0

Proceed(p) ==
  \/ Collect(p) \/ Seal(p) \/ ReadSeries(p) \/ Prepared(p)
  \/ LockFence(p) \/ PublishCollection(p) \/ InsertVersion(p) \/ MembersComplete(p)
  \/ PublishFactorSet(p) \/ ContentMatches(p)
  \/ PublishReceipt(p) \/ CollectionAvailable(p) \/ FactorSetAvailable(p)
  \/ SelectFactors(p) \/ BuildSnapshot(p) \/ CheckLineage(p)

Server(p) == ServerCommit(p) \/ ServerRollback(p)

Next ==
  \E p \in Clients :
    \/ Proceed(p) \/ Server(p)
    \/ SessionRollsOver(p) \/ DatabaseError(p) \/ Crash(p)

\* Clients run and the server ends every transaction it was told to end; nothing
\* fails on its own.
Fairness == \A p \in Clients : WF_vars(Proceed(p)) /\ WF_vars(Server(p))

Spec == Init /\ [][Next]_vars /\ Fairness

-----------------------------------------------------------------------------
(* Properties.                                                             *)

\* publish_adjustment_factor_set: a stored factor set names the newest input of
\* every series at its cutoff, also after receipts that were in flight when it
\* was prepared.
FactorSetExact ==
  \A r \in Rows("content") : IsSet(r.doc) =>
    \A s \in Series : r.doc.inputs[s] = Newest(s, r.doc.cutoff)

\* The availability rules of the builder: nothing in a snapshot became available
\* after its time, and what the selection finds always passes the verification.
SnapshotPointInTime ==
  /\ \A r \in Rows("snapshot") : EvidenceHolds(r.doc, r.at)
  /\ \A p \in Clients : reply[p] # "unavailable"

\* build() as seal_once uses it: a seal repeated at its receipt selects the
\* factors it selected before, so the snapshot in place is always its own.
SealsReplay == \A p \in Clients : reply[p] # "semantic_conflict"

\* What seal_once and publish() report is stored: a collection that is available,
\* or a snapshot that names exactly the planned set; and every repetition of a
\* seal is such a report.
AnswersHold ==
  /\ SealsReplay
  /\ \A p \in Clients : reply[p] = "ok" =>
       /\ Stored("receipt", doc[p])
       /\ request[p].op = "seal" => \E r \in Rows("snapshot") : r.at = AsOf(p) /\ r.doc = doc[p]

\* The fences are taken in one order, and so are the versions that collections
\* share: every call is answered.
CallsAnswered == <>(\A p \in Clients : step[p] = "done")

=============================================================================
