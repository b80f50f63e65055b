------------------------------ MODULE BarStore ------------------------------
(***************************************************************************)
(* The point-in-time bar store of one symbol/source/timespan lane, and the *)
(* forecast-input snapshots built from it.                                 *)
(*                                                                         *)
(* Every price bar is versioned: a changed bar keeps its predecessor in    *)
(* bars_revisions, and a version becomes usable by forecasts only through  *)
(* an availability receipt stamped in a LATER transaction than the one     *)
(* that wrote it.  A snapshot for cutoff C is assembled from the newest    *)
(* version of every bar whose receipt is not after C, and must be          *)
(* reproducible byte for byte for ever after.                              *)
(*                                                                         *)
(* Three kinds of database client run concurrently:                        *)
(*   Workers   ingestion tasks (ingestion/tasks/ingest_prices.py): one     *)
(*             transaction upserts a fetched batch, a second one stamps    *)
(*             the missing receipts; both hold the lane's advisory lock;   *)
(*   Writers   direct SQL writers, which hold no lane lock but are subject *)
(*             to the triggers and constraints of migrations 0006 - 0011;  *)
(*   Builders  snapshot builders (app/services/                            *)
(*             forecast_snapshot_builder.py), also under the lane lock.    *)
(***************************************************************************)
EXTENDS Integers, FiniteSets, FiniteSetsExt

CONSTANTS
  Workers, Writers, Builders,  \* disjoint sets of database clients
  NumSessions,                 \* the lane's bars are keyed by session number
  SessionClose,                \* the close time of each session; also the bar's ts
  Vals,                        \* value tuples (OHLCV, vwap, trade count) of a bar
  Cutoffs,                     \* the as_of cutoffs snapshots are asked for
  MinObs, ObsLimit,            \* policy.minimum_observations, policy.observation_limit
  HostSkew,                    \* how far a worker's clock may be off the database's
  MaxClock, MaxTxn,            \* bounds: clock ticks, transactions per client
  NoClient, NoBar              \* "nobody", "no such bar"

Keys    == 1..NumSessions
Clients == Workers \cup Writers \cup Builders

\* A transaction id: distinct for every transaction (PostgreSQL's txid).
Xid == Clients \X Nat

\* One stored version of a bar.  as_of defaults to fetched_at everywhere in
\* the ingestion code, so one field stands for both.
Version  == [key: Keys, val: Vals, fetched: Int, rec: Int, xid: Xid]
Revision == [prev: Version, next: Version]
Receipt  == [key: Keys, rec: Int, avail: Int]
Row      == [key: Keys, val: Vals, fetched: Int]
\* A row of the point-in-time read.
PitRow   == [ver: Version, avail: Int]

ASSUME BoundsAssumption ==
  /\ NumSessions \in Nat
  /\ MinObs \in Nat \ {0} /\ ObsLimit \in Nat \ {0}
  /\ HostSkew \in Nat /\ MaxClock \in Nat /\ MaxTxn \in Nat
  /\ Cutoffs \subseteq Int

ASSUME CalendarAssumption ==
  /\ SessionClose \in [Keys -> Nat]
  /\ \A i, j \in Keys : i < j => SessionClose[i] < SessionClose[j]

ASSUME ClientsAssumption ==
  /\ Workers \cap Writers = {} /\ Workers \cap Builders = {} /\ Writers \cap Builders = {}
  /\ NoClient \notin Clients
  /\ NoBar \notin Version \cup PitRow

VARIABLES
  clock,      \* the database's clock_timestamp()
  bars,       \* table bars: the current version of every key
  revisions,  \* table bars_revisions, written by the version_bar_write trigger
  receipts,   \* table bar_version_availability
  snap,       \* table forecast_input_snapshots, by cutoff: the rows sealed
  fence,      \* holder of the lane's advisory lock
  rowLock,    \* holder of the row lock (or of the pending insert) of each key
  pc,         \* control state of each client
  txn,        \* number of transactions each client has begun
  batch,      \* rows a worker has fetched
  newBars, newRevs, newRcpts,  \* each client's uncommitted writes
  job,        \* a builder's cutoff, the clock it read and the rows it read
  result,     \* what a builder's last build reported
  seen        \* history variable: the rows the first completed build at a cutoff read

store   == <<bars, revisions, receipts>>
pending == <<newBars, newRevs, newRcpts>>
vars == <<clock, bars, revisions, receipts, snap, fence, rowLock, pc, txn, batch,
          newBars, newRevs, newRcpts, job, result, seen>>

NoRows   == {NoBar}  \* no snapshot, or no build, at a cutoff
NoWrites == [k \in Keys |-> NoBar]
Job      == [cutoff: Int, now: Int, rows: SUBSET PitRow]
NoJob    == [cutoff |-> 0, now |-> 0, rows |-> {}]

Steps == {"idle", "fetched", "upserting", "planned", "written", "committed",
          "finalizing", "stamped", "writing", "locked", "read"}
Results == {"none", "created", "replayed", "deferred", "future", "untrusted", "conflict"}

TypeOK ==
  /\ clock \in Nat
  /\ bars \in [Keys -> Version \cup {NoBar}]
  /\ revisions \subseteq Revision
  /\ receipts \subseteq Receipt
  /\ snap \in [Cutoffs -> (SUBSET PitRow) \cup {NoRows}]
  /\ fence \in Clients \cup {NoClient}
  /\ rowLock \in [Keys -> Clients \cup {NoClient}]
  /\ pc \in [Clients -> Steps]
  /\ txn \in [Clients -> Nat]
  /\ batch \in [Workers -> SUBSET Row]
  /\ newBars \in [Clients -> [Keys -> Version \cup {NoBar}]]
  /\ newRevs \in [Clients -> SUBSET Revision]
  /\ newRcpts \in [Clients -> SUBSET Receipt]
  /\ job \in [Builders -> Job]
  /\ result \in [Builders -> Results]
  /\ seen \in [Cutoffs -> (SUBSET PitRow) \cup {NoRows}]

Init ==
  /\ clock = 0
  /\ bars = NoWrites
  /\ revisions = {}
  /\ receipts = {}
  /\ snap = [c \in Cutoffs |-> NoRows]
  /\ fence = NoClient
  /\ rowLock = [k \in Keys |-> NoClient]
  /\ pc = [a \in Clients |-> "idle"]
  /\ txn = [a \in Clients |-> 0]
  /\ batch = [w \in Workers |-> {}]
  /\ newBars = [a \in Clients |-> NoWrites]
  /\ newRevs = [a \in Clients |-> {}]
  /\ newRcpts = [a \in Clients |-> {}]
  /\ job = [b \in Builders |-> NoJob]
  /\ result = [b \in Builders |-> "none"]
  /\ seen = [c \in Cutoffs |-> NoRows]

-----------------------------------------------------------------------------
(* Versions, receipts and transactions.                                    *)

VersionsIn(current, history) ==
  {current[k] : k \in {j \in Keys : current[j] # NoBar}}
    \cup {r.prev : r \in history} \cup {r.next : r \in history}

\* Every committed version: bars UNION bars_revisions (previous and incoming).
Versions == VersionsIn(bars, revisions)

\* The versions a transaction of client a has written itself.
Uncommitted(a) == VersionsIn(newBars[a], newRevs[a])

\* The current bar as client a's transaction sees it.
BarSeenBy(a, k) == IF newBars[a][k] # NoBar THEN newBars[a][k] ELSE bars[k]

MyXid(a) == <<a, txn[a]>>

Names(r, v) == r.key = v.key /\ r.rec = v.rec

\* Committed and own receipts block a second one (primary key, NOT EXISTS).
Receipted(a, v) == \E r \in receipts \cup newRcpts[a] : Names(r, v)

\* Mutant: every version is stamped with the clock alone.
RecordedAt_ClockOnly(old) == clock

\* version_bar_write: INSERT stamps the clock, UPDATE a strictly later time.
RecordedAt(old) == IF old = NoBar THEN clock
                   ELSE IF clock > old.rec THEN clock ELSE old.rec + 1

\* The version the trigger stores for an incoming row.
Stored(a, row) ==
  [key |-> row.key, val |-> row.val, fetched |-> row.fetched,
   rec |-> RecordedAt(BarSeenBy(a, row.key)), xid |-> MyXid(a)]

\* ON CONFLICT ... WHERE values differ, and the trigger's RETURN NULL.
Unchanged(old, row) == old # NoBar /\ old.val = row.val

\* The trigger's exception for a changed bar without newer evidence.
NotNewer(old, row) == old # NoBar /\ old.val # row.val /\ row.fetched <= old.fetched

\* The table constraints: fetched_at >= ts and recorded_at >= as_of.
ConstraintsHold(v) == v.fetched >= SessionClose[v.key] /\ v.rec >= v.fetched

\* Client a writes a set of rows, at most one per key, in one statement.
Accepted(a, rows) ==
  \A row \in rows : LET old == BarSeenBy(a, row.key) IN
    Unchanged(old, row) \/ (~ NotNewer(old, row) /\ ConstraintsHold(Stored(a, row)))

\* Mutant: an UPDATE does not append the replaced version to bars_revisions.
WriteBars_NoRevision(a, rows) ==
  LET changed == {row \in rows : ~ Unchanged(BarSeenBy(a, row.key), row)}
  IN /\ newBars' = [newBars EXCEPT ![a] = [k \in Keys |->
                      IF \E row \in changed : row.key = k
                      THEN Stored(a, CHOOSE row \in changed : row.key = k)
                      ELSE newBars[a][k]]]
     /\ UNCHANGED newRevs

WriteBars(a, rows) ==
  LET changed == {row \in rows : ~ Unchanged(BarSeenBy(a, row.key), row)}
      updated == {row \in changed : BarSeenBy(a, row.key) # NoBar}
  IN /\ newBars' = [newBars EXCEPT ![a] = [k \in Keys |->
                      IF \E row \in changed : row.key = k
                      THEN Stored(a, CHOOSE row \in changed : row.key = k)
                      ELSE newBars[a][k]]]
     /\ newRevs' = [newRevs EXCEPT ![a] = newRevs[a] \cup
                      {[prev |-> BarSeenBy(a, row.key), next |-> Stored(a, row)] : row \in updated}]

LockRows(a, K) == rowLock' = [k \in Keys |-> IF k \in K THEN a ELSE rowLock[k]]

RowsFreeFor(a, K) == \A k \in K : rowLock[k] \in {a, NoClient}

\* Locks and uncommitted writes end with the transaction.
EndTransaction(a) ==
  /\ fence' = IF fence = a THEN NoClient ELSE fence
  /\ rowLock' = [k \in Keys |-> IF rowLock[k] = a THEN NoClient ELSE rowLock[k]]
  /\ newBars' = [newBars EXCEPT ![a] = NoWrites]
  /\ newRevs' = [newRevs EXCEPT ![a] = {}]
  /\ newRcpts' = [newRcpts EXCEPT ![a] = {}]

PublishWrites(a) ==
  /\ bars' = [k \in Keys |-> BarSeenBy(a, k)]
  /\ revisions' = revisions \cup newRevs[a]
  /\ receipts' = receipts \cup newRcpts[a]

\* The stamp_bar_version_availability trigger refuses a version its own
\* transaction wrote, and the table a receipt that predates the recording.
MayStamp(a, v) == v.xid # MyXid(a) /\ clock >= v.rec

StampReceipts(a, V) ==
  newRcpts' = [newRcpts EXCEPT ![a] = newRcpts[a] \cup
                 {[key |-> v.key, rec |-> v.rec, avail |-> clock] : v \in V}]

Goto(a, step) == pc' = [pc EXCEPT ![a] = step]
BeginTxn(a)   == txn[a] < MaxTxn /\ txn' = [txn EXCEPT ![a] = txn[a] + 1]

-----------------------------------------------------------------------------
(* Ingestion workers.                                                      *)

\* Vendor answers, one request per session: any values, each stamped by the
\* host's clock, which may not be before the session's close.
Fetch(w) ==
  /\ pc[w] = "idle"
  /\ \E K \in SUBSET Keys \ {{}} :
       \E val \in [K -> Vals], at \in [K -> (clock - HostSkew)..(clock + HostSkew)] :
         /\ \A k \in K : at[k] >= SessionClose[k]
         /\ batch' = [batch EXCEPT ![w] =
                         {[key |-> k, val |-> val[k], fetched |-> at[k]] : k \in K}]
  /\ Goto(w, "fetched")
  /\ UNCHANGED <<clock, store, snap, fence, rowLock, txn, pending, job, result, seen>>

BatchKeys(w) == {row.key : row \in batch[w]}

\* First transaction: the lane lock, then the (here redundant) key locks.
BeginUpsert(w) ==
  /\ pc[w] = "fetched"
  /\ fence = NoClient
  /\ BeginTxn(w)
  /\ fence' = w
  /\ Goto(w, "upserting")
  /\ UNCHANGED <<clock, store, snap, rowLock, batch, pending, job, result, seen>>

\* SELECT ... FOR UPDATE of the existing rows, and the plan's own check.
LoadAndPlan(w) ==
  /\ pc[w] = "upserting"
  /\ LET present == {k \in BatchKeys(w) : bars[k] # NoBar}
     IN RowsFreeFor(w, present) /\ LockRows(w, present)
  /\ \A row \in batch[w] : ~ NotNewer(bars[row.key], row)
  /\ Goto(w, "planned")
  /\ UNCHANGED <<clock, store, snap, fence, txn, batch, pending, job, result, seen>>

\* The upsert statement with its trigger, then the verifying read.
UpsertBatch(w) ==
  /\ pc[w] = "planned"
  /\ RowsFreeFor(w, BatchKeys(w))
  /\ Accepted(w, batch[w])
  /\ WriteBars(w, batch[w])
  /\ LockRows(w, BatchKeys(w))
  /\ Goto(w, "written")
  /\ UNCHANGED <<clock, store, snap, fence, txn, batch, newRcpts, job, result, seen>>

CommitUpsert(w) ==
  /\ pc[w] = "written"
  /\ PublishWrites(w)
  /\ EndTransaction(w)
  /\ Goto(w, "committed")
  /\ batch' = [batch EXCEPT ![w] = {}]
  /\ UNCHANGED <<clock, snap, txn, job, result, seen>>

\* Second transaction: the lane lock again.
BeginFinalize(w) ==
  /\ pc[w] = "committed"
  /\ fence = NoClient
  /\ BeginTxn(w)
  /\ fence' = w
  /\ Goto(w, "finalizing")
  /\ UNCHANGED <<clock, store, snap, rowLock, batch, pending, job, result, seen>>

\* Mutant: only the versions of this worker's own upsert are finalized.
MissingReceipts_OwnRows(w) ==
  {v \in Versions : v.xid = <<w, txn[w] - 1>> /\ ~ Receipted(w, v)}

\* One INSERT ... SELECT over every version of the lane without a receipt.
MissingReceipts(w) == {v \in Versions \cup Uncommitted(w) : ~ Receipted(w, v)}

Finalize(w) ==
  /\ pc[w] = "finalizing"
  /\ \A v \in MissingReceipts(w) : MayStamp(w, v)
  /\ StampReceipts(w, MissingReceipts(w))
  /\ Goto(w, "stamped")
  /\ UNCHANGED <<clock, store, snap, fence, rowLock, txn, batch, newBars, newRevs, job, result, seen>>

CommitFinalize(w) ==
  /\ pc[w] = "stamped"
  /\ PublishWrites(w)
  /\ EndTransaction(w)
  /\ Goto(w, "idle")
  /\ UNCHANGED <<clock, snap, txn, batch, job, result, seen>>

-----------------------------------------------------------------------------
(* Direct SQL writers: no lane lock, no plan, any number of statements.    *)

BeginDirect(d) ==
  /\ pc[d] = "idle"
  /\ BeginTxn(d)
  /\ Goto(d, "writing")
  /\ UNCHANGED <<clock, store, snap, fence, rowLock, batch, pending, job, result, seen>>

DirectWrite(d) ==
  /\ pc[d] = "writing"
  /\ \E k \in Keys, v \in Vals, t \in (clock - HostSkew)..clock :
       LET row == [key |-> k, val |-> v, fetched |-> t] IN
       /\ RowsFreeFor(d, {k})
       /\ Accepted(d, {row})
       /\ WriteBars(d, {row})
       /\ LockRows(d, {k})
  /\ UNCHANGED <<clock, store, snap, fence, pc, txn, batch, newRcpts, job, result, seen>>

\* Mutant: the schema before migration 0011, without the fence trigger.
DirectReceipt_NoFence(d) ==
  /\ pc[d] = "writing"
  /\ \E v \in Versions \cup Uncommitted(d) :
       ~ Receipted(d, v) /\ MayStamp(d, v) /\ StampReceipts(d, {v})
  /\ UNCHANGED <<clock, store, snap, fence, rowLock, pc, txn, batch, newBars, newRevs, job, result, seen>>

\* The fence trigger takes the lane lock before the stamp trigger runs.
DirectReceipt(d) ==
  /\ pc[d] = "writing"
  /\ fence \in {d, NoClient}
  /\ \E v \in Versions \cup Uncommitted(d) :
       ~ Receipted(d, v) /\ MayStamp(d, v) /\ StampReceipts(d, {v})
  /\ fence' = d
  /\ UNCHANGED <<clock, store, snap, rowLock, pc, txn, batch, newBars, newRevs, job, result, seen>>

CommitDirect(d) ==
  /\ pc[d] = "writing"
  /\ PublishWrites(d)
  /\ EndTransaction(d)
  /\ Goto(d, "idle")
  /\ UNCHANGED <<clock, snap, txn, batch, job, result, seen>>

-----------------------------------------------------------------------------
(* Snapshot builders.                                                      *)

\* Mutant: the versions recorded by the cutoff, whenever their receipt came.
Finalized_ByRecording(c) ==
  {x \in [ver: Versions, avail: {r.avail : r \in receipts}] :
     /\ [key |-> x.ver.key, rec |-> x.ver.rec, avail |-> x.avail] \in receipts
     /\ x.ver.rec <= c /\ SessionClose[x.ver.key] <= c /\ x.ver.fetched <= c}

\* build_point_in_time_bars_statement: receipted, visible at the cutoff...
Finalized(c) ==
  {x \in [ver: Versions, avail: {r.avail : r \in receipts}] :
     /\ [key |-> x.ver.key, rec |-> x.ver.rec, avail |-> x.avail] \in receipts
     /\ x.avail <= c /\ SessionClose[x.ver.key] <= c /\ x.ver.fetched <= c}

\* ... and of those the newest version of every bar.
PointInTime(c) ==
  {x \in Finalized(c) : \A y \in Finalized(c) : y.ver.key = x.ver.key => y.ver.rec <= x.ver.rec}

LatestCompletedSession(c) == Cardinality({k \in Keys : SessionClose[k] <= c})

\* _verify_and_order_bars: the contiguous suffix that ends at the latest
\* completed session, out of the observation_limit newest rows.
Suffix(c, rows) ==
  LET has == {x.ver.key : x \in rows}
      last == LatestCompletedSession(c)
  IN {x \in rows : x.ver.key..last \subseteq has /\ x.ver.key > last - ObsLimit}

TooShort(c, rows) == Cardinality(Suffix(c, rows)) < MinObs

\* The pinned availability order of every selected row.
Trusted(c, rows) ==
  \A x \in Suffix(c, rows) :
    /\ SessionClose[x.ver.key] <= x.ver.fetched
    /\ x.ver.fetched <= x.ver.rec /\ x.ver.rec <= x.avail /\ x.avail <= c

BuildLock(b) ==
  /\ pc[b] = "idle"
  /\ fence = NoClient
  /\ BeginTxn(b)
  /\ fence' = b
  /\ \E c \in Cutoffs : job' = [job EXCEPT ![b] = [cutoff |-> c, now |-> 0, rows |-> {}]]
  /\ result' = [result EXCEPT ![b] = "none"]
  /\ Goto(b, "locked")
  /\ UNCHANGED <<clock, store, snap, rowLock, batch, pending, seen>>

\* A cutoff later than the database clock is refused.
BuildFuture(b) ==
  /\ pc[b] = "locked"
  /\ job[b].cutoff > clock
  /\ result' = [result EXCEPT ![b] = "future"]
  /\ EndTransaction(b)
  /\ Goto(b, "idle")
  /\ UNCHANGED <<clock, store, snap, txn, batch, job, seen>>

BuildRead(b) ==
  /\ pc[b] = "locked"
  /\ job[b].cutoff <= clock
  /\ job' = [job EXCEPT ![b] = [cutoff |-> job[b].cutoff, now |-> clock,
                                rows |-> PointInTime(job[b].cutoff)]]
  /\ Goto(b, "read")
  /\ UNCHANGED <<clock, store, snap, fence, rowLock, txn, batch, pending, result, seen>>

\* What the build at cutoff c reports for the rows it read.
Verdict(c, rows) ==
  IF snap[c] = NoRows
  THEN IF TooShort(c, rows) THEN "deferred"
       ELSE IF ~ Trusted(c, rows) THEN "untrusted" ELSE "created"
  ELSE IF TooShort(c, rows) \/ ~ Trusted(c, rows) \/ Suffix(c, rows) # snap[c]
       THEN "conflict" ELSE "replayed"

\* Verify, assemble, insert and commit (or roll back with the verdict).  The
\* round trips between the builder's clock read and the end of its
\* transaction take at least one tick of the microsecond clock.
BuildFinish(b) ==
  LET c == job[b].cutoff
      rows == job[b].rows
  IN /\ pc[b] = "read"
     /\ clock > job[b].now
     /\ result' = [result EXCEPT ![b] = Verdict(c, rows)]
     /\ snap' = IF Verdict(c, rows) = "created"
                THEN [snap EXCEPT ![c] = Suffix(c, rows)] ELSE snap
     /\ seen' = IF seen[c] = NoRows THEN [seen EXCEPT ![c] = rows] ELSE seen
     /\ EndTransaction(b)
     /\ Goto(b, "idle")
     /\ job' = [job EXCEPT ![b] = NoJob]
     /\ UNCHANGED <<clock, store, txn, batch>>

-----------------------------------------------------------------------------
\* A crash, an exception, a lock timeout or a deadlock abort, anywhere.
Rollback(a) ==
  /\ pc[a] # "idle"
  /\ EndTransaction(a)
  /\ Goto(a, "idle")
  /\ batch' = IF a \in Workers THEN [batch EXCEPT ![a] = {}] ELSE batch
  /\ job' = IF a \in Builders THEN [job EXCEPT ![a] = NoJob] ELSE job
  /\ UNCHANGED <<clock, store, snap, txn, result, seen>>

Tick ==
  /\ clock < MaxClock
  /\ clock' = clock + 1
  /\ UNCHANGED <<store, snap, fence, rowLock, pc, txn, batch, pending, job, result, seen>>

Next ==
  \/ Tick
  \/ \E w \in Workers : \/ Fetch(w) \/ BeginUpsert(w) \/ LoadAndPlan(w)
                        \/ UpsertBatch(w) \/ CommitUpsert(w)
                        \/ BeginFinalize(w) \/ Finalize(w) \/ CommitFinalize(w)
  \/ \E d \in Writers : BeginDirect(d) \/ DirectWrite(d) \/ DirectReceipt(d) \/ CommitDirect(d)
  \/ \E b \in Builders : BuildLock(b) \/ BuildFuture(b) \/ BuildRead(b) \/ BuildFinish(b)
  \/ \E a \in Clients : Rollback(a)

Spec == Init /\ [][Next]_vars

-----------------------------------------------------------------------------
(* Properties.                                                             *)

\* A receipt, committed or still in flight, names a version whose writing
\* transaction has already committed: available_at is never earlier than the
\* moment other sessions could first read the version (the creator_xid check
\* of stamp_bar_version_availability).
ReceiptAfterCommit ==
  \A r \in receipts \cup UNION {newRcpts[a] : a \in Clients} :
    \E v \in Versions : Names(r, v)

\* No two versions of a bar share a recorded_at, and the current bar is the
\* newest of its versions, so a receipt's primary key names one version and
\* the version_rank = 1 of the point-in-time read is unambiguous
\* (version_bar_write's GREATEST(clock, OLD.recorded_at + 1 microsecond)).
VersionOrder ==
  \A u, v \in Versions : u.key = v.key =>
    /\ u.rec = v.rec => u = v
    /\ bars[u.key] # NoBar /\ u.rec <= bars[u.key].rec

\* Evidence only moves forward: a revision's incoming version was fetched
\* strictly later than the one it replaces, although a worker plans against
\* rows it read before a direct writer could insert (the trigger's re-check).
FreshnessOrder == \A r \in revisions : r.prev.fetched < r.next.fetched

\* Both orders: the recording times that snapshots rank by and the evidence the
\* versions carry move forward together.
HistoryOrdered == VersionOrder /\ FreshnessOrder

\* The history that snapshots rest on: ordered versions, and receipts only for
\* those that everybody can read.
HistorySound == HistoryOrdered /\ ReceiptAfterCommit

\* What a completed build read at a cutoff is what every later read at that
\* cutoff returns, whatever is upserted, revised or receipted in between: the
\* lane lock keeps receipts with an earlier available_at from committing late.
PointInTimeStable ==
  \A c \in Cutoffs : seen[c] # NoRows => PointInTime(c) = seen[c]

\* A build never finds a sealed snapshot it cannot reproduce, and never reads
\* rows that violate the pinned availability order (SnapshotSemanticConflict
\* and SnapshotAvailabilityError after the cutoff check are unreachable).
BuildNeverDisputed == \A b \in Builders : result[b] \notin {"conflict", "untrusted"}

\* A deferred cutoff stays deferred: the retry that keeps the frozen cutoff
\* can never find more input than the build that gave up.
DeferredIsFinal ==
  \A c \in Cutoffs : seen[c] # NoRows /\ TooShort(c, seen[c]) => snap[c] = NoRows

\* Builds of one cutoff never contradict each other, whether they seal or give up.
BuildsAgree == BuildNeverDisputed /\ DeferredIsFinal

\* The history tables only grow: no step removes or rewrites a version, a
\* receipt or a sealed snapshot (the append-only and key-immutability triggers).
HistoryAppendOnly ==
  [][ /\ Versions \subseteq Versions'
      /\ receipts \subseteq receipts'
      /\ \A c \in Cutoffs : snap[c] # NoRows => snap'[c] = snap[c] ]_<<store, snap>>

\* A finalizing transaction leaves no version that any worker committed
\* without a receipt, including those of workers that died between their two
\* transactions (the lane-wide scope of finalize_bar_version_availability).
FinalizeRepairsLane ==
  [][ \A w \in Workers : pc[w] = "stamped" /\ CommitFinalize(w) =>
        \A v \in Versions' : v.xid[1] \in Workers => \E r \in receipts' : Names(r, v) ]_vars

-----------------------------------------------------------------------------
(* The inductive invariant behind the theorems of BarStoreProofs.          *)

\* Rows of one statement have distinct keys (_dedupe_rows).
OneRowPerKey(rows) == \A p, q \in rows : p.key = q.key => p = q

BatchInv == \A w \in Workers : OneRowPerKey(batch[w])

\* Committed bars sit under their own key, on top of their history.
HistoryInv ==
  /\ \A k \in Keys : bars[k] # NoBar => bars[k].key = k
  /\ \A r \in revisions : r.prev.key = r.next.key
  /\ VersionOrder

\* A version is newer than the committed bar of its key.
AboveCommitted(v) == bars[v.key] # NoBar => bars[v.key].rec < v.rec

\* What client a has written is protected by row locks, carries a's
\* transaction id, and extends the committed history of its keys.
PendingBarsInv(a) ==
  \A k \in Keys : newBars[a][k] # NoBar =>
    /\ rowLock[k] = a
    /\ newBars[a][k].key = k
    /\ newBars[a][k].xid = MyXid(a)
    /\ AboveCommitted(newBars[a][k])
    /\ bars[k] # NoBar => \E r \in newRevs[a] : r.prev = bars[k]

PendingRevsInv(a) ==
  \A r \in newRevs[a] : LET k == r.next.key IN
    /\ newBars[a][k] # NoBar
    /\ r.prev.key = k
    /\ r.next.xid = MyXid(a)
    /\ AboveCommitted(r.next)
    /\ r.prev = bars[k] \/ (r.prev.xid = MyXid(a) /\ AboveCommitted(r.prev))
    /\ r.prev.rec < r.next.rec /\ r.next.rec <= newBars[a][k].rec
    /\ r.prev.fetched < r.next.fetched

PendingUnique(a) ==
  \A u, v \in Uncommitted(a) : u.key = v.key /\ u.rec = v.rec => u = v

PendingInv == \A a \in Clients :
  PendingBarsInv(a) /\ PendingRevsInv(a) /\ PendingUnique(a)

\* Outside its write phases a client has nothing uncommitted, and uncommitted
\* receipts are only ever held under the lane lock.
PhaseInv == \A a \in Clients :
  /\ pc[a] \notin {"written", "stamped", "writing"} =>
       newBars[a] = NoWrites /\ newRevs[a] = {} /\ newRcpts[a] = {}
  /\ newRcpts[a] # {} => fence = a
  /\ pc[a] = "finalizing" => fence = a
  /\ a \in Builders /\ pc[a] \in {"locked", "read"} => fence = a /\ job[a].cutoff \in Cutoffs

\* The rows a builder holds are still what its cutoff would return.
ReadInv == \A b \in Builders : pc[b] = "read" =>
  /\ job[b].cutoff <= job[b].now /\ job[b].now <= clock
  /\ job[b].rows = PointInTime(job[b].cutoff)

\* A cutoff some build has completed at lies in the past, and no receipt in
\* flight can still become visible at it.
SeenInv == \A c \in Cutoffs : seen[c] # NoRows =>
  /\ c < clock
  /\ \A a \in Clients : \A r \in newRcpts[a] : c < r.avail

IInv ==
  /\ TypeOK /\ BatchInv /\ HistoryInv /\ PendingInv /\ PhaseInv
  /\ ReceiptAfterCommit /\ FreshnessOrder /\ ReadInv /\ SeenInv /\ PointInTimeStable

\* Every version and receipt, stored or in flight, keeps the pinned order of
\* its timestamps, so the rows of a point-in-time read are trusted.
TrustInv ==
  /\ \A v \in Versions \cup UNION {Uncommitted(a) : a \in Clients} : ConstraintsHold(v)
  /\ \A r \in receipts \cup UNION {newRcpts[a] : a \in Clients} : r.rec <= r.avail

\* A sealed snapshot is the suffix of what the first build at its cutoff read.
SealInv == \A c \in Cutoffs : snap[c] # NoRows =>
  seen[c] # NoRows /\ snap[c] = Suffix(c, seen[c]) /\ ~ TooShort(c, seen[c])

\* A worker holds the lane lock throughout each of its two transactions.
LaneInv == \A w \in Workers : pc[w] \notin {"idle", "fetched", "committed"} => fence = w

\* A worker that has stamped receipts leaves no worker's version without one,
\* and adds no version of its own.
RepairInv == \A w \in Workers : pc[w] = "stamped" =>
  /\ newBars[w] = NoWrites /\ newRevs[w] = {}
  /\ \A v \in Versions : v.xid[1] \in Workers => Receipted(w, v)
=============================================================================
