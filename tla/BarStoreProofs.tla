--------------------------- MODULE BarStoreProofs ---------------------------
(***************************************************************************)
(* Proofs about BarStore, for any number of clients, sessions, values and  *)
(* cutoffs, and for any bounds.                                            *)
(***************************************************************************)
EXTENDS BarStore, TLAPS

\* The three kinds of client do not overlap.
LEMMA ClientKinds ==
  Workers \subseteq Clients /\ Writers \subseteq Clients /\ Builders \subseteq Clients
BY DEF Clients

\* What the joins over bars and bars_revisions return are stored versions.
LEMMA VersionsTyped ==
  ASSUME TypeOK
  PROVE  /\ Versions \subseteq Version
         /\ \A a \in Clients : Uncommitted(a) \subseteq Version
         /\ \A a \in Clients, k \in Keys : BarSeenBy(a, k) \in Version \cup {NoBar}
         /\ \A a \in Clients : MyXid(a) \in Xid
<1>1. Versions \subseteq Version
  BY DEF TypeOK, Versions, VersionsIn, Revision
<1>2. \A a \in Clients : Uncommitted(a) \subseteq Version
  BY DEF TypeOK, Uncommitted, VersionsIn, Revision
<1>3. \A a \in Clients, k \in Keys : BarSeenBy(a, k) \in Version \cup {NoBar}
  BY DEF TypeOK, BarSeenBy
<1>4. \A a \in Clients : MyXid(a) \in Xid
  BY DEF TypeOK, MyXid, Xid
<1> QED BY <1>1, <1>2, <1>3, <1>4

\* The trigger stores a well-formed version, recorded after the one it replaces.
LEMMA StoredTyped ==
  ASSUME TypeOK, NEW a \in Clients, NEW row \in Row
  PROVE  /\ Stored(a, row) \in Version
         /\ Stored(a, row).key = row.key
         /\ Stored(a, row).fetched = row.fetched
         /\ Stored(a, row).xid = MyXid(a)
         /\ BarSeenBy(a, row.key) # NoBar => BarSeenBy(a, row.key).rec < Stored(a, row).rec
<1>1. row.key \in Keys /\ row.val \in Vals /\ row.fetched \in Int
  BY DEF Row
<1>2. BarSeenBy(a, row.key) \in Version \cup {NoBar} /\ MyXid(a) \in Xid
  BY <1>1, VersionsTyped
<1>3. clock \in Int
  BY DEF TypeOK
<1>4. BarSeenBy(a, row.key) # NoBar => BarSeenBy(a, row.key).rec \in Int
  BY <1>2 DEF Version
<1>5. RecordedAt(BarSeenBy(a, row.key)) \in Int
  BY <1>3, <1>4 DEF RecordedAt
<1>6. BarSeenBy(a, row.key) # NoBar => BarSeenBy(a, row.key).rec < RecordedAt(BarSeenBy(a, row.key))
  BY <1>3, <1>4 DEF RecordedAt
<1> QED BY <1>1, <1>2, <1>5, <1>6 DEF Stored, Version

\* A write statement keeps the uncommitted tables well formed.
LEMMA WriteTyped ==
  ASSUME TypeOK, NEW a \in Clients, NEW rows \in SUBSET Row, WriteBars(a, rows)
  PROVE  /\ newBars' \in [Clients -> [Keys -> Version \cup {NoBar}]]
         /\ newRevs' \in [Clients -> SUBSET Revision]
<1> DEFINE changed == {row \in rows : ~ Unchanged(BarSeenBy(a, row.key), row)}
           updated == {row \in changed : BarSeenBy(a, row.key) # NoBar}
           revs == {[prev |-> BarSeenBy(a, row.key), next |-> Stored(a, row)] : row \in updated}
           nb == [k \in Keys |-> IF \E row \in changed : row.key = k
                                 THEN Stored(a, CHOOSE row \in changed : row.key = k)
                                 ELSE newBars[a][k]]
<1>1. newBars' = [newBars EXCEPT ![a] = nb] /\ newRevs' = [newRevs EXCEPT ![a] = newRevs[a] \cup revs]
  BY DEF WriteBars
<1>2. \A row \in rows : Stored(a, row) \in Version
  BY StoredTyped
<1>3. ASSUME NEW row \in updated
      PROVE  [prev |-> BarSeenBy(a, row.key), next |-> Stored(a, row)] \in Revision
  BY <1>2, <1>3, VersionsTyped DEF Revision, Row
<1>4. ASSUME NEW k \in Keys PROVE nb[k] \in Version \cup {NoBar}
  <2>1. CASE \E row \in changed : row.key = k
    <3>1. (CHOOSE row \in changed : row.key = k) \in changed
      BY <2>1
    <3> QED BY <2>1, <3>1, <1>2
  <2>2. CASE ~ \E row \in changed : row.key = k
    BY <2>2 DEF TypeOK
  <2> QED BY <2>1, <2>2
<1>5. nb \in [Keys -> Version \cup {NoBar}]
  BY <1>4
<1>6. revs \subseteq Revision
  BY <1>3
<1> HIDE DEF nb, revs
<1> QED BY <1>1, <1>5, <1>6 DEF TypeOK

\* The point-in-time read returns well-formed rows.
LEMMA PointInTimeTyped ==
  ASSUME TypeOK, NEW c PROVE PointInTime(c) \in SUBSET PitRow
<1>1. Versions \subseteq Version
  BY VersionsTyped
<1>2. {r.avail : r \in receipts} \subseteq Int
  BY DEF TypeOK, Receipt
<1>3. Finalized(c) \subseteq [ver: Versions, avail: {r.avail : r \in receipts}]
  BY DEF Finalized
<1> QED BY <1>1, <1>2, <1>3 DEF PointInTime, PitRow

\* Ending and publishing a transaction keep the tables well formed.
LEMMA EndTyped ==
  ASSUME TypeOK, NEW a \in Clients, EndTransaction(a)
  PROVE  /\ fence' \in Clients \cup {NoClient}
         /\ rowLock' \in [Keys -> Clients \cup {NoClient}]
         /\ newBars' \in [Clients -> [Keys -> Version \cup {NoBar}]]
         /\ newRevs' \in [Clients -> SUBSET Revision]
         /\ newRcpts' \in [Clients -> SUBSET Receipt]
BY DEF TypeOK, EndTransaction, NoWrites

\* Publishing a transaction keeps the committed tables well formed.
LEMMA PublishTyped ==
  ASSUME TypeOK, NEW a \in Clients, PublishWrites(a)
  PROVE  /\ bars' \in [Keys -> Version \cup {NoBar}]
         /\ revisions' \subseteq Revision
         /\ receipts' \subseteq Receipt
<1>1. \A k \in Keys : BarSeenBy(a, k) \in Version \cup {NoBar}
  BY VersionsTyped
<1> QED BY <1>1 DEF TypeOK, PublishWrites

\* Stamping receipts keeps the uncommitted receipts well formed.
LEMMA StampTyped ==
  ASSUME TypeOK, NEW a \in Clients, NEW V \in SUBSET Version, StampReceipts(a, V)
  PROVE  newRcpts' \in [Clients -> SUBSET Receipt]
<1>1. clock \in Int
  BY DEF TypeOK
<1>2. {[key |-> v.key, rec |-> v.rec, avail |-> clock] : v \in V} \subseteq Receipt
  BY <1>1 DEF Receipt, Version
<1> QED BY <1>2 DEF TypeOK, StampReceipts

\* Every step keeps every variable in its type.
LEMMA TypeStep ==
  ASSUME TypeOK, [Next]_vars PROVE TypeOK'
<1> USE DEF store, pending, Goto, BeginTxn
<1>1. CASE Tick
  BY <1>1 DEF Tick, TypeOK
<1>2. ASSUME NEW w \in Workers, Fetch(w) PROVE TypeOK'
  <2>1. PICK K \in SUBSET Keys \ {{}} :
          \E val \in [K -> Vals], at \in [K -> (clock - HostSkew)..(clock + HostSkew)] :
            batch' = [batch EXCEPT ![w] = {[key |-> k, val |-> val[k], fetched |-> at[k]] : k \in K}]
    BY <1>2 DEF Fetch
  <2>f. PICK val \in [K -> Vals], at \in [K -> (clock - HostSkew)..(clock + HostSkew)] :
          batch' = [batch EXCEPT ![w] = {[key |-> k, val |-> val[k], fetched |-> at[k]] : k \in K}]
    BY <2>1
  <2>2. \A k \in K : at[k] \in Int
    BY BoundsAssumption DEF TypeOK
  <2>3. {[key |-> k, val |-> val[k], fetched |-> at[k]] : k \in K} \subseteq Row
    BY <2>2 DEF Row
  <2>4. batch' \in [Workers -> SUBSET Row]
    BY <2>f, <2>3 DEF TypeOK
  <2> QED BY <1>2, <2>4, ClientKinds DEF Fetch, TypeOK, Steps
<1>3. ASSUME NEW w \in Workers, BeginUpsert(w) PROVE TypeOK'
  BY <1>3, ClientKinds DEF BeginUpsert, TypeOK, Steps
<1>4. ASSUME NEW w \in Workers, LoadAndPlan(w) PROVE TypeOK'
  BY <1>4, ClientKinds DEF LoadAndPlan, LockRows, TypeOK, Steps
<1>5. ASSUME NEW w \in Workers, UpsertBatch(w) PROVE TypeOK'
  <2>1. batch[w] \in SUBSET Row /\ w \in Clients
    BY ClientKinds DEF TypeOK
  <2>2. /\ newBars' \in [Clients -> [Keys -> Version \cup {NoBar}]]
        /\ newRevs' \in [Clients -> SUBSET Revision]
    BY <1>5, <2>1, WriteTyped DEF UpsertBatch
  <2> QED BY <1>5, <2>1, <2>2 DEF UpsertBatch, LockRows, TypeOK, Steps
<1>6. ASSUME NEW w \in Workers, CommitUpsert(w) PROVE TypeOK'
  <2>1. w \in Clients /\ PublishWrites(w) /\ EndTransaction(w)
    BY <1>6, ClientKinds DEF CommitUpsert
  <2> QED BY <1>6, <2>1, EndTyped, PublishTyped DEF CommitUpsert, TypeOK, Steps
<1>7. ASSUME NEW w \in Workers, BeginFinalize(w) PROVE TypeOK'
  BY <1>7, ClientKinds DEF BeginFinalize, TypeOK, Steps
<1>8. ASSUME NEW w \in Workers, Finalize(w) PROVE TypeOK'
  <2>1. w \in Clients /\ MissingReceipts(w) \in SUBSET Version
    BY ClientKinds, VersionsTyped DEF MissingReceipts
  <2>2. newRcpts' \in [Clients -> SUBSET Receipt]
    BY <1>8, <2>1, StampTyped DEF Finalize
  <2> QED BY <1>8, <2>1, <2>2 DEF Finalize, TypeOK, Steps
<1>9. ASSUME NEW w \in Workers, CommitFinalize(w) PROVE TypeOK'
  <2>1. w \in Clients /\ PublishWrites(w) /\ EndTransaction(w)
    BY <1>9, ClientKinds DEF CommitFinalize
  <2> QED BY <1>9, <2>1, EndTyped, PublishTyped DEF CommitFinalize, TypeOK, Steps
<1>10. ASSUME NEW d \in Writers, BeginDirect(d) PROVE TypeOK'
  BY <1>10, ClientKinds DEF BeginDirect, TypeOK, Steps
<1>11. ASSUME NEW d \in Writers, DirectWrite(d) PROVE TypeOK'
  <2>1. PICK k \in Keys, v \in Vals, t \in (clock - HostSkew)..clock :
          /\ WriteBars(d, {[key |-> k, val |-> v, fetched |-> t]})
          /\ LockRows(d, {k})
    BY <1>11 DEF DirectWrite
  <2>2. t \in Int /\ d \in Clients
    BY ClientKinds, BoundsAssumption DEF TypeOK
  <2>3. {[key |-> k, val |-> v, fetched |-> t]} \in SUBSET Row
    BY <2>2 DEF Row
  <2>4. /\ newBars' \in [Clients -> [Keys -> Version \cup {NoBar}]]
        /\ newRevs' \in [Clients -> SUBSET Revision]
    BY <2>1, <2>2, <2>3, WriteTyped
  <2>5. rowLock' \in [Keys -> Clients \cup {NoClient}]
    BY <2>1, <2>2 DEF LockRows, TypeOK
  <2> QED BY <1>11, <2>4, <2>5 DEF DirectWrite, TypeOK
<1>12. ASSUME NEW d \in Writers, DirectReceipt(d) PROVE TypeOK'
  <2>1. PICK v \in Versions \cup Uncommitted(d) : StampReceipts(d, {v})
    BY <1>12 DEF DirectReceipt
  <2>2. d \in Clients /\ {v} \in SUBSET Version
    BY ClientKinds, VersionsTyped
  <2>3. newRcpts' \in [Clients -> SUBSET Receipt]
    BY <2>1, <2>2, StampTyped
  <2> QED BY <1>12, <2>2, <2>3 DEF DirectReceipt, TypeOK
<1>13. ASSUME NEW d \in Writers, CommitDirect(d) PROVE TypeOK'
  <2>1. d \in Clients /\ PublishWrites(d) /\ EndTransaction(d)
    BY <1>13, ClientKinds DEF CommitDirect
  <2> QED BY <1>13, <2>1, EndTyped, PublishTyped DEF CommitDirect, TypeOK, Steps
<1>14. ASSUME NEW b \in Builders, BuildLock(b) PROVE TypeOK'
  <2>1. PICK c \in Cutoffs : job' = [job EXCEPT ![b] = [cutoff |-> c, now |-> 0, rows |-> {}]]
    BY <1>14 DEF BuildLock
  <2>2. job' \in [Builders -> Job]
    BY <2>1, BoundsAssumption DEF TypeOK, Job
  <2> QED BY <1>14, <2>2, ClientKinds DEF BuildLock, TypeOK, Steps, Results
<1>15. ASSUME NEW b \in Builders, BuildFuture(b) PROVE TypeOK'
  <2>1. b \in Clients /\ EndTransaction(b)
    BY <1>15, ClientKinds DEF BuildFuture
  <2> QED BY <1>15, <2>1, EndTyped DEF BuildFuture, TypeOK, Steps, Results
<1>16. ASSUME NEW b \in Builders, BuildRead(b) PROVE TypeOK'
  <2>1. PointInTime(job[b].cutoff) \in SUBSET PitRow
    BY PointInTimeTyped
  <2>2. job' \in [Builders -> Job]
    BY <1>16, <2>1 DEF BuildRead, TypeOK, Job
  <2> QED BY <1>16, <2>2, ClientKinds DEF BuildRead, TypeOK, Steps
<1>17. ASSUME NEW b \in Builders, BuildFinish(b) PROVE TypeOK'
  <2>1. b \in Clients /\ EndTransaction(b)
    BY <1>17, ClientKinds DEF BuildFinish
  <2>2. job[b].rows \in SUBSET PitRow
    BY DEF TypeOK, Job
  <2>3. Suffix(job[b].cutoff, job[b].rows) \in SUBSET PitRow
    BY <2>2 DEF Suffix
  <2>4. snap' \in [Cutoffs -> (SUBSET PitRow) \cup {NoRows}]
    BY <1>17, <2>3 DEF BuildFinish, TypeOK
  <2>5. seen' \in [Cutoffs -> (SUBSET PitRow) \cup {NoRows}]
    BY <1>17, <2>2 DEF BuildFinish, TypeOK
  <2>6. Verdict(job[b].cutoff, job[b].rows) \in Results
    BY DEF Verdict, Results
  <2>7. job' \in [Builders -> Job] /\ result' \in [Builders -> Results]
    BY <1>17, <2>6 DEF BuildFinish, TypeOK, NoJob, Job
  <2> QED BY <1>17, <2>1, <2>4, <2>5, <2>7, EndTyped DEF BuildFinish, TypeOK, Steps
<1>18. ASSUME NEW a \in Clients, Rollback(a) PROVE TypeOK'
  <2>1. EndTransaction(a)
    BY <1>18 DEF Rollback
  <2>2. batch' \in [Workers -> SUBSET Row] /\ job' \in [Builders -> Job]
    BY <1>18 DEF Rollback, TypeOK, NoJob, Job
  <2> QED BY <1>18, <2>1, <2>2, EndTyped DEF Rollback, TypeOK, Steps
<1>19. CASE UNCHANGED vars
  BY <1>19 DEF vars, TypeOK
<1> QED BY <1>1, <1>2, <1>3, <1>4, <1>5, <1>6, <1>7, <1>8, <1>9, <1>10, <1>11, <1>12, <1>13,
           <1>14, <1>15, <1>16, <1>17, <1>18, <1>19 DEF Next

\* The empty store is well typed.
LEMMA TypeInit == Init => TypeOK
BY DEF Init, TypeOK, NoWrites, NoJob, Job, Steps, Results

\* Type correctness of the bar store, for every value of the constants.
THEOREM TypeCorrect == Spec => []TypeOK
<1>1. TypeOK /\ [Next]_vars => TypeOK'
  BY TypeStep
<1> QED BY <1>1, TypeInit, PTL DEF Spec

-----------------------------------------------------------------------------
(* What one transaction does to the history.                               *)

\* An uncommitted version is the committed bar it will replace, or a newer one
\* written by the same transaction.
LEMMA UncommittedBelow ==
  ASSUME TypeOK, PendingInv, NEW a \in Clients, NEW v \in Uncommitted(a)
  PROVE  /\ v \in Version /\ v.key \in Keys
         /\ newBars[a][v.key] \in Version
         /\ v.rec <= newBars[a][v.key].rec
         /\ rowLock[v.key] = a
         /\ v = bars[v.key] \/ (v.xid = MyXid(a) /\ AboveCommitted(v))
<1>1. v \in Version
  BY VersionsTyped
<1>2. \A k \in Keys : newBars[a][k] \in Version \cup {NoBar}
  BY DEF TypeOK
<1>3. \A r \in newRevs[a] : r.prev \in Version /\ r.next \in Version
  BY DEF TypeOK, Revision
<1>4. PendingBarsInv(a) /\ PendingRevsInv(a)
  BY DEF PendingInv
<1>5. CASE \E k \in Keys : newBars[a][k] # NoBar /\ v = newBars[a][k]
  BY <1>1, <1>2, <1>4, <1>5 DEF PendingBarsInv, Version
<1>6. CASE \E r \in newRevs[a] : v = r.next
  BY <1>1, <1>2, <1>3, <1>4, <1>6 DEF PendingBarsInv, PendingRevsInv, Version
<1>7. CASE \E r \in newRevs[a] : v = r.prev
  <2>1. PICK r \in newRevs[a] : v = r.prev
    BY <1>7
  <2>2. r.next.key = v.key /\ r.next.key \in Keys
    BY <1>3, <1>4, <2>1 DEF PendingRevsInv, Version
  <2>3. newBars[a][v.key] \in Version /\ rowLock[v.key] = a
    BY <1>2, <1>4, <2>1, <2>2 DEF PendingRevsInv, PendingBarsInv
  <2>4. v.rec < r.next.rec /\ r.next.rec <= newBars[a][v.key].rec
    BY <1>4, <2>1, <2>2 DEF PendingRevsInv
  <2>5. v.rec \in Int /\ r.next.rec \in Int /\ newBars[a][v.key].rec \in Int
    BY <1>1, <1>3, <2>1, <2>3 DEF Version
  <2>6. v = bars[v.key] \/ (v.xid = MyXid(a) /\ AboveCommitted(v))
    BY <1>4, <2>1, <2>2 DEF PendingRevsInv
  <2> QED BY <1>1, <2>2, <2>3, <2>4, <2>5, <2>6
<1> QED BY <1>5, <1>6, <1>7 DEF Uncommitted, VersionsIn

\* The effect of one write statement on the writer's uncommitted tables.
LEMMA WriteEffect ==
  ASSUME TypeOK, NEW a \in Clients, NEW rows \in SUBSET Row, OneRowPerKey(rows),
         Accepted(a, rows), WriteBars(a, rows)
  PROVE  /\ \A c \in Clients \ {a} : newBars'[c] = newBars[c] /\ newRevs'[c] = newRevs[c]
         /\ \A k \in Keys :
              \/ newBars'[a][k] = newBars[a][k]
              \/ \E row \in rows : row.key = k /\ newBars'[a][k] = Stored(a, row)
         /\ newRevs[a] \subseteq newRevs'[a]
         /\ \A r \in newRevs'[a] : r \in newRevs[a] \/
              \E row \in rows :
                /\ BarSeenBy(a, row.key) # NoBar
                /\ r = [prev |-> BarSeenBy(a, row.key), next |-> Stored(a, row)]
                /\ newBars'[a][row.key] = Stored(a, row)
                /\ BarSeenBy(a, row.key).fetched < row.fetched
         /\ \A row \in rows : newBars'[a][row.key] = newBars[a][row.key] \/
              /\ newBars'[a][row.key] = Stored(a, row)
              /\ BarSeenBy(a, row.key) # NoBar =>
                   [prev |-> BarSeenBy(a, row.key), next |-> Stored(a, row)] \in newRevs'[a]
<1> DEFINE changed == {row \in rows : ~ Unchanged(BarSeenBy(a, row.key), row)}
           updated == {row \in changed : BarSeenBy(a, row.key) # NoBar}
           revs == {[prev |-> BarSeenBy(a, row.key), next |-> Stored(a, row)] : row \in updated}
           nb == [k \in Keys |-> IF \E row \in changed : row.key = k
                                 THEN Stored(a, CHOOSE row \in changed : row.key = k)
                                 ELSE newBars[a][k]]
<1>1. newBars' = [newBars EXCEPT ![a] = nb] /\ newRevs' = [newRevs EXCEPT ![a] = newRevs[a] \cup revs]
  BY DEF WriteBars
<1>2. newBars'[a] = nb /\ newRevs'[a] = newRevs[a] \cup revs
  BY <1>1 DEF TypeOK
<1>3. \A c \in Clients \ {a} : newBars'[c] = newBars[c] /\ newRevs'[c] = newRevs[c]
  BY <1>1 DEF TypeOK
<1>4. \A row \in rows : row.key \in Keys /\ row.fetched \in Int
  BY DEF Row
<1>5. ASSUME NEW row \in changed PROVE nb[row.key] = Stored(a, row)
  <2>1. (CHOOSE q \in changed : q.key = row.key) \in changed
    BY <1>5
  <2>2. (CHOOSE q \in changed : q.key = row.key).key = row.key
    BY <1>5
  <2>3. (CHOOSE q \in changed : q.key = row.key) = row
    BY <2>1, <2>2, <1>5 DEF OneRowPerKey
  <2> QED BY <1>4, <1>5, <2>3
<1>6. ASSUME NEW k \in Keys, ~ \E row \in changed : row.key = k PROVE nb[k] = newBars[a][k]
  BY <1>6
<1>7. ASSUME NEW row \in updated
      PROVE  BarSeenBy(a, row.key).fetched < row.fetched
  <2>1. ~ NotNewer(BarSeenBy(a, row.key), row)
    BY <1>7 DEF Accepted
  <2>2. BarSeenBy(a, row.key) \in Version
    BY <1>4, <1>7, VersionsTyped
  <2>3. BarSeenBy(a, row.key).fetched \in Int /\ row.fetched \in Int
    BY <1>4, <1>7, <2>2 DEF Version
  <2> QED BY <1>7, <2>1, <2>3 DEF NotNewer, Unchanged
<1>8. \A row \in rows : row \in changed \/ nb[row.key] = newBars[a][row.key]
  <2> TAKE row \in rows
  <2>1. CASE row \in changed
    BY <2>1
  <2>2. CASE row \notin changed
    <3>1. ~ \E q \in changed : q.key = row.key
      BY <2>2 DEF OneRowPerKey
    <3> QED BY <1>4, <1>6, <3>1
  <2> QED BY <2>1, <2>2
<1>9. \A row \in changed : BarSeenBy(a, row.key) # NoBar =>
         [prev |-> BarSeenBy(a, row.key), next |-> Stored(a, row)] \in revs
  OBVIOUS
<1>10. \A r \in revs : \E row \in updated :
          r = [prev |-> BarSeenBy(a, row.key), next |-> Stored(a, row)]
  OBVIOUS
<1>11. \A k \in Keys : nb[k] = newBars[a][k] \/ \E row \in changed : row.key = k
  BY <1>6
<1>12. changed \subseteq rows /\ updated \subseteq changed /\ \A row \in updated : BarSeenBy(a, row.key) # NoBar
  OBVIOUS
<1> HIDE DEF changed, updated, revs, nb
<1>13. \A k \in Keys : \/ nb[k] = newBars[a][k]
                       \/ \E row \in rows : row.key = k /\ nb[k] = Stored(a, row)
  BY <1>5, <1>11, <1>12
<1>14. \A r \in revs : \E row \in rows :
          /\ BarSeenBy(a, row.key) # NoBar
          /\ r = [prev |-> BarSeenBy(a, row.key), next |-> Stored(a, row)]
          /\ nb[row.key] = Stored(a, row)
          /\ BarSeenBy(a, row.key).fetched < row.fetched
  BY <1>5, <1>7, <1>10, <1>12
<1>15. \A row \in rows : nb[row.key] = newBars[a][row.key] \/
              /\ nb[row.key] = Stored(a, row)
              /\ BarSeenBy(a, row.key) # NoBar =>
                   [prev |-> BarSeenBy(a, row.key), next |-> Stored(a, row)] \in newRevs[a] \cup revs
  BY <1>5, <1>8, <1>9
<1> QED BY <1>2, <1>3, <1>13, <1>14, <1>15

\* A client whose rows no other statement touches keeps its part of PendingInv.
LEMMA PendingFrame ==
  ASSUME NEW c \in Clients, PendingBarsInv(c), PendingRevsInv(c), PendingUnique(c),
         newBars'[c] = newBars[c], newRevs'[c] = newRevs[c], txn'[c] = txn[c],
         \A r \in newRevs[c] : r.next.key \in Keys,
         \A k \in Keys : newBars[c][k] # NoBar =>
            rowLock'[k] = c /\ bars'[k] = bars[k]
  PROVE  PendingBarsInv(c)' /\ PendingRevsInv(c)' /\ PendingUnique(c)'
<1>1. MyXid(c)' = MyXid(c)
  BY DEF MyXid
<1>2. PendingBarsInv(c)'
  BY <1>1 DEF PendingBarsInv, AboveCommitted
<1>3. PendingRevsInv(c)'
  BY <1>1 DEF PendingRevsInv, AboveCommitted
<1>4. PendingUnique(c)'
  BY DEF PendingUnique, Uncommitted, VersionsIn
<1> QED BY <1>2, <1>3, <1>4

\* A write statement extends the writer's uncommitted history and disturbs
\* nobody else's.
LEMMA WritePending ==
  ASSUME TypeOK, PendingInv, HistoryInv,
         NEW a \in Clients, NEW rows \in SUBSET Row, OneRowPerKey(rows),
         Accepted(a, rows), WriteBars(a, rows),
         NEW K, K = {row.key : row \in rows}, RowsFreeFor(a, K), LockRows(a, K),
         UNCHANGED <<bars, txn>>
  PROVE  PendingInv'
<1> USE TypeOK
<1>k. \A row \in rows : row.key \in Keys /\ row.key \in K
  BY DEF Row
<1>l. \A k \in Keys : rowLock'[k] = IF k \in K THEN a ELSE rowLock[k]
  BY DEF LockRows
<1>1. ASSUME NEW c \in Clients, c # a
      PROVE  PendingBarsInv(c)' /\ PendingRevsInv(c)' /\ PendingUnique(c)'
  <2>1. newBars'[c] = newBars[c] /\ newRevs'[c] = newRevs[c]
    BY <1>1, WriteEffect
  <2>2. PendingBarsInv(c) /\ PendingRevsInv(c) /\ PendingUnique(c)
    BY DEF PendingInv
  <2>3. \A r \in newRevs[c] : r.next.key \in Keys
    BY DEF TypeOK, Revision, Version
  <2>4. ASSUME NEW k \in Keys, newBars[c][k] # NoBar PROVE rowLock'[k] = c
    <3>1. rowLock[k] = c
      BY <2>2, <2>4 DEF PendingBarsInv
    <3>2. k \notin K
      BY <1>1, <3>1, ClientsAssumption DEF RowsFreeFor
    <3> QED BY <1>l, <3>1, <3>2
  <2> QED BY <2>1, <2>2, <2>3, <2>4, PendingFrame
<1>2. PendingBarsInv(a) /\ PendingRevsInv(a) /\ PendingUnique(a)
  BY DEF PendingInv
<1>3. MyXid(a)' = MyXid(a)
  BY DEF MyXid
<1>4. \A row \in rows : /\ Stored(a, row) \in Version
                        /\ Stored(a, row).key = row.key
                        /\ Stored(a, row).fetched = row.fetched
                        /\ Stored(a, row).xid = MyXid(a)
                        /\ BarSeenBy(a, row.key) \in Version \cup {NoBar}
                        /\ BarSeenBy(a, row.key) # NoBar =>
                             BarSeenBy(a, row.key).rec < Stored(a, row).rec
  BY <1>k, StoredTyped, VersionsTyped
<1>5. NoBar \notin Version
  BY ClientsAssumption
<1>6. \A k \in Keys : bars[k] \in Version \cup {NoBar} /\ newBars[a][k] \in Version \cup {NoBar}
  BY DEF TypeOK
<1>7. \A k \in Keys : bars[k] # NoBar => bars[k].key = k
  BY DEF HistoryInv
\* The bar a statement replaces tops a's uncommitted history of its key.
<1>8. ASSUME NEW row \in rows, BarSeenBy(a, row.key) # NoBar
      PROVE  /\ BarSeenBy(a, row.key).key = row.key
             /\ \/ BarSeenBy(a, row.key) = bars[row.key] /\ newBars[a][row.key] = NoBar
                \/ /\ BarSeenBy(a, row.key) = newBars[a][row.key]
                   /\ BarSeenBy(a, row.key).xid = MyXid(a)
                   /\ AboveCommitted(BarSeenBy(a, row.key))
  BY <1>2, <1>7, <1>8, <1>k DEF BarSeenBy, PendingBarsInv
<1>9. ASSUME NEW row \in rows PROVE AboveCommitted(Stored(a, row))
  <2>1. SUFFICES ASSUME bars[row.key] # NoBar PROVE bars[row.key].rec < Stored(a, row).rec
    BY <1>4 DEF AboveCommitted
  <2>2. BarSeenBy(a, row.key) # NoBar
    BY <2>1 DEF BarSeenBy
  <2>3. bars[row.key].rec <= BarSeenBy(a, row.key).rec
    BY <1>4, <1>6, <1>8, <1>k, <2>1, <2>2 DEF AboveCommitted, Version
  <2>4. bars[row.key] \in Version /\ BarSeenBy(a, row.key) \in Version /\ Stored(a, row) \in Version
    BY <1>4, <1>6, <1>k, <2>1, <2>2
  <2> QED BY <1>4, <2>2, <2>3, <2>4 DEF Version
<1>10. PendingBarsInv(a)'
  <2>1. SUFFICES ASSUME NEW k \in Keys, newBars'[a][k] # NoBar
                 PROVE  /\ rowLock'[k] = a
                        /\ newBars'[a][k].key = k
                        /\ newBars'[a][k].xid = MyXid(a)
                        /\ bars[k] # NoBar => bars[k].rec < newBars'[a][k].rec
                        /\ bars[k] # NoBar => \E r \in newRevs'[a] : r.prev = bars[k]
    BY <1>3 DEF PendingBarsInv, AboveCommitted
  <2>2. newRevs[a] \subseteq newRevs'[a]
    BY WriteEffect
  <2>3. CASE newBars'[a][k] = newBars[a][k]
    BY <1>2, <1>l, <2>1, <2>2, <2>3 DEF PendingBarsInv, AboveCommitted
  <2>4. ASSUME newBars'[a][k] # newBars[a][k],
               NEW row \in rows, row.key = k, newBars'[a][k] = Stored(a, row)
        PROVE  /\ rowLock'[k] = a
               /\ newBars'[a][k].key = k
               /\ newBars'[a][k].xid = MyXid(a)
               /\ bars[k] # NoBar => bars[k].rec < newBars'[a][k].rec
               /\ bars[k] # NoBar => \E r \in newRevs'[a] : r.prev = bars[k]
    <3>1. rowLock'[k] = a
      BY <1>k, <1>l, <2>4
    <3>2. newBars'[a][k].key = k /\ newBars'[a][k].xid = MyXid(a)
      BY <1>4, <2>4
    <3>3. bars[k] # NoBar => bars[k].rec < newBars'[a][k].rec
      BY <1>4, <1>9, <2>4 DEF AboveCommitted
    <3>4. ASSUME bars[k] # NoBar PROVE \E r \in newRevs'[a] : r.prev = bars[k]
      <4>1. CASE newBars[a][k] # NoBar
        BY <1>2, <2>2, <3>4, <4>1 DEF PendingBarsInv
      <4>2. CASE newBars[a][k] = NoBar
        <5>1. BarSeenBy(a, row.key) = bars[k]
          BY <2>4, <4>2 DEF BarSeenBy
        <5>2. [prev |-> BarSeenBy(a, row.key), next |-> Stored(a, row)] \in newRevs'[a]
          BY <2>4, <3>4, <5>1, WriteEffect
        <5> QED BY <5>1, <5>2
      <4> QED BY <4>1, <4>2
    <3> QED BY <3>1, <3>2, <3>3, <3>4
  <2>5. newBars'[a][k] = newBars[a][k] \/ \E row \in rows : row.key = k /\ newBars'[a][k] = Stored(a, row)
    BY WriteEffect
  <2> QED BY <2>3, <2>4, <2>5
<1>11. PendingRevsInv(a)'
  <2>1. SUFFICES ASSUME NEW r \in newRevs'[a]
                 PROVE  /\ newBars'[a][r.next.key] # NoBar
                        /\ r.prev.key = r.next.key
                        /\ r.next.xid = MyXid(a)
                        /\ AboveCommitted(r.next)
                        /\ r.prev = bars[r.next.key] \/ (r.prev.xid = MyXid(a) /\ AboveCommitted(r.prev))
                        /\ r.prev.rec < r.next.rec /\ r.next.rec <= newBars'[a][r.next.key].rec
                        /\ r.prev.fetched < r.next.fetched
    BY <1>3 DEF PendingRevsInv, AboveCommitted
  <2>2. CASE r \in newRevs[a]
    <3> DEFINE k == r.next.key
    <3>1. k \in Keys /\ r.next \in Version
      BY <2>2 DEF TypeOK, Revision, Version
    <3>2. newBars[a][k] \in Version /\ r.next.rec <= newBars[a][k].rec
      BY <1>2, <1>6, <2>2, <3>1 DEF PendingRevsInv
    <3>3. newBars'[a][k] \in Version /\ newBars[a][k].rec <= newBars'[a][k].rec
      <4>1. CASE newBars'[a][k] = newBars[a][k]
        BY <3>2, <4>1 DEF Version
      <4>2. ASSUME NEW row \in rows, row.key = k, newBars'[a][k] = Stored(a, row)
            PROVE newBars'[a][k] \in Version /\ newBars[a][k].rec <= newBars'[a][k].rec
        <5>1. BarSeenBy(a, row.key) = newBars[a][k]
          BY <1>5, <3>2, <4>2 DEF BarSeenBy
        <5> QED BY <1>4, <1>5, <3>2, <4>2, <5>1 DEF Version
      <4> QED BY <3>1, <4>1, <4>2, WriteEffect
    <3>4. newBars'[a][k] # NoBar /\ r.next.rec <= newBars'[a][k].rec
      BY <1>5, <3>1, <3>2, <3>3 DEF Version
    <3> QED BY <1>2, <2>2, <3>4 DEF PendingRevsInv
  <2>3. ASSUME NEW row \in rows,
               BarSeenBy(a, row.key) # NoBar,
               r = [prev |-> BarSeenBy(a, row.key), next |-> Stored(a, row)],
               newBars'[a][row.key] = Stored(a, row),
               BarSeenBy(a, row.key).fetched < row.fetched
        PROVE  /\ newBars'[a][r.next.key] # NoBar
               /\ r.prev.key = r.next.key
               /\ r.next.xid = MyXid(a)
               /\ AboveCommitted(r.next)
               /\ r.prev = bars[r.next.key] \/ (r.prev.xid = MyXid(a) /\ AboveCommitted(r.prev))
               /\ r.prev.rec < r.next.rec /\ r.next.rec <= newBars'[a][r.next.key].rec
               /\ r.prev.fetched < r.next.fetched
    <3>1. r.next = Stored(a, row) /\ r.prev = BarSeenBy(a, row.key) /\ r.next.key = row.key
      BY <1>4, <2>3
    <3>2. newBars'[a][r.next.key] # NoBar /\ r.next.xid = MyXid(a) /\ AboveCommitted(r.next)
      BY <1>4, <1>5, <1>9, <2>3, <3>1
    <3>3. r.prev.key = r.next.key /\ (r.prev = bars[r.next.key] \/ (r.prev.xid = MyXid(a) /\ AboveCommitted(r.prev)))
      BY <1>8, <2>3, <3>1
    <3>4. r.prev.rec < r.next.rec /\ r.next.rec <= newBars'[a][r.next.key].rec
      BY <1>4, <2>3, <3>1 DEF Version
    <3> QED BY <1>4, <2>3, <3>1, <3>2, <3>3, <3>4
  <2> QED BY <2>2, <2>3, WriteEffect
<1>12. PendingUnique(a)'
  <2> DEFINE Fresh(u) == \E row \in rows : u = Stored(a, row)
             Base(u) == \E k \in Keys : newBars[a][k] = NoBar /\ u = bars[k] /\ u # NoBar
  <2>1. ASSUME NEW u \in Uncommitted(a)' PROVE u \in Uncommitted(a) \/ Fresh(u) \/ Base(u)
    <3>1. CASE \E k \in Keys : newBars'[a][k] # NoBar /\ u = newBars'[a][k]
      BY <3>1, WriteEffect DEF Uncommitted, VersionsIn
    <3>2. ASSUME NEW r \in newRevs'[a], u = r.prev \/ u = r.next
          PROVE  u \in Uncommitted(a) \/ Fresh(u) \/ Base(u)
      <4>1. CASE r \in newRevs[a]
        BY <3>2, <4>1 DEF Uncommitted, VersionsIn
      <4>2. ASSUME NEW row \in rows, BarSeenBy(a, row.key) # NoBar,
                   r = [prev |-> BarSeenBy(a, row.key), next |-> Stored(a, row)]
            PROVE  u \in Uncommitted(a) \/ Fresh(u) \/ Base(u)
        <5>1. u = BarSeenBy(a, row.key) \/ u = Stored(a, row)
          BY <3>2, <4>2
        <5>2. CASE u = BarSeenBy(a, row.key)
          BY <1>8, <1>k, <4>2, <5>2 DEF Uncommitted, VersionsIn
        <5> QED BY <5>1, <5>2
      <4> QED BY <4>1, <4>2, WriteEffect
    <3> QED BY <3>1, <3>2 DEF Uncommitted, VersionsIn
  <2>2. ASSUME NEW u, NEW v, Fresh(u), v \in Uncommitted(a) \/ Base(v), u.key = v.key
        PROVE  v.rec < u.rec
    <3>1. PICK row \in rows : u = Stored(a, row)
      BY <2>2
    <3>2. u.key = row.key /\ u \in Version
      BY <1>4, <3>1
    <3>3. CASE v \in Uncommitted(a)
      <4>1. v \in Version /\ newBars[a][v.key] \in Version /\ v.rec <= newBars[a][v.key].rec
        BY <3>3, UncommittedBelow
      <4>2. BarSeenBy(a, row.key) = newBars[a][v.key]
        BY <1>5, <2>2, <3>2, <4>1 DEF BarSeenBy
      <4>3. newBars[a][v.key].rec < u.rec
        BY <1>4, <1>5, <3>1, <4>1, <4>2
      <4> QED BY <3>2, <4>1, <4>3 DEF Version
    <3>4. CASE Base(v)
      <4>1. PICK k \in Keys : newBars[a][k] = NoBar /\ v = bars[k] /\ v # NoBar
        BY <3>4
      <4>2. k = row.key
        BY <1>7, <2>2, <3>2, <4>1
      <4>3. BarSeenBy(a, row.key) = v
        BY <4>1, <4>2 DEF BarSeenBy
      <4> QED BY <1>4, <3>1, <4>1, <4>3
    <3> QED BY <2>2, <3>3, <3>4
  <2>3. ASSUME NEW u, NEW v, Base(u), v \in Uncommitted(a) \/ Base(v), u.key = v.key
        PROVE  u = v
    <3>1. PICK k \in Keys : newBars[a][k] = NoBar /\ u = bars[k] /\ u # NoBar
      BY <2>3
    <3>2. u.key = k
      BY <1>7, <3>1
    <3>3. CASE v \in Uncommitted(a)
      BY <1>5, <2>3, <3>1, <3>2, <3>3, UncommittedBelow
    <3>4. CASE Base(v)
      BY <1>7, <2>3, <3>1, <3>2, <3>4
    <3> QED BY <2>3, <3>3, <3>4
  <2>4. ASSUME NEW u, NEW v, Fresh(u), Fresh(v), u.key = v.key PROVE u = v
    BY <1>4, <2>4 DEF OneRowPerKey
  <2>5. \A u : u \in Uncommitted(a) \/ Fresh(u) \/ Base(u) => u.rec \in Int
    BY <1>4, <1>6, VersionsTyped DEF Version
  <2> HIDE DEF Fresh, Base
  <2>6. ASSUME NEW u \in Uncommitted(a)', NEW v \in Uncommitted(a)', u.key = v.key, u.rec = v.rec
        PROVE  u = v
    <3>1. u.rec \in Int /\ v.rec \in Int
      BY <2>1, <2>5
    <3>2. ~ (u.rec < v.rec) /\ ~ (v.rec < u.rec)
      BY <2>6, <3>1
    <3>3. CASE u \in Uncommitted(a) /\ v \in Uncommitted(a)
      BY <1>2, <2>6, <3>3 DEF PendingUnique
    <3> QED BY <2>1, <2>2, <2>3, <2>4, <2>6, <3>2, <3>3
  <2> QED BY <2>6 DEF PendingUnique
<1> QED BY <1>1, <1>10, <1>11, <1>12 DEF PendingInv

-----------------------------------------------------------------------------
(* Commit: the committed history grows by exactly what was uncommitted.    *)

\* A commit adds exactly the versions its transaction wrote.
LEMMA CommitVersions ==
  ASSUME TypeOK, PendingInv, NEW a \in Clients, PublishWrites(a)
  PROVE  Versions' = Versions \cup Uncommitted(a)
<1>1. \A k \in Keys : bars'[k] = IF newBars[a][k] # NoBar THEN newBars[a][k] ELSE bars[k]
  BY DEF PublishWrites, BarSeenBy
<1>2. revisions' = revisions \cup newRevs[a]
  BY DEF PublishWrites
<1>3. PendingBarsInv(a)
  BY DEF PendingInv
<1>4. ASSUME NEW v \in Versions' PROVE v \in Versions \cup Uncommitted(a)
  BY <1>1, <1>2, <1>4 DEF Versions, Uncommitted, VersionsIn
<1>5. ASSUME NEW v \in Uncommitted(a) PROVE v \in Versions'
  <2>1. CASE \E k \in Keys : newBars[a][k] # NoBar /\ v = newBars[a][k]
    BY <1>1, <2>1 DEF Versions, VersionsIn
  <2>2. CASE \E r \in newRevs[a] : v = r.prev \/ v = r.next
    BY <1>2, <2>2 DEF Versions, VersionsIn
  <2> QED BY <1>5, <2>1, <2>2 DEF Uncommitted, VersionsIn
<1>6. ASSUME NEW v \in Versions PROVE v \in Versions'
  <2>1. CASE \E k \in Keys : bars[k] # NoBar /\ v = bars[k]
    <3>1. PICK k \in Keys : bars[k] # NoBar /\ v = bars[k]
      BY <2>1
    <3>2. CASE newBars[a][k] = NoBar
      BY <1>1, <3>1, <3>2 DEF Versions, VersionsIn
    <3>3. CASE newBars[a][k] # NoBar
      <4>1. PICK r \in newRevs[a] : r.prev = v
        BY <1>3, <3>1, <3>3 DEF PendingBarsInv
      <4> QED BY <1>2, <4>1 DEF Versions, VersionsIn
    <3> QED BY <3>2, <3>3
  <2>2. CASE \E r \in revisions : v = r.prev \/ v = r.next
    BY <1>2, <2>2 DEF Versions, VersionsIn
  <2> QED BY <1>6, <2>1, <2>2 DEF Versions, VersionsIn
<1> QED BY <1>4, <1>5, <1>6

\* A version the commit adds is newer than every committed version of its bar.
LEMMA CommitNewer ==
  ASSUME TypeOK, PendingInv, HistoryInv, NEW a \in Clients,
         NEW v \in Uncommitted(a), v \notin Versions,
         NEW u \in Versions, u.key = v.key
  PROVE  u.rec < v.rec
<1>1. v \in Version /\ u \in Version
  BY VersionsTyped
<1>2. bars[u.key] # NoBar /\ u.rec <= bars[u.key].rec
  BY DEF HistoryInv, VersionOrder
<1>3. v.key \in Keys /\ bars[v.key] \in Version \cup {NoBar}
  BY <1>1 DEF Version, TypeOK
<1>4. v # bars[v.key]
  BY <1>2, <1>3 DEF Versions, VersionsIn
<1>5. bars[v.key].rec < v.rec
  BY <1>2, <1>4, UncommittedBelow DEF AboveCommitted
<1> QED BY <1>1, <1>2, <1>3, <1>5 DEF Version

\* A commit keeps the versions of every bar ordered and uniquely recorded.
LEMMA CommitHistory ==
  ASSUME TypeOK, TypeOK', PendingInv, HistoryInv, FreshnessOrder, NEW a \in Clients, PublishWrites(a)
  PROVE  HistoryInv' /\ FreshnessOrder'
<1>1. \A k \in Keys : bars'[k] = IF newBars[a][k] # NoBar THEN newBars[a][k] ELSE bars[k]
  BY DEF PublishWrites, BarSeenBy
<1>2. revisions' = revisions \cup newRevs[a]
  BY DEF PublishWrites
<1>3. PendingBarsInv(a) /\ PendingRevsInv(a) /\ PendingUnique(a)
  BY DEF PendingInv
<1>4. Versions' = Versions \cup Uncommitted(a)
  BY CommitVersions
<1>5. \A k \in Keys : bars'[k] # NoBar => bars'[k].key = k
  BY <1>1, <1>3 DEF PendingBarsInv, HistoryInv
<1>6. \A r \in revisions' : r.prev.key = r.next.key
  BY <1>2, <1>3 DEF PendingRevsInv, HistoryInv
<1>7. FreshnessOrder'
  BY <1>2, <1>3 DEF PendingRevsInv, FreshnessOrder
<1>8. Versions \subseteq Version /\ Uncommitted(a) \subseteq Version
  BY VersionsTyped
<1>9. ASSUME NEW u \in Versions', NEW v \in Versions', u.key = v.key, u.rec = v.rec PROVE u = v
  <2>1. u.rec \in Int /\ v.rec \in Int
    BY <1>4, <1>8 DEF Version
  <2>2. ~ (u.rec < v.rec) /\ ~ (v.rec < u.rec)
    BY <1>9, <2>1
  <2>3. CASE u \in Versions /\ v \in Versions
    BY <1>9, <2>3 DEF HistoryInv, VersionOrder
  <2>4. CASE u \in Uncommitted(a) /\ v \in Uncommitted(a)
    BY <1>3, <1>9, <2>4 DEF PendingUnique
  <2>5. CASE u \in Versions /\ v \in Uncommitted(a) /\ v \notin Versions
    BY <1>9, <2>2, <2>5, CommitNewer
  <2>6. CASE v \in Versions /\ u \in Uncommitted(a) /\ u \notin Versions
    BY <1>9, <2>2, <2>6, CommitNewer
  <2> QED BY <1>4, <2>3, <2>4, <2>5, <2>6
<1>10. ASSUME NEW u \in Versions' PROVE bars'[u.key] # NoBar /\ u.rec <= bars'[u.key].rec
  <2>1. u \in Version /\ u.key \in Keys
    BY <1>4, <1>8 DEF Version
  <2>2. CASE u \in Uncommitted(a)
    <3>1. newBars[a][u.key] \in Version /\ u.rec <= newBars[a][u.key].rec
      BY <2>2, UncommittedBelow
    <3> QED BY <1>1, <2>1, <3>1, ClientsAssumption
  <2>3. CASE u \in Versions /\ newBars[a][u.key] = NoBar
    BY <1>1, <2>1, <2>3 DEF HistoryInv, VersionOrder
  <2>4. CASE u \in Versions /\ newBars[a][u.key] # NoBar
    <3>1. bars[u.key] # NoBar /\ u.rec <= bars[u.key].rec
      BY <2>4 DEF HistoryInv, VersionOrder
    <3>2. bars[u.key].rec < newBars[a][u.key].rec
      BY <1>3, <2>1, <2>4, <3>1 DEF PendingBarsInv, AboveCommitted
    <3>3. bars[u.key] \in Version /\ newBars[a][u.key] \in Version
      BY <2>1, <2>4, <3>1 DEF TypeOK
    <3> QED BY <1>1, <2>1, <2>4, <3>1, <3>2, <3>3 DEF Version
  <2> QED BY <1>4, <2>2, <2>3, <2>4
<1>11. VersionOrder'
  BY <1>9, <1>10 DEF VersionOrder
<1> QED BY <1>5, <1>6, <1>7, <1>11 DEF HistoryInv

\* Ending a transaction, by commit or rollback, leaves the others' work alone.
LEMMA EndPending ==
  ASSUME TypeOK, PendingInv, NEW a \in Clients, EndTransaction(a), txn' = txn,
         \A k \in Keys : rowLock[k] # a => bars'[k] = bars[k]
  PROVE  PendingInv'
<1>1. ASSUME NEW c \in Clients, c # a
      PROVE  PendingBarsInv(c)' /\ PendingRevsInv(c)' /\ PendingUnique(c)'
  <2>1. newBars'[c] = newBars[c] /\ newRevs'[c] = newRevs[c]
    BY <1>1 DEF EndTransaction, TypeOK
  <2>2. PendingBarsInv(c) /\ PendingRevsInv(c) /\ PendingUnique(c)
    BY DEF PendingInv
  <2>3. \A r \in newRevs[c] : r.next.key \in Keys
    BY DEF TypeOK, Revision, Version
  <2>4. ASSUME NEW k \in Keys, newBars[c][k] # NoBar PROVE rowLock'[k] = c /\ bars'[k] = bars[k]
    BY <1>1, <2>2, <2>4 DEF PendingBarsInv, EndTransaction
  <2> QED BY <2>1, <2>2, <2>3, <2>4, PendingFrame
<1>2. newBars'[a] = NoWrites /\ newRevs'[a] = {}
  BY DEF EndTransaction, TypeOK
<1>3. \A k \in Keys : newBars'[a][k] = NoBar
  BY <1>2 DEF NoWrites
<1>4. PendingBarsInv(a)' /\ PendingRevsInv(a)'
  BY <1>2, <1>3 DEF PendingBarsInv, PendingRevsInv
<1>5. Uncommitted(a)' = {}
  BY <1>2, <1>3 DEF Uncommitted, VersionsIn
<1>6. PendingUnique(a)'
  BY <1>5 DEF PendingUnique
<1> QED BY <1>1, <1>4, <1>6 DEF PendingInv

\* A commit leaves the uncommitted work of every client consistent.
LEMMA CommitPending ==
  ASSUME TypeOK, PendingInv, NEW a \in Clients, PublishWrites(a), EndTransaction(a), txn' = txn
  PROVE  PendingInv'
<1>1. ASSUME NEW k \in Keys, rowLock[k] # a PROVE bars'[k] = bars[k]
  BY <1>1 DEF PendingInv, PendingBarsInv, PublishWrites, BarSeenBy
<1> QED BY <1>1, EndPending

\* A receipt never names a version that has yet to be committed.
LEMMA ReceiptsNotForNew ==
  ASSUME TypeOK, PendingInv, HistoryInv, ReceiptAfterCommit, NEW a \in Clients,
         NEW v \in Uncommitted(a), v \notin Versions,
         NEW r \in receipts \cup newRcpts[a]
  PROVE  ~ Names(r, v)
<1>1. PICK u \in Versions : Names(r, u)
  BY DEF ReceiptAfterCommit
<1>2. SUFFICES ASSUME Names(r, v) PROVE FALSE
  OBVIOUS
<1>3. u.key = v.key /\ u.rec = v.rec
  BY <1>1, <1>2 DEF Names
<1>4. u.rec < v.rec
  BY <1>3, CommitNewer
<1>5. u.rec \in Int
  BY VersionsTyped DEF Version
<1> QED BY <1>3, <1>4, <1>5

\* The point-in-time read at c survives a commit whose receipts are all after c.
LEMMA CommitPointInTime ==
  ASSUME TypeOK, PendingInv, HistoryInv, ReceiptAfterCommit,
         NEW a \in Clients, PublishWrites(a), NEW c \in Int,
         \A r \in newRcpts[a] : c < r.avail
  PROVE  PointInTime(c)' = PointInTime(c)
<1>1. Versions' = Versions \cup Uncommitted(a) /\ receipts' = receipts \cup newRcpts[a]
  BY CommitVersions DEF PublishWrites
<1>2. \A r \in receipts \cup newRcpts[a] : r.avail \in Int
  BY DEF TypeOK, Receipt
<1> DEFINE Rcpt(x) == [key |-> x.ver.key, rec |-> x.ver.rec, avail |-> x.avail]
           Shown(x) == x.avail <= c /\ SessionClose[x.ver.key] <= c /\ x.ver.fetched <= c
<1>3. ASSUME NEW x, x \in Finalized(c)' PROVE x \in Finalized(c)
  <2>1. /\ x \in [ver: Versions', avail: {r.avail : r \in receipts'}]
        /\ Rcpt(x) \in receipts' /\ Shown(x)
    BY <1>3 DEF Finalized
  <2>2. Rcpt(x) \in receipts
    <3>1. SUFFICES ASSUME Rcpt(x) \in newRcpts[a] PROVE FALSE
      BY <1>1, <2>1
    <3>2. c < Rcpt(x).avail
      BY <3>1
    <3>3. c < x.avail /\ x.avail \in Int
      BY <1>2, <3>1, <3>2
    <3> QED BY <2>1, <3>3
  <2>3. x.ver \in Versions
    <3>1. SUFFICES ASSUME x.ver \in Uncommitted(a), x.ver \notin Versions PROVE FALSE
      BY <1>1, <2>1
    <3>2. Names(Rcpt(x), x.ver)
      BY DEF Names
    <3> QED BY <2>2, <3>1, <3>2, ReceiptsNotForNew
  <2>4. x.avail \in {r.avail : r \in receipts}
    <3>1. Rcpt(x).avail = x.avail
      OBVIOUS
    <3> QED BY <2>2, <3>1
  <2>5. x \in [ver: Versions, avail: {r.avail : r \in receipts}]
    BY <2>1, <2>3, <2>4
  <2> QED BY <2>1, <2>2, <2>5 DEF Finalized
<1>4. ASSUME NEW x, x \in Finalized(c) PROVE x \in Finalized(c)'
  <2>1. /\ x \in [ver: Versions, avail: {r.avail : r \in receipts}]
        /\ Rcpt(x) \in receipts /\ Shown(x)
    BY <1>4 DEF Finalized
  <2>2. x \in [ver: Versions', avail: {r.avail : r \in receipts'}] /\ Rcpt(x) \in receipts'
    BY <1>1, <2>1
  <2> QED BY <2>1, <2>2 DEF Finalized
<1>5. Finalized(c)' = Finalized(c)
  BY <1>3, <1>4
<1> QED BY <1>5 DEF PointInTime

\* The point-in-time read depends on the committed tables alone.
LEMMA StorePointInTime ==
  ASSUME UNCHANGED store, NEW c
  PROVE  PointInTime(c)' = PointInTime(c) /\ Versions' = Versions
BY DEF store, PointInTime, Finalized, Versions, VersionsIn

-----------------------------------------------------------------------------
(* The inductive step, one conjunct of the invariant at a time.            *)

\* The steps that change the committed tables, and the clients' commits.
Commits(a) ==
  /\ PublishWrites(a) /\ EndTransaction(a)
  /\ UNCHANGED <<clock, txn, snap, seen, job, result>>
  /\ pc[a] \in {"written", "stamped", "writing"}
  /\ pc' = [pc EXCEPT ![a] = pc'[a]] /\ pc'[a] \in {"committed", "idle"}

\* Only commits change the committed tables.
LEMMA StoreSteps ==
  ASSUME TypeOK, [Next]_vars
  PROVE  UNCHANGED store \/ \E a \in Clients : Commits(a)
<1> USE ClientKinds DEF store, Goto
<1>1. ASSUME NEW w \in Workers, CommitUpsert(w) \/ CommitFinalize(w) PROVE Commits(w)
  BY <1>1 DEF Commits, CommitUpsert, CommitFinalize, TypeOK
<1>2. ASSUME NEW d \in Writers, CommitDirect(d) PROVE Commits(d)
  BY <1>2 DEF Commits, CommitDirect, TypeOK
<1>3. ASSUME NEW w \in Workers, Fetch(w) \/ BeginUpsert(w) \/ LoadAndPlan(w) \/ UpsertBatch(w)
                                \/ BeginFinalize(w) \/ Finalize(w)
      PROVE UNCHANGED store
  BY <1>3 DEF Fetch, BeginUpsert, LoadAndPlan, UpsertBatch, BeginFinalize, Finalize
<1>4. ASSUME NEW d \in Writers, BeginDirect(d) \/ DirectWrite(d) \/ DirectReceipt(d)
      PROVE UNCHANGED store
  BY <1>4 DEF BeginDirect, DirectWrite, DirectReceipt
<1>5. ASSUME NEW b \in Builders, BuildLock(b) \/ BuildFuture(b) \/ BuildRead(b) \/ BuildFinish(b)
      PROVE UNCHANGED store
  BY <1>5 DEF BuildLock, BuildFuture, BuildRead, BuildFinish
<1>6. ASSUME NEW a \in Clients, Rollback(a) PROVE UNCHANGED store
  BY <1>6 DEF Rollback
<1>7. CASE Tick \/ UNCHANGED vars
  BY <1>7 DEF Tick, vars
<1> QED BY <1>1, <1>2, <1>3, <1>4, <1>5, <1>6, <1>7 DEF Next

\* Every step keeps the version history ordered and its evidence moving forward.
LEMMA HistoryStep ==
  ASSUME IInv, TypeOK', [Next]_vars PROVE HistoryInv' /\ FreshnessOrder'
<1>1. CASE UNCHANGED store
  BY <1>1 DEF IInv, store, HistoryInv, FreshnessOrder, VersionOrder, Versions, VersionsIn
<1>2. ASSUME NEW a \in Clients, Commits(a) PROVE HistoryInv' /\ FreshnessOrder'
  BY <1>2, CommitHistory DEF IInv, Commits
<1> QED BY <1>1, <1>2, StoreSteps DEF IInv

\* A client with nothing uncommitted may begin a transaction.
LEMMA BeginPending ==
  ASSUME TypeOK, PendingInv, PhaseInv, NEW a \in Clients, BeginTxn(a),
         pc[a] \notin {"written", "stamped", "writing"},
         UNCHANGED <<bars, rowLock, newBars, newRevs>>
  PROVE  PendingInv'
<1>1. ASSUME NEW c \in Clients, c # a
      PROVE  PendingBarsInv(c)' /\ PendingRevsInv(c)' /\ PendingUnique(c)'
  <2>1. txn'[c] = txn[c]
    BY <1>1 DEF BeginTxn, TypeOK
  <2>2. PendingBarsInv(c) /\ PendingRevsInv(c) /\ PendingUnique(c)
    BY DEF PendingInv
  <2>3. \A r \in newRevs[c] : r.next.key \in Keys
    BY DEF TypeOK, Revision, Version
  <2>4. \A k \in Keys : newBars[c][k] # NoBar => rowLock'[k] = c /\ bars'[k] = bars[k]
    BY <2>2 DEF PendingBarsInv
  <2> QED BY <2>1, <2>2, <2>3, <2>4, PendingFrame
<1>2. newBars'[a] = NoWrites /\ newRevs'[a] = {}
  BY DEF PhaseInv
<1>3. \A k \in Keys : newBars'[a][k] = NoBar
  BY <1>2 DEF NoWrites
<1>4. PendingBarsInv(a)' /\ PendingRevsInv(a)'
  BY <1>2, <1>3 DEF PendingBarsInv, PendingRevsInv
<1>5. Uncommitted(a)' = {}
  BY <1>2, <1>3 DEF Uncommitted, VersionsIn
<1>6. PendingUnique(a)'
  BY <1>5 DEF PendingUnique
<1> QED BY <1>1, <1>4, <1>6 DEF PendingInv

\* Every step keeps uncommitted writes locked, owned and newer than what is committed.
LEMMA PendingStep ==
  ASSUME IInv, [Next]_vars PROVE PendingInv'
<1> USE ClientKinds
<1> TypeOK /\ PendingInv /\ PhaseInv /\ HistoryInv /\ BatchInv
  BY DEF IInv
<1>1. CASE UNCHANGED <<bars, rowLock, txn, newBars, newRevs>>
  BY <1>1 DEF PendingInv, PendingBarsInv, PendingRevsInv, PendingUnique, AboveCommitted,
              MyXid, Uncommitted, VersionsIn
<1>2. CASE \E a \in Clients : Commits(a)
  BY <1>2, CommitPending DEF Commits
<1>3. ASSUME NEW a \in Clients, EndTransaction(a), UNCHANGED <<bars, txn>> PROVE PendingInv'
  BY <1>3, EndPending
<1>4. ASSUME NEW w \in Workers, BeginUpsert(w) \/ BeginFinalize(w) PROVE PendingInv'
  <2>1. /\ BeginTxn(w) /\ pc[w] \notin {"written", "stamped", "writing"}
        /\ UNCHANGED <<bars, rowLock, newBars, newRevs>>
    BY <1>4 DEF BeginUpsert, BeginFinalize, store, pending
  <2> QED BY <2>1, BeginPending
<1>5. ASSUME NEW d \in Writers, BeginDirect(d) PROVE PendingInv'
  <2>1. /\ BeginTxn(d) /\ pc[d] \notin {"written", "stamped", "writing"}
        /\ UNCHANGED <<bars, rowLock, newBars, newRevs>>
    BY <1>5 DEF BeginDirect, store, pending
  <2> QED BY <2>1, BeginPending
<1>6. ASSUME NEW b \in Builders, BuildLock(b) PROVE PendingInv'
  <2>1. /\ BeginTxn(b) /\ pc[b] \notin {"written", "stamped", "writing"}
        /\ UNCHANGED <<bars, rowLock, newBars, newRevs>>
    BY <1>6 DEF BuildLock, store, pending
  <2> QED BY <2>1, BeginPending
<1>7. ASSUME NEW w \in Workers, LoadAndPlan(w) PROVE PendingInv'
  <2> DEFINE K == {k \in BatchKeys(w) : bars[k] # NoBar}
  <2>1. /\ RowsFreeFor(w, K) /\ LockRows(w, K)
        /\ UNCHANGED <<bars, txn, newBars, newRevs>>
    BY <1>7 DEF LoadAndPlan, store, pending
  <2>2. ASSUME NEW c \in Clients
        PROVE  PendingBarsInv(c)' /\ PendingRevsInv(c)' /\ PendingUnique(c)'
    <3>1. PendingBarsInv(c) /\ PendingRevsInv(c) /\ PendingUnique(c)
      BY DEF PendingInv
    <3>2. \A r \in newRevs[c] : r.next.key \in Keys
      BY DEF TypeOK, Revision, Version
    <3>3. ASSUME NEW k \in Keys, newBars[c][k] # NoBar PROVE rowLock'[k] = c /\ bars'[k] = bars[k]
      <4>1. rowLock[k] = c
        BY <3>1, <3>3 DEF PendingBarsInv
      <4>2. k \in K => c = w
        BY <2>1, <4>1, ClientsAssumption DEF RowsFreeFor
      <4> HIDE DEF K
      <4> QED BY <2>1, <4>1, <4>2 DEF LockRows
    <3> QED BY <2>1, <3>1, <3>2, <3>3, PendingFrame
  <2> QED BY <2>2 DEF PendingInv
<1>8. ASSUME NEW w \in Workers, UpsertBatch(w) PROVE PendingInv'
  <2>1. batch[w] \in SUBSET Row /\ OneRowPerKey(batch[w])
    BY DEF TypeOK, BatchInv
  <2>2. /\ Accepted(w, batch[w]) /\ WriteBars(w, batch[w])
        /\ RowsFreeFor(w, BatchKeys(w)) /\ LockRows(w, BatchKeys(w))
        /\ UNCHANGED <<bars, txn>>
    BY <1>8 DEF UpsertBatch, store
  <2>3. BatchKeys(w) = {row.key : row \in batch[w]}
    BY DEF BatchKeys
  <2> QED BY <2>1, <2>2, <2>3, WritePending
<1>9. ASSUME NEW d \in Writers, DirectWrite(d) PROVE PendingInv'
  <2>1. PICK k \in Keys, v \in Vals, t \in (clock - HostSkew)..clock :
          LET row == [key |-> k, val |-> v, fetched |-> t] IN
          /\ RowsFreeFor(d, {k}) /\ Accepted(d, {row}) /\ WriteBars(d, {row}) /\ LockRows(d, {k})
    BY <1>9 DEF DirectWrite
  <2> DEFINE row == [key |-> k, val |-> v, fetched |-> t]
  <2>2. t \in Int
    BY BoundsAssumption DEF TypeOK
  <2>3. {row} \in SUBSET Row /\ OneRowPerKey({row}) /\ {q.key : q \in {row}} = {k}
    BY <2>2 DEF Row, OneRowPerKey
  <2>4. UNCHANGED <<bars, txn>>
    BY <1>9 DEF DirectWrite, store
  <2>5. RowsFreeFor(d, {k}) /\ Accepted(d, {row}) /\ WriteBars(d, {row}) /\ LockRows(d, {k})
    BY <2>1
  <2> HIDE DEF row
  <2> QED BY <2>3, <2>4, <2>5, WritePending
<1>10. ASSUME NEW w \in Workers, Fetch(w) \/ Finalize(w) PROVE PendingInv'
  BY <1>1, <1>10 DEF Fetch, Finalize, store, pending
<1>11. ASSUME NEW d \in Writers, DirectReceipt(d) PROVE PendingInv'
  BY <1>1, <1>11 DEF DirectReceipt, store
<1>12. ASSUME NEW b \in Builders, BuildRead(b) PROVE PendingInv'
  BY <1>1, <1>12 DEF BuildRead, store, pending
<1>13. ASSUME NEW b \in Builders, BuildFuture(b) \/ BuildFinish(b) PROVE PendingInv'
  <2>1. b \in Clients /\ EndTransaction(b) /\ UNCHANGED <<bars, txn>>
    BY <1>13 DEF BuildFuture, BuildFinish, store
  <2> QED BY <1>3, <2>1
<1>14. ASSUME NEW a \in Clients, Rollback(a) PROVE PendingInv'
  <2>1. EndTransaction(a) /\ UNCHANGED <<bars, txn>>
    BY <1>14 DEF Rollback, store
  <2> QED BY <1>3, <2>1
<1>15. CASE Tick \/ UNCHANGED vars
  BY <1>1, <1>15 DEF Tick, vars, store, pending
<1>16. ASSUME NEW w \in Workers, CommitUpsert(w) \/ CommitFinalize(w) PROVE PendingInv'
  <2>1. PublishWrites(w) /\ EndTransaction(w) /\ txn' = txn
    BY <1>16 DEF CommitUpsert, CommitFinalize
  <2> QED BY <2>1, CommitPending
<1>17. ASSUME NEW d \in Writers, CommitDirect(d) PROVE PendingInv'
  <2>1. PublishWrites(d) /\ EndTransaction(d) /\ txn' = txn
    BY <1>17 DEF CommitDirect
  <2> QED BY <2>1, CommitPending
<1> QED BY <1>4, <1>5, <1>6, <1>7, <1>8, <1>9, <1>10, <1>11, <1>12, <1>13, <1>14, <1>15, <1>16, <1>17 DEF Next

\* Every step keeps at most one row per key in a fetched batch.
LEMMA BatchStep ==
  ASSUME IInv, [Next]_vars PROVE BatchInv'
<1> TypeOK /\ BatchInv
  BY DEF IInv
<1>1. CASE UNCHANGED batch
  BY <1>1 DEF BatchInv
<1>2. ASSUME NEW w, batch' = [batch EXCEPT ![w] = {}] PROVE BatchInv'
  BY <1>2 DEF BatchInv, TypeOK, OneRowPerKey
<1>3. ASSUME NEW w \in Workers, Fetch(w) PROVE BatchInv'
  <2>1. PICK K \in SUBSET Keys \ {{}} :
          \E val \in [K -> Vals], at \in [K -> (clock - HostSkew)..(clock + HostSkew)] :
            batch' = [batch EXCEPT ![w] = {[key |-> k, val |-> val[k], fetched |-> at[k]] : k \in K}]
    BY <1>3 DEF Fetch
  <2>2. PICK val \in [K -> Vals], at \in [K -> (clock - HostSkew)..(clock + HostSkew)] :
          batch' = [batch EXCEPT ![w] = {[key |-> k, val |-> val[k], fetched |-> at[k]] : k \in K}]
    BY <2>1
  <2>3. OneRowPerKey({[key |-> k, val |-> val[k], fetched |-> at[k]] : k \in K})
    BY DEF OneRowPerKey
  <2> QED BY <2>2, <2>3 DEF BatchInv, TypeOK
<1>4. ASSUME NEW w \in Workers,
             BeginUpsert(w) \/ LoadAndPlan(w) \/ UpsertBatch(w) \/ BeginFinalize(w) \/ Finalize(w) \/ CommitFinalize(w)
      PROVE BatchInv'
  BY <1>1, <1>4 DEF BeginUpsert, LoadAndPlan, UpsertBatch, BeginFinalize, Finalize, CommitFinalize
<1>5. ASSUME NEW w \in Workers, CommitUpsert(w) PROVE BatchInv'
  BY <1>2, <1>5 DEF CommitUpsert
<1>6. ASSUME NEW d \in Writers, BeginDirect(d) \/ DirectWrite(d) \/ DirectReceipt(d) \/ CommitDirect(d)
      PROVE BatchInv'
  BY <1>1, <1>6 DEF BeginDirect, DirectWrite, DirectReceipt, CommitDirect
<1>7. ASSUME NEW b \in Builders, BuildLock(b) \/ BuildFuture(b) \/ BuildRead(b) \/ BuildFinish(b)
      PROVE BatchInv'
  BY <1>1, <1>7 DEF BuildLock, BuildFuture, BuildRead, BuildFinish
<1>8. ASSUME NEW a \in Clients, Rollback(a) PROVE BatchInv'
  BY <1>1, <1>2, <1>8 DEF Rollback
<1>9. CASE Tick \/ UNCHANGED vars
  BY <1>1, <1>9 DEF Tick, vars
<1> QED BY <1>3, <1>4, <1>5, <1>6, <1>7, <1>8, <1>9 DEF Next

\* Ending a transaction keeps locks and uncommitted writes in step with the control state.
LEMMA EndPhase ==
  ASSUME TypeOK, PhaseInv, NEW a \in Clients, EndTransaction(a),
         pc' = [pc EXCEPT ![a] = pc'[a]], pc'[a] \in {"idle", "committed"},
         \A b \in Builders : b # a => job'[b] = job[b]
  PROVE  PhaseInv'
<1>1. newBars'[a] = NoWrites /\ newRevs'[a] = {} /\ newRcpts'[a] = {}
  BY DEF EndTransaction, TypeOK
<1>2. \A c \in Clients : c # a =>
         /\ newBars'[c] = newBars[c] /\ newRevs'[c] = newRevs[c] /\ newRcpts'[c] = newRcpts[c]
         /\ fence = c => fence' = c
         /\ pc'[c] = pc[c]
  BY DEF EndTransaction, TypeOK
<1> QED BY <1>1, <1>2 DEF PhaseInv

\* Every step keeps locks and uncommitted writes in step with the control state.
LEMMA PhaseStep ==
  ASSUME IInv, [Next]_vars PROVE PhaseInv'
<1> USE ClientKinds DEF Goto, store, pending
<1> TypeOK /\ PhaseInv
  BY DEF IInv
<1> NoClient \notin Clients
  BY ClientsAssumption
<1>1. ASSUME NEW w \in Workers, Fetch(w) \/ LoadAndPlan(w) PROVE PhaseInv'
  BY <1>1, ZenonT(60) DEF Fetch, LoadAndPlan, PhaseInv, TypeOK
<1>2. ASSUME NEW w \in Workers, BeginUpsert(w) \/ BeginFinalize(w) PROVE PhaseInv'
  BY <1>2, ZenonT(60) DEF BeginUpsert, BeginFinalize, PhaseInv, TypeOK
<1>3. ASSUME NEW w \in Workers, UpsertBatch(w) PROVE PhaseInv'
  <2>1. \A c \in Clients \ {w} : newBars'[c] = newBars[c] /\ newRevs'[c] = newRevs[c]
    BY <1>3 DEF UpsertBatch, WriteBars, TypeOK
  <2>2. /\ pc' = [pc EXCEPT ![w] = "written"] /\ w \notin Builders
        /\ UNCHANGED <<fence, newRcpts, job>>
    BY <1>3, ClientsAssumption DEF UpsertBatch
  <2> QED BY <2>1, <2>2 DEF PhaseInv, TypeOK
<1>4. ASSUME NEW w \in Workers, CommitUpsert(w) \/ CommitFinalize(w) PROVE PhaseInv'
  <2>1. /\ EndTransaction(w) /\ pc' = [pc EXCEPT ![w] = pc'[w]]
        /\ pc'[w] \in {"idle", "committed"} /\ UNCHANGED job
    BY <1>4 DEF CommitUpsert, CommitFinalize, TypeOK
  <2> QED BY <2>1, EndPhase
<1>5. ASSUME NEW w \in Workers, Finalize(w) PROVE PhaseInv'
  <2>1. \A c \in Clients \ {w} : newRcpts'[c] = newRcpts[c]
    BY <1>5 DEF Finalize, StampReceipts, TypeOK
  <2>2. /\ pc' = [pc EXCEPT ![w] = "stamped"] /\ w \notin Builders /\ pc[w] = "finalizing"
        /\ UNCHANGED <<fence, newBars, newRevs, job>>
    BY <1>5, ClientsAssumption DEF Finalize
  <2>3. fence = w
    BY <2>2 DEF PhaseInv
  <2> QED BY <2>1, <2>2, <2>3 DEF PhaseInv, TypeOK
<1>6. ASSUME NEW d \in Writers, BeginDirect(d) PROVE PhaseInv'
  BY <1>6 DEF BeginDirect, PhaseInv, TypeOK
<1>7. ASSUME NEW d \in Writers, DirectWrite(d) PROVE PhaseInv'
  <2>1. \A c \in Clients \ {d} : newBars'[c] = newBars[c] /\ newRevs'[c] = newRevs[c]
    BY <1>7 DEF DirectWrite, WriteBars, TypeOK
  <2>2. pc[d] = "writing" /\ UNCHANGED <<fence, pc, newRcpts, job>>
    BY <1>7 DEF DirectWrite
  <2> QED BY <2>1, <2>2 DEF PhaseInv
<1>8. ASSUME NEW d \in Writers, DirectReceipt(d) PROVE PhaseInv'
  <2>1. \A c \in Clients \ {d} : newRcpts'[c] = newRcpts[c]
    BY <1>8 DEF DirectReceipt, StampReceipts, TypeOK
  <2>2. /\ pc[d] = "writing" /\ fence \in {d, NoClient} /\ fence' = d
        /\ UNCHANGED <<pc, newBars, newRevs, job>>
    BY <1>8 DEF DirectReceipt
  <2> QED BY <2>1, <2>2 DEF PhaseInv
<1>9. ASSUME NEW d \in Writers, CommitDirect(d) PROVE PhaseInv'
  <2>1. /\ EndTransaction(d) /\ pc' = [pc EXCEPT ![d] = pc'[d]]
        /\ pc'[d] \in {"idle", "committed"} /\ UNCHANGED job
    BY <1>9 DEF CommitDirect, TypeOK
  <2> QED BY <2>1, EndPhase
<1>10. ASSUME NEW b \in Builders, BuildLock(b) PROVE PhaseInv'
  <2>1. PICK c \in Cutoffs : job' = [job EXCEPT ![b] = [cutoff |-> c, now |-> 0, rows |-> {}]]
    BY <1>10 DEF BuildLock
  <2>2. job'[b].cutoff \in Cutoffs /\ \A e \in Builders : e # b => job'[e] = job[e]
    BY <2>1 DEF TypeOK
  <2>3. /\ pc' = [pc EXCEPT ![b] = "locked"] /\ pc[b] = "idle" /\ fence = NoClient /\ fence' = b
        /\ UNCHANGED <<newBars, newRevs, newRcpts>>
    BY <1>10 DEF BuildLock
  <2> QED BY <2>2, <2>3 DEF PhaseInv, TypeOK
<1>11. ASSUME NEW b \in Builders, BuildRead(b) PROVE PhaseInv'
  <2>1. job'[b].cutoff = job[b].cutoff /\ \A e \in Builders : e # b => job'[e] = job[e]
    BY <1>11 DEF BuildRead, TypeOK
  <2>2. /\ pc' = [pc EXCEPT ![b] = "read"] /\ pc[b] = "locked"
        /\ UNCHANGED <<fence, newBars, newRevs, newRcpts>>
    BY <1>11 DEF BuildRead
  <2> QED BY <2>1, <2>2 DEF PhaseInv, TypeOK
<1>12. ASSUME NEW b \in Builders, BuildFuture(b) \/ BuildFinish(b) PROVE PhaseInv'
  <2>1. /\ EndTransaction(b) /\ pc' = [pc EXCEPT ![b] = pc'[b]]
        /\ pc'[b] \in {"idle", "committed"} /\ \A e \in Builders : e # b => job'[e] = job[e]
    BY <1>12 DEF BuildFuture, BuildFinish, TypeOK
  <2> QED BY <2>1, EndPhase
<1>13. ASSUME NEW a \in Clients, Rollback(a) PROVE PhaseInv'
  <2>1. /\ EndTransaction(a) /\ pc' = [pc EXCEPT ![a] = pc'[a]]
        /\ pc'[a] \in {"idle", "committed"} /\ \A e \in Builders : e # a => job'[e] = job[e]
    BY <1>13 DEF Rollback, TypeOK
  <2> QED BY <2>1, EndPhase
<1>14. CASE Tick \/ UNCHANGED vars
  BY <1>14 DEF Tick, vars, PhaseInv
<1> QED BY <1>1, <1>2, <1>3, <1>4, <1>5, <1>6, <1>7, <1>8, <1>9, <1>10, <1>11, <1>12, <1>13, <1>14 DEF Next

\* Uncommitted receipts are dropped or published, or stamped now, for
\* versions other transactions have committed.
Stamps(a) ==
  /\ \E V \in SUBSET (Versions \cup Uncommitted(a)) :
       StampReceipts(a, V) /\ \A v \in V : MayStamp(a, v)
  /\ UNCHANGED <<clock, store, seen>>

\* A step either drops uncommitted receipts or is a client stamping receipts.
LEMMA ReceiptSteps ==
  ASSUME TypeOK, [Next]_vars
  PROVE  (\A c \in Clients : newRcpts'[c] \subseteq newRcpts[c]) \/ \E a \in Clients : Stamps(a)
<1> USE ClientKinds DEF store, pending
<1>1. ASSUME NEW a \in Clients, EndTransaction(a)
      PROVE  \A c \in Clients : newRcpts'[c] \subseteq newRcpts[c]
  BY <1>1 DEF EndTransaction, TypeOK
<1>2. ASSUME NEW w \in Workers, Finalize(w) PROVE Stamps(w)
  BY <1>2 DEF Finalize, Stamps, MissingReceipts
<1>3. ASSUME NEW d \in Writers, DirectReceipt(d) PROVE Stamps(d)
  BY <1>3 DEF DirectReceipt, Stamps
<1>4. ASSUME NEW w \in Workers, Fetch(w) \/ BeginUpsert(w) \/ LoadAndPlan(w) \/ UpsertBatch(w)
                                \/ BeginFinalize(w)
      PROVE newRcpts' = newRcpts
  BY <1>4 DEF Fetch, BeginUpsert, LoadAndPlan, UpsertBatch, BeginFinalize
<1>5. ASSUME NEW w \in Workers, CommitUpsert(w) \/ CommitFinalize(w) PROVE EndTransaction(w)
  BY <1>5 DEF CommitUpsert, CommitFinalize
<1>6. ASSUME NEW d \in Writers, BeginDirect(d) \/ DirectWrite(d) PROVE newRcpts' = newRcpts
  BY <1>6 DEF BeginDirect, DirectWrite
<1>7. ASSUME NEW d \in Writers, CommitDirect(d) PROVE EndTransaction(d)
  BY <1>7 DEF CommitDirect
<1>8. ASSUME NEW b \in Builders, BuildLock(b) \/ BuildRead(b) PROVE newRcpts' = newRcpts
  BY <1>8 DEF BuildLock, BuildRead
<1>9. ASSUME NEW b \in Builders, BuildFuture(b) \/ BuildFinish(b) PROVE EndTransaction(b)
  BY <1>9 DEF BuildFuture, BuildFinish
<1>10. ASSUME NEW a \in Clients, Rollback(a) PROVE EndTransaction(a)
  BY <1>10 DEF Rollback
<1>11. CASE Tick \/ UNCHANGED vars
  BY <1>11 DEF Tick, vars
<1> QED BY <1>1, <1>2, <1>3, <1>4, <1>5, <1>6, <1>7, <1>8, <1>9, <1>10, <1>11 DEF Next

\* Every step keeps receipts behind the commit of the version they name.
LEMMA ReceiptStep ==
  ASSUME IInv, [Next]_vars PROVE ReceiptAfterCommit'
<1> TypeOK /\ PendingInv /\ HistoryInv /\ ReceiptAfterCommit
  BY DEF IInv
<1>1. Versions \subseteq Versions'
  <2>1. CASE UNCHANGED store
    BY <2>1, StorePointInTime
  <2>2. CASE \E a \in Clients : Commits(a)
    BY <2>2, CommitVersions DEF Commits
  <2> QED BY <2>1, <2>2, StoreSteps
<1>2. \A r \in receipts' : r \in receipts \/ \E a \in Clients : r \in newRcpts[a]
  <2>1. CASE UNCHANGED store
    BY <2>1 DEF store
  <2>2. CASE \E a \in Clients : Commits(a)
    BY <2>2 DEF Commits, PublishWrites
  <2> QED BY <2>1, <2>2, StoreSteps
<1>3. ASSUME NEW c \in Clients, NEW r \in newRcpts'[c], r \notin newRcpts[c]
      PROVE  \E v \in Versions : Names(r, v)
  <2>1. PICK a \in Clients : Stamps(a)
    BY <1>3, ReceiptSteps
  <2>2. PICK V \in SUBSET (Versions \cup Uncommitted(a)) :
           StampReceipts(a, V) /\ \A v \in V : MayStamp(a, v)
    BY <2>1 DEF Stamps
  <2>3. PICK v \in V : r = [key |-> v.key, rec |-> v.rec, avail |-> clock]
    BY <1>3, <2>2 DEF StampReceipts, TypeOK
  <2>4. v \in Versions
    <3>1. SUFFICES ASSUME v \in Uncommitted(a) PROVE v \in Versions
      BY <2>2, <2>3
    <3>2. v.xid # MyXid(a)
      BY <2>2, <2>3 DEF MayStamp
    <3>3. v = bars[v.key] /\ v.key \in Keys /\ v # NoBar
      BY <3>1, <3>2, UncommittedBelow, ClientsAssumption
    <3> QED BY <3>3 DEF Versions, VersionsIn
  <2> QED BY <2>3, <2>4 DEF Names
<1>4. \A c \in Clients : \A r \in newRcpts[c] : \E v \in Versions : Names(r, v)
  BY DEF ReceiptAfterCommit
<1>5. \A r \in receipts : \E v \in Versions : Names(r, v)
  BY DEF ReceiptAfterCommit
<1>6. \A c \in Clients : \A r \in newRcpts'[c] : \E v \in Versions : Names(r, v)
  BY <1>3, <1>4
<1>7. \A r \in receipts' : \E v \in Versions' : Names(r, v)
  BY <1>1, <1>2, <1>4, <1>5
<1>8. \A c \in Clients : \A r \in newRcpts'[c] : \E v \in Versions' : Names(r, v)
  BY <1>1, <1>6
<1>9. \A r \in (receipts \cup UNION {newRcpts[a] : a \in Clients})' : \E v \in Versions' : Names(r, v)
  BY <1>7, <1>8
<1> QED BY <1>9 DEF ReceiptAfterCommit, Names

\* While a builder holds rows it has read, nobody has a receipt in flight.
LEMMA ReadAlone ==
  ASSUME PhaseInv, NEW b \in Builders, pc[b] \in {"locked", "read"}, NEW a \in Clients, a # b
  PROVE  newRcpts[a] = {}
BY ClientKinds DEF PhaseInv

\* Only the builder itself changes its job and its step while it reads.
LEMMA ReadFrame ==
  ASSUME TypeOK, [Next]_vars, NEW b \in Builders, pc'[b] = "read"
  PROVE  \/ pc[b] = "read" /\ job'[b] = job[b]
         \/ BuildRead(b)
<1> USE ClientKinds DEF Goto, BeginTxn
<1>w. b \notin Workers /\ b \notin Writers
  BY ClientsAssumption
<1>1. ASSUME NEW w \in Workers, Fetch(w) \/ BeginUpsert(w) \/ LoadAndPlan(w) \/ UpsertBatch(w)
                                \/ BeginFinalize(w) \/ Finalize(w) \/ CommitUpsert(w) \/ CommitFinalize(w)
      PROVE pc[b] = "read" /\ job'[b] = job[b]
  BY <1>1, <1>w DEF Fetch, BeginUpsert, LoadAndPlan, UpsertBatch, BeginFinalize, Finalize,
                    CommitUpsert, CommitFinalize, TypeOK
<1>2. ASSUME NEW d \in Writers, BeginDirect(d) \/ DirectWrite(d) \/ DirectReceipt(d) \/ CommitDirect(d)
      PROVE pc[b] = "read" /\ job'[b] = job[b]
  BY <1>2, <1>w DEF BeginDirect, DirectWrite, DirectReceipt, CommitDirect, TypeOK
<1>3. ASSUME NEW e \in Builders, BuildLock(e) \/ BuildFuture(e) \/ BuildRead(e) \/ BuildFinish(e)
      PROVE (pc[b] = "read" /\ job'[b] = job[b]) \/ BuildRead(b)
  <2>1. CASE e # b
    BY <1>3, <2>1 DEF BuildLock, BuildFuture, BuildRead, BuildFinish, TypeOK
  <2>2. CASE e = b /\ ~ BuildRead(b)
    BY <1>3, <2>2 DEF BuildLock, BuildFuture, BuildFinish, TypeOK
  <2> QED BY <2>1, <2>2
<1>4. ASSUME NEW a \in Clients, Rollback(a) PROVE pc[b] = "read" /\ job'[b] = job[b]
  BY <1>4 DEF Rollback, TypeOK
<1>5. CASE Tick \/ UNCHANGED vars
  BY <1>5 DEF Tick, vars
<1> QED BY <1>1, <1>2, <1>3, <1>4, <1>5 DEF Next

\* The clock never goes back.
LEMMA ClockStep ==
  ASSUME TypeOK, [Next]_vars PROVE clock <= clock' /\ clock' \in Int /\ clock \in Int
<1>1. clock \in Nat
  BY DEF TypeOK
<1>2. CASE UNCHANGED clock
  BY <1>1, <1>2
<1>3. CASE Tick
  BY <1>1, <1>3 DEF Tick
<1>4. CASE \E w \in Workers : Fetch(w) \/ BeginUpsert(w) \/ LoadAndPlan(w) \/ UpsertBatch(w)
              \/ BeginFinalize(w) \/ Finalize(w) \/ CommitUpsert(w) \/ CommitFinalize(w)
  BY <1>2, <1>4 DEF Fetch, BeginUpsert, LoadAndPlan, UpsertBatch, BeginFinalize, Finalize,
                    CommitUpsert, CommitFinalize
<1>5. CASE \E d \in Writers : BeginDirect(d) \/ DirectWrite(d) \/ DirectReceipt(d) \/ CommitDirect(d)
  BY <1>2, <1>5 DEF BeginDirect, DirectWrite, DirectReceipt, CommitDirect
<1>6. CASE \E b \in Builders : BuildLock(b) \/ BuildFuture(b) \/ BuildRead(b) \/ BuildFinish(b)
  BY <1>2, <1>6 DEF BuildLock, BuildFuture, BuildRead, BuildFinish
<1>7. CASE \E a \in Clients : Rollback(a)
  BY <1>2, <1>7 DEF Rollback
<1>8. CASE UNCHANGED vars
  BY <1>2, <1>8 DEF vars
<1> QED BY <1>3, <1>4, <1>5, <1>6, <1>7, <1>8 DEF Next

\* Every step keeps the rows a builder holds equal to what its cutoff returns.
LEMMA ReadStep ==
  ASSUME IInv, [Next]_vars PROVE ReadInv'
<1> TypeOK /\ PendingInv /\ HistoryInv /\ ReceiptAfterCommit /\ PhaseInv /\ ReadInv
  BY DEF IInv
<1>1. SUFFICES ASSUME NEW b \in Builders, pc'[b] = "read"
               PROVE  (/\ job[b].cutoff <= job[b].now /\ job[b].now <= clock
                       /\ job[b].rows = PointInTime(job[b].cutoff))'
  BY DEF ReadInv
<1>2. \A c \in Int : job'[b].cutoff = c => PointInTime(job[b].cutoff)' = PointInTime(c)'
  BY DEF PointInTime, Finalized
<1>3. CASE BuildRead(b)
  <2>1. /\ job'[b] = [cutoff |-> job[b].cutoff, now |-> clock, rows |-> PointInTime(job[b].cutoff)]
        /\ job[b].cutoff <= clock /\ clock' = clock /\ UNCHANGED store
    BY <1>3 DEF BuildRead, TypeOK
  <2>2. clock \in Int /\ job[b].cutoff \in Int
    BY DEF TypeOK, Job
  <2>3. PICK c \in Int : c = job[b].cutoff
    BY <2>2
  <2>4. PointInTime(c)' = PointInTime(c)
    BY <2>1, StorePointInTime
  <2>5. job'[b].cutoff = c /\ job'[b].rows = PointInTime(c)
    BY <2>1, <2>3
  <2> QED BY <1>2, <2>1, <2>2, <2>4, <2>5
<1>4. CASE pc[b] = "read" /\ job'[b] = job[b]
  <2>1. job[b].cutoff \in Int /\ job[b].now \in Int
    BY DEF TypeOK, Job
  <2>2. PICK c \in Int : c = job[b].cutoff
    BY <2>1
  <2>3. c <= job[b].now /\ job[b].now <= clock /\ job[b].rows = PointInTime(c)
    BY <1>4, <2>2 DEF ReadInv
  <2>4. job[b].now <= clock'
    BY <2>1, <2>3, ClockStep
  <2>5. PointInTime(c)' = PointInTime(c)
    <3>1. CASE UNCHANGED store
      BY <3>1, StorePointInTime
    <3>2. ASSUME NEW a \in Clients, Commits(a) PROVE PointInTime(c)' = PointInTime(c)
      <4>1. a # b
        BY <1>4, <3>2 DEF Commits
      <4>2. newRcpts[a] = {}
        BY <1>4, <4>1, ReadAlone
      <4>3. PublishWrites(a)
        BY <3>2 DEF Commits
      <4> QED BY <4>2, <4>3, CommitPointInTime
    <3> QED BY <3>1, <3>2, StoreSteps
  <2> QED BY <1>2, <1>4, <2>2, <2>3, <2>4, <2>5
<1> QED BY <1>1, <1>3, <1>4, ReadFrame

\* Only a completed build changes what has been seen.
LEMMA SeenFrame ==
  ASSUME TypeOK, [Next]_vars
  PROVE  seen' = seen \/ \E b \in Builders : BuildFinish(b)
<1>1. CASE \E w \in Workers : Fetch(w) \/ BeginUpsert(w) \/ LoadAndPlan(w) \/ UpsertBatch(w)
              \/ BeginFinalize(w) \/ Finalize(w) \/ CommitUpsert(w) \/ CommitFinalize(w)
  BY <1>1 DEF Fetch, BeginUpsert, LoadAndPlan, UpsertBatch, BeginFinalize, Finalize,
              CommitUpsert, CommitFinalize
<1>2. CASE \E d \in Writers : BeginDirect(d) \/ DirectWrite(d) \/ DirectReceipt(d) \/ CommitDirect(d)
  BY <1>2 DEF BeginDirect, DirectWrite, DirectReceipt, CommitDirect
<1>3. CASE \E b \in Builders : BuildLock(b) \/ BuildFuture(b) \/ BuildRead(b)
  BY <1>3 DEF BuildLock, BuildFuture, BuildRead
<1>4. CASE \E a \in Clients : Rollback(a)
  BY <1>4 DEF Rollback
<1>5. CASE Tick \/ UNCHANGED vars
  BY <1>5 DEF Tick, vars
<1> QED BY <1>1, <1>2, <1>3, <1>4, <1>5 DEF Next

\* Every step keeps what a completed build read at a past cutoff.
LEMMA SeenStep ==
  ASSUME IInv, [Next]_vars PROVE SeenInv' /\ PointInTimeStable'
<1> TypeOK /\ PendingInv /\ HistoryInv /\ ReceiptAfterCommit /\ PhaseInv /\ ReadInv /\ SeenInv
      /\ PointInTimeStable
  BY DEF IInv
<1>0. Cutoffs \subseteq Int /\ clock \in Int
  BY BoundsAssumption DEF TypeOK
\* Cutoffs already seen.
<1>1. ASSUME NEW c \in Cutoffs, seen[c] # NoRows
      PROVE  /\ c < clock'
             /\ \A a \in Clients : \A r \in newRcpts'[a] : c < r.avail
             /\ PointInTime(c)' = seen[c]
  <2>1. c < clock /\ c \in Int /\ PointInTime(c) = seen[c]
        /\ \A a \in Clients : \A r \in newRcpts[a] : c < r.avail
    BY <1>0, <1>1 DEF SeenInv, PointInTimeStable
  <2>2. c < clock'
    BY <2>1, ClockStep
  <2>3. ASSUME NEW e \in Clients, NEW r \in newRcpts'[e] PROVE c < r.avail
    <3>1. CASE r \in newRcpts[e]
      BY <2>1, <3>1
    <3>2. CASE r \notin newRcpts[e]
      <4>1. PICK a \in Clients : Stamps(a)
        BY <3>2, ReceiptSteps
      <4>2. r.avail = clock
        BY <3>2, <4>1 DEF Stamps, StampReceipts, TypeOK
      <4> QED BY <2>1, <4>2
    <3> QED BY <3>1, <3>2
  <2>4. PointInTime(c)' = PointInTime(c)
    <3>1. CASE UNCHANGED store
      BY <3>1, StorePointInTime
    <3>2. ASSUME NEW a \in Clients, Commits(a) PROVE PointInTime(c)' = PointInTime(c)
      BY <2>1, <3>2, CommitPointInTime DEF Commits
    <3> QED BY <3>1, <3>2, StoreSteps
  <2> QED BY <2>1, <2>2, <2>3, <2>4
\* The cutoff of a build that completes now.
<1>2. ASSUME NEW b \in Builders, BuildFinish(b), NEW c \in Cutoffs, seen[c] = NoRows, seen'[c] # NoRows
      PROVE  /\ c < clock'
             /\ \A a \in Clients : \A r \in newRcpts'[a] : c < r.avail
             /\ PointInTime(c)' = seen'[c]
  <2>1. /\ pc[b] = "read" /\ job[b].now < clock /\ EndTransaction(b)
        /\ clock' = clock /\ UNCHANGED store
        /\ seen' = IF seen[job[b].cutoff] = NoRows
                   THEN [seen EXCEPT ![job[b].cutoff] = job[b].rows] ELSE seen
    <3>1. job[b].now \in Int
      BY DEF TypeOK, Job
    <3> QED BY <1>0, <1>2, <3>1 DEF BuildFinish
  <2>2. c = job[b].cutoff /\ seen'[c] = job[b].rows
    BY <1>2, <2>1 DEF TypeOK
  <2>3. c <= job[b].now /\ job[b].rows = PointInTime(c)
    BY <2>1, <2>2 DEF ReadInv
  <2>4. c < clock'
    <3>1. job[b].now \in Int
      BY DEF TypeOK, Job
    <3> QED BY <1>0, <2>1, <2>3, <3>1
  <2>5. \A a \in Clients : newRcpts'[a] = {}
    <3>1. \A a \in Clients : a # b => newRcpts[a] = {}
      BY <2>1, ReadAlone
    <3> QED BY <2>1, <3>1, ClientKinds DEF EndTransaction, TypeOK
  <2>6. PointInTime(c)' = PointInTime(c)
    BY <2>1, StorePointInTime
  <2> QED BY <2>2, <2>3, <2>4, <2>5, <2>6
<1>3. ASSUME NEW b \in Builders, BuildFinish(b), NEW c \in Cutoffs, seen[c] # NoRows
      PROVE  seen'[c] = seen[c]
  BY <1>3 DEF BuildFinish, TypeOK
<1>4. ASSUME NEW c \in Cutoffs, seen'[c] # NoRows
      PROVE  /\ c < clock'
             /\ \A a \in Clients : \A r \in newRcpts'[a] : c < r.avail
             /\ PointInTime(c)' = seen'[c]
  BY <1>1, <1>2, <1>3, <1>4, SeenFrame
<1> QED BY <1>4 DEF SeenInv, PointInTimeStable

\* The empty store satisfies the inductive invariant.
LEMMA InvInit == Init => IInv
<1> SUFFICES ASSUME Init PROVE IInv
  OBVIOUS
<1>1. TypeOK
  BY TypeInit
<1>2. Versions = {} /\ \A a \in Clients : Uncommitted(a) = {}
  BY DEF Init, Versions, Uncommitted, VersionsIn, NoWrites
<1>3. BatchInv
  BY DEF Init, BatchInv, OneRowPerKey
<1>4. HistoryInv /\ FreshnessOrder
  BY <1>2 DEF Init, HistoryInv, VersionOrder, FreshnessOrder, NoWrites
<1>5. PendingInv
  BY <1>2 DEF Init, PendingInv, PendingBarsInv, PendingRevsInv, PendingUnique, NoWrites
<1>6. PhaseInv
  BY ClientKinds DEF Init, PhaseInv
<1>7. ReceiptAfterCommit
  BY DEF Init, ReceiptAfterCommit
<1>8. ReadInv
  BY ClientKinds DEF Init, ReadInv
<1>9. SeenInv /\ PointInTimeStable
  BY DEF Init, SeenInv, PointInTimeStable
<1> QED BY <1>1, <1>3, <1>4, <1>5, <1>6, <1>7, <1>8, <1>9 DEF IInv

\* Every step preserves the inductive invariant.
LEMMA InvStep == IInv /\ [Next]_vars => IInv'
<1> SUFFICES ASSUME IInv, [Next]_vars PROVE IInv'
  OBVIOUS
<1>1. TypeOK'
  BY TypeStep DEF IInv
<1> QED BY <1>1, BatchStep, HistoryStep, PendingStep, PhaseStep, ReceiptStep, ReadStep, SeenStep DEF IInv

\* The inductive invariant holds in every reachable state.
THEOREM InvariantHolds == Spec => []IInv
BY InvInit, InvStep, PTL DEF Spec

-----------------------------------------------------------------------------
(* The properties.                                                         *)

\* No receipt, committed or in flight, names a version that is not committed.
THEOREM ReceiptsFollowCommits == Spec => []ReceiptAfterCommit
<1>1. IInv => ReceiptAfterCommit
  BY DEF IInv
<1> QED BY <1>1, InvariantHolds, PTL

\* Versions of a bar are totally ordered by recorded_at, the current bar last.
THEOREM VersionsOrdered == Spec => []VersionOrder
<1>1. IInv => VersionOrder
  BY DEF IInv, HistoryInv
<1> QED BY <1>1, InvariantHolds, PTL

\* Revisions only ever replace a bar by more recently fetched evidence.
THEOREM RevisionsFresher == Spec => []FreshnessOrder
<1>1. IInv => FreshnessOrder
  BY DEF IInv
<1> QED BY <1>1, InvariantHolds, PTL

\* Versions and their evidence move forward together.
THEOREM HistoryStaysOrdered == Spec => []HistoryOrdered
BY VersionsOrdered, RevisionsFresher, PTL DEF HistoryOrdered

\* The history is ordered and its receipts name committed versions.
THEOREM HistoryStaysSound == Spec => []HistorySound
BY HistoryStaysOrdered, ReceiptsFollowCommits, PTL DEF HistorySound

\* What a completed build read at its cutoff never changes: the snapshot of a
\* past cutoff can be rebuilt from the store at any later time.
THEOREM PastIsFrozen == Spec => []PointInTimeStable
<1>1. IInv => PointInTimeStable
  BY DEF IInv
<1> QED BY <1>1, InvariantHolds, PTL

-----------------------------------------------------------------------------
(* The snapshots.                                                          *)

\* A write statement stores only versions that satisfy the table constraints.
LEMMA WriteTrust ==
  ASSUME TypeOK, NEW a \in Clients, NEW rows \in SUBSET Row, Accepted(a, rows), WriteBars(a, rows),
         \A v \in Versions \cup Uncommitted(a) : ConstraintsHold(v)
  PROVE  /\ \A v \in Uncommitted(a)' : ConstraintsHold(v)
         /\ \A c \in Clients : c # a => Uncommitted(c)' = Uncommitted(c)
<1> DEFINE changed == {row \in rows : ~ Unchanged(BarSeenBy(a, row.key), row)}
<1>1. \A row \in changed : ConstraintsHold(Stored(a, row))
  BY DEF Accepted
<1>2. \A k \in Keys : BarSeenBy(a, k) # NoBar => ConstraintsHold(BarSeenBy(a, k))
  BY DEF BarSeenBy, Versions, Uncommitted, VersionsIn
<1>3. \A k \in Keys : newBars'[a][k] = newBars[a][k] \/ \E row \in changed : newBars'[a][k] = Stored(a, row)
  BY DEF WriteBars, TypeOK
<1>4. \A r \in newRevs'[a] : r \in newRevs[a] \/
        \E row \in changed : /\ BarSeenBy(a, row.key) # NoBar
                             /\ r = [prev |-> BarSeenBy(a, row.key), next |-> Stored(a, row)]
  BY DEF WriteBars, TypeOK
<1>5. \A k \in Keys : newBars'[a][k] # NoBar => ConstraintsHold(newBars'[a][k])
  BY <1>1, <1>3 DEF Uncommitted, VersionsIn
<1>6. \A row \in rows : row.key \in Keys
  BY DEF Row
<1>7. \A r \in newRevs'[a] : ConstraintsHold(r.prev) /\ ConstraintsHold(r.next)
  <2>1. \A r \in newRevs[a] : ConstraintsHold(r.prev) /\ ConstraintsHold(r.next)
    BY DEF Uncommitted, VersionsIn
  <2> QED BY <1>1, <1>2, <1>4, <1>6, <2>1
<1>8. \A c \in Clients : c # a => newBars'[c] = newBars[c] /\ newRevs'[c] = newRevs[c]
  BY DEF WriteBars, TypeOK
<1> QED BY <1>5, <1>7, <1>8 DEF Uncommitted, VersionsIn

\* Uncommitted bars change by a write statement or by the end of a transaction.
LEMMA PendingSteps ==
  ASSUME TypeOK, [Next]_vars
  PROVE  \/ UNCHANGED <<newBars, newRevs>>
         \/ \E a \in Clients : EndTransaction(a)
         \/ \E a \in Clients : \E rows \in SUBSET Row : Accepted(a, rows) /\ WriteBars(a, rows)
<1> USE ClientKinds DEF pending
<1>1. ASSUME NEW w \in Workers, UpsertBatch(w)
      PROVE  \E rows \in SUBSET Row : Accepted(w, rows) /\ WriteBars(w, rows)
  BY <1>1 DEF UpsertBatch, TypeOK
<1>2. ASSUME NEW d \in Writers, DirectWrite(d)
      PROVE  \E rows \in SUBSET Row : Accepted(d, rows) /\ WriteBars(d, rows)
  <2>1. PICK k \in Keys, v \in Vals, t \in (clock - HostSkew)..clock :
          LET row == [key |-> k, val |-> v, fetched |-> t] IN Accepted(d, {row}) /\ WriteBars(d, {row})
    BY <1>2 DEF DirectWrite
  <2>2. t \in Int
    BY BoundsAssumption DEF TypeOK
  <2>3. {[key |-> k, val |-> v, fetched |-> t]} \in SUBSET Row
    BY <2>2 DEF Row
  <2> QED BY <2>1, <2>3
<1>3. CASE \E w \in Workers : Fetch(w) \/ BeginUpsert(w) \/ LoadAndPlan(w) \/ BeginFinalize(w) \/ Finalize(w)
  BY <1>3 DEF Fetch, BeginUpsert, LoadAndPlan, BeginFinalize, Finalize
<1>4. CASE \E w \in Workers : CommitUpsert(w) \/ CommitFinalize(w)
  BY <1>4 DEF CommitUpsert, CommitFinalize
<1>5. CASE \E d \in Writers : BeginDirect(d) \/ DirectReceipt(d) \/ CommitDirect(d)
  BY <1>5 DEF BeginDirect, DirectReceipt, CommitDirect
<1>6. CASE \E b \in Builders : BuildLock(b) \/ BuildFuture(b) \/ BuildRead(b) \/ BuildFinish(b)
  BY <1>6 DEF BuildLock, BuildFuture, BuildRead, BuildFinish
<1>7. CASE \E a \in Clients : Rollback(a)
  BY <1>7 DEF Rollback
<1>8. CASE Tick \/ UNCHANGED vars
  BY <1>8 DEF Tick, vars
<1> QED BY <1>1, <1>2, <1>3, <1>4, <1>5, <1>6, <1>7, <1>8 DEF Next

\* Every step keeps the timestamps of versions and receipts in order.
LEMMA TrustStep ==
  ASSUME IInv, TrustInv, [Next]_vars PROVE TrustInv'
<1> TypeOK /\ PendingInv
  BY DEF IInv
<1>1. \A v \in Versions' : ConstraintsHold(v)
  <2>1. CASE UNCHANGED store
    BY <2>1, StorePointInTime DEF TrustInv
  <2>2. ASSUME NEW a \in Clients, Commits(a) PROVE \A v \in Versions' : ConstraintsHold(v)
    BY <2>2, CommitVersions DEF Commits, TrustInv
  <2> QED BY <2>1, <2>2, StoreSteps
<1>2. \A c \in Clients : \A v \in Uncommitted(c)' : ConstraintsHold(v)
  <2>1. CASE UNCHANGED <<newBars, newRevs>>
    BY <2>1 DEF TrustInv, Uncommitted, VersionsIn
  <2>2. ASSUME NEW a \in Clients, EndTransaction(a)
        PROVE  \A c \in Clients : \A v \in Uncommitted(c)' : ConstraintsHold(v)
    BY <2>2 DEF TrustInv, EndTransaction, Uncommitted, VersionsIn, TypeOK, NoWrites
  <2>3. ASSUME NEW a \in Clients, NEW rows \in SUBSET Row, Accepted(a, rows), WriteBars(a, rows)
        PROVE  \A c \in Clients : \A v \in Uncommitted(c)' : ConstraintsHold(v)
    <3>1. \A v \in Versions \cup Uncommitted(a) : ConstraintsHold(v)
      BY DEF TrustInv
    <3>2. \A c \in Clients : \A v \in Uncommitted(c) : ConstraintsHold(v)
      BY DEF TrustInv
    <3> QED BY <2>3, <3>1, <3>2, WriteTrust
  <2> QED BY <2>1, <2>2, <2>3, PendingSteps
<1>3. ASSUME NEW c \in Clients, NEW r \in newRcpts'[c] PROVE r.rec <= r.avail
  <2>1. CASE r \in newRcpts[c]
    BY <2>1 DEF TrustInv
  <2>2. CASE r \notin newRcpts[c]
    <3>1. PICK a \in Clients : Stamps(a)
      BY <2>2, ReceiptSteps
    <3>2. PICK V \in SUBSET (Versions \cup Uncommitted(a)) :
             StampReceipts(a, V) /\ \A v \in V : MayStamp(a, v)
      BY <3>1 DEF Stamps
    <3>3. PICK v \in V : r = [key |-> v.key, rec |-> v.rec, avail |-> clock]
      BY <2>2, <3>2 DEF StampReceipts, TypeOK
    <3>4. clock >= v.rec
      BY <3>2, <3>3 DEF MayStamp
    <3>5. v.rec \in Int /\ clock \in Int
      <4>1. v \in Version
        BY <3>3, VersionsTyped
      <4> QED BY <4>1 DEF Version, TypeOK
    <3> QED BY <3>3, <3>4, <3>5
  <2> QED BY <2>1, <2>2
<1>4. \A r \in receipts' : r.rec <= r.avail
  <2>1. CASE UNCHANGED store
    BY <2>1 DEF store, TrustInv
  <2>2. ASSUME NEW a \in Clients, Commits(a) PROVE \A r \in receipts' : r.rec <= r.avail
    BY <2>2 DEF Commits, PublishWrites, TrustInv
  <2> QED BY <2>1, <2>2, StoreSteps
<1>5. \A r \in (receipts \cup UNION {newRcpts[a] : a \in Clients})' : r.rec <= r.avail
  BY <1>3, <1>4
<1>6. \A v \in (Versions \cup UNION {Uncommitted(a) : a \in Clients})' : ConstraintsHold(v)
  BY <1>1, <1>2
<1> QED BY <1>5, <1>6 DEF TrustInv, ConstraintsHold

\* Only a finishing build seals a snapshot or reports on the rows it read.
LEMMA SnapFrame ==
  ASSUME TypeOK, [Next]_vars
  PROVE  \/ /\ snap' = snap /\ seen' = seen
            /\ \A b \in Builders : result'[b] \in {result[b], "none", "future"}
         \/ \E b \in Builders : BuildFinish(b)
<1>1. CASE \E w \in Workers : Fetch(w) \/ BeginUpsert(w) \/ LoadAndPlan(w) \/ UpsertBatch(w)
              \/ BeginFinalize(w) \/ Finalize(w) \/ CommitUpsert(w) \/ CommitFinalize(w)
  BY <1>1 DEF Fetch, BeginUpsert, LoadAndPlan, UpsertBatch, BeginFinalize, Finalize,
              CommitUpsert, CommitFinalize
<1>2. CASE \E d \in Writers : BeginDirect(d) \/ DirectWrite(d) \/ DirectReceipt(d) \/ CommitDirect(d)
  BY <1>2 DEF BeginDirect, DirectWrite, DirectReceipt, CommitDirect
<1>3. CASE \E b \in Builders : BuildLock(b) \/ BuildFuture(b) \/ BuildRead(b)
  BY <1>3 DEF BuildLock, BuildFuture, BuildRead, TypeOK
<1>4. CASE Tick \/ UNCHANGED vars \/ \E a \in Clients : Rollback(a)
  BY <1>4 DEF Tick, vars, Rollback
<1> QED BY <1>1, <1>2, <1>3, <1>4 DEF Next

\* The rows of a point-in-time read satisfy the pinned availability order.
LEMMA ReadTrusted ==
  ASSUME TypeOK, TrustInv, NEW c \in Cutoffs PROVE Trusted(c, PointInTime(c))
<1> SUFFICES ASSUME NEW x \in Suffix(c, PointInTime(c))
             PROVE  /\ SessionClose[x.ver.key] <= x.ver.fetched
                    /\ x.ver.fetched <= x.ver.rec /\ x.ver.rec <= x.avail /\ x.avail <= c
  BY DEF Trusted
<1>1. x \in Finalized(c)
  BY DEF Suffix, PointInTime
<1>2. x.ver \in Versions /\ [key |-> x.ver.key, rec |-> x.ver.rec, avail |-> x.avail] \in receipts
      /\ x.avail <= c
  BY <1>1 DEF Finalized
<1>3. ConstraintsHold(x.ver)
  BY <1>2 DEF TrustInv
<1>4. x.ver.rec <= x.avail
  <2>1. \A r \in receipts : r.rec <= r.avail
    BY DEF TrustInv
  <2> QED BY <1>2, <2>1
<1>5. x.ver \in Version
  BY <1>2, VersionsTyped
<1> QED BY <1>2, <1>3, <1>4, <1>5, CalendarAssumption DEF ConstraintsHold, Version

\* A finishing build reads what the first completed build at its cutoff read.
LEMMA FinishRows ==
  ASSUME IInv, NEW b \in Builders, BuildFinish(b), NEW c, c = job[b].cutoff
  PROVE  /\ c \in Cutoffs /\ job[b].rows = PointInTime(c)
         /\ seen' = [seen EXCEPT ![c] = PointInTime(c)]
         /\ PointInTime(c) # NoRows
         /\ seen[c] # NoRows => seen[c] = PointInTime(c)
<1>1. pc[b] = "read" /\ TypeOK
  BY DEF BuildFinish, IInv
<1>2. c \in Cutoffs /\ job[b].rows = PointInTime(c)
  BY <1>1, ClientKinds DEF IInv, PhaseInv, ReadInv
<1>3. seen[c] # NoRows => seen[c] = PointInTime(c)
  BY <1>2 DEF IInv, PointInTimeStable
<1>4. PointInTime(c) # NoRows
  BY <1>1, PointInTimeTyped, ClientsAssumption DEF NoRows
<1>5. seen' = IF seen[c] = NoRows THEN [seen EXCEPT ![c] = job[b].rows] ELSE seen
  BY DEF BuildFinish
<1>6. CASE seen[c] = NoRows
  BY <1>2, <1>3, <1>4, <1>5, <1>6
<1>7. CASE seen[c] # NoRows
  BY <1>1, <1>2, <1>3, <1>4, <1>5, <1>7 DEF TypeOK
<1> QED BY <1>6, <1>7

\* Every step keeps sealed snapshots equal to what their cutoff reads, and
\* never seals a second one.
LEMMA SealStep ==
  ASSUME IInv, SealInv, [Next]_vars
  PROVE  SealInv' /\ \A c \in Cutoffs : snap[c] # NoRows => snap'[c] = snap[c]
<1> TypeOK
  BY DEF IInv
<1>1. CASE snap' = snap /\ seen' = seen
  BY <1>1 DEF SealInv, Suffix, TooShort
<1>2. ASSUME NEW b \in Builders, BuildFinish(b)
      PROVE  SealInv' /\ \A c \in Cutoffs : snap[c] # NoRows => snap'[c] = snap[c]
  <2> DEFINE c == job[b].cutoff
             rows == PointInTime(c)
  <2>1. c \in Cutoffs /\ job[b].rows = rows /\ seen' = [seen EXCEPT ![c] = rows]
        /\ rows # NoRows /\ (seen[c] # NoRows => seen[c] = rows)
    BY <1>2, FinishRows
  <2>2. snap' = IF Verdict(c, rows) = "created" THEN [snap EXCEPT ![c] = Suffix(c, rows)] ELSE snap
    BY <1>2, <2>1 DEF BuildFinish
  <2> HIDE DEF c, rows
  <2>3. Verdict(c, rows) = "created" => snap[c] = NoRows /\ ~ TooShort(c, rows)
    BY DEF Verdict
  <2>4. seen'[c] = rows /\ \A e \in Cutoffs : e # c => seen'[e] = seen[e]
    BY <2>1 DEF TypeOK
  <2>5. \A e \in Cutoffs : e # c => snap'[e] = snap[e]
    BY <2>2 DEF TypeOK
  <2>6. CASE Verdict(c, rows) = "created"
    <3>1. snap'[c] = Suffix(c, rows)
      BY <2>1, <2>2, <2>6 DEF TypeOK
    <3>2. \A e \in Cutoffs : snap[e] # NoRows => snap'[e] = snap[e]
      BY <2>3, <2>5, <2>6
    <3>3. \A e \in Cutoffs : snap'[e] # NoRows =>
            seen'[e] # NoRows /\ snap'[e] = Suffix(e, seen'[e]) /\ ~ TooShort(e, seen'[e])
      BY <2>1, <2>3, <2>4, <2>5, <2>6, <3>1 DEF SealInv
    <3> QED BY <3>2, <3>3 DEF SealInv, Suffix, TooShort
  <2>7. CASE Verdict(c, rows) # "created"
    <3>1. snap' = snap
      BY <2>2, <2>7
    <3>2. \A e \in Cutoffs : snap'[e] # NoRows =>
            seen'[e] # NoRows /\ snap'[e] = Suffix(e, seen'[e]) /\ ~ TooShort(e, seen'[e])
      BY <2>1, <2>4, <3>1 DEF SealInv
    <3> QED BY <3>1, <3>2 DEF SealInv, Suffix, TooShort
  <2> QED BY <2>6, <2>7
<1> QED BY <1>1, <1>2, SnapFrame

\* No step makes a build report a conflict or untrusted rows.
LEMMA DisputeStep ==
  ASSUME IInv, TrustInv, SealInv, BuildNeverDisputed, [Next]_vars PROVE BuildNeverDisputed'
<1> TypeOK
  BY DEF IInv
<1>1. CASE \A b \in Builders : result'[b] \in {result[b], "none", "future"}
  BY <1>1 DEF BuildNeverDisputed
<1>2. ASSUME NEW b \in Builders, BuildFinish(b) PROVE BuildNeverDisputed'
  <2> DEFINE c == job[b].cutoff
             rows == PointInTime(c)
  <2>1. c \in Cutoffs /\ job[b].rows = rows /\ (seen[c] # NoRows => seen[c] = rows)
    BY <1>2, FinishRows
  <2>2. result' = [result EXCEPT ![b] = Verdict(c, rows)]
    BY <1>2, <2>1 DEF BuildFinish
  <2>3. Trusted(c, rows)
    BY <2>1, ReadTrusted
  <2> HIDE DEF c, rows
  <2>4. snap[c] # NoRows => ~ TooShort(c, rows) /\ Suffix(c, rows) = snap[c]
    BY <2>1 DEF SealInv
  <2>5. Verdict(c, rows) \notin {"conflict", "untrusted"}
    BY <2>3, <2>4 DEF Verdict
  <2> QED BY <2>2, <2>5 DEF BuildNeverDisputed, TypeOK
<1> QED BY <1>1, <1>2, SnapFrame

\* Sealed snapshots agree with the store, and every build agrees with them.
THEOREM SnapshotsReproducible == Spec => [](TrustInv /\ SealInv /\ BuildNeverDisputed)
<1>1. Init => TrustInv /\ SealInv /\ BuildNeverDisputed
  <2> SUFFICES ASSUME Init PROVE TrustInv /\ SealInv /\ BuildNeverDisputed
    OBVIOUS
  <2>1. Versions = {} /\ \A a \in Clients : Uncommitted(a) = {} /\ newRcpts[a] = {}
    BY DEF Init, Versions, Uncommitted, VersionsIn, NoWrites
  <2>2. TrustInv
    BY <2>1 DEF Init, TrustInv
  <2> QED BY <2>2 DEF Init, SealInv, BuildNeverDisputed
<1>2. IInv /\ TrustInv /\ SealInv /\ BuildNeverDisputed /\ [Next]_vars
        => (TrustInv /\ SealInv /\ BuildNeverDisputed)'
  BY TrustStep, SealStep, DisputeStep
<1> QED BY <1>1, <1>2, InvariantHolds, PTL DEF Spec

\* A build that finds its cutoff sealed always reproduces the sealed rows.
THEOREM BuildsReproduce == Spec => []BuildNeverDisputed
BY SnapshotsReproducible, PTL

\* A cutoff once deferred for lack of input is never sealed later.
THEOREM DeferralIsFinal == Spec => []DeferredIsFinal
<1>1. SealInv => DeferredIsFinal
  BY DEF SealInv, DeferredIsFinal
<1> QED BY <1>1, SnapshotsReproducible, PTL

\* Builds of one cutoff never contradict each other.
THEOREM BuildsStayAgreed == Spec => []BuildsAgree
BY BuildsReproduce, DeferralIsFinal, PTL DEF BuildsAgree

\* No step removes a version or a receipt or changes a sealed snapshot.
THEOREM HistoryOnlyGrows == Spec => HistoryAppendOnly
<1>1. IInv /\ SealInv /\ [Next]_vars =>
        [ /\ Versions \subseteq Versions'
          /\ receipts \subseteq receipts'
          /\ \A c \in Cutoffs : snap[c] # NoRows => snap'[c] = snap[c] ]_<<store, snap>>
  <2> SUFFICES ASSUME IInv, SealInv, [Next]_vars
               PROVE  /\ Versions \subseteq Versions'
                      /\ receipts \subseteq receipts'
                      /\ \A c \in Cutoffs : snap[c] # NoRows => snap'[c] = snap[c]
    OBVIOUS
  <2>1. CASE UNCHANGED store
    BY <2>1, SealStep, StorePointInTime DEF store
  <2>2. ASSUME NEW a \in Clients, Commits(a)
        PROVE  Versions \subseteq Versions' /\ receipts \subseteq receipts'
    BY <2>2, CommitVersions DEF Commits, PublishWrites, IInv
  <2> QED BY <2>1, <2>2, SealStep, StoreSteps DEF IInv
<1> QED BY <1>1, InvariantHolds, SnapshotsReproducible, PTL DEF Spec, HistoryAppendOnly

-----------------------------------------------------------------------------
(* Finalization repairs the lane.                                          *)

\* A worker holds the lane lock throughout each of its transactions.
LEMMA LaneStep ==
  ASSUME IInv, LaneInv, [Next]_vars PROVE LaneInv'
<1> USE ClientKinds, ClientsAssumption DEF Goto, store, pending
<1> TypeOK
  BY DEF IInv
<1>1. ASSUME NEW w \in Workers, Fetch(w) \/ LoadAndPlan(w) \/ UpsertBatch(w) \/ Finalize(w)
      PROVE  LaneInv'
  BY <1>1 DEF Fetch, LoadAndPlan, UpsertBatch, Finalize, LaneInv, TypeOK
<1>2. ASSUME NEW w \in Workers, BeginUpsert(w) \/ BeginFinalize(w) PROVE LaneInv'
  BY <1>2 DEF BeginUpsert, BeginFinalize, LaneInv, TypeOK
<1>3. ASSUME NEW a \in Clients, EndTransaction(a), NEW step \in {"idle", "committed"}, Goto(a, step)
      PROVE  LaneInv'
  BY <1>3 DEF EndTransaction, LaneInv, TypeOK
<1>4. ASSUME NEW w \in Workers, CommitUpsert(w) \/ CommitFinalize(w) PROVE LaneInv'
  BY <1>3, <1>4 DEF CommitUpsert, CommitFinalize
<1>5. ASSUME NEW d \in Writers, BeginDirect(d) \/ DirectWrite(d) \/ DirectReceipt(d) PROVE LaneInv'
  BY <1>5, ZenonT(60) DEF BeginDirect, DirectWrite, DirectReceipt, LaneInv, TypeOK
<1>6. ASSUME NEW d \in Writers, CommitDirect(d) PROVE LaneInv'
  BY <1>3, <1>6 DEF CommitDirect
<1>7. ASSUME NEW b \in Builders, BuildLock(b) \/ BuildRead(b) PROVE LaneInv'
  BY <1>7 DEF BuildLock, BuildRead, LaneInv, TypeOK
<1>8. ASSUME NEW b \in Builders, BuildFuture(b) \/ BuildFinish(b) PROVE LaneInv'
  BY <1>3, <1>8 DEF BuildFuture, BuildFinish
<1>9. ASSUME NEW a \in Clients, Rollback(a) PROVE LaneInv'
  BY <1>3, <1>9 DEF Rollback
<1>10. CASE Tick \/ UNCHANGED vars
  BY <1>10 DEF Tick, vars, LaneInv
<1> QED BY <1>1, <1>2, <1>4, <1>5, <1>6, <1>7, <1>8, <1>9, <1>10 DEF Next

\* A worker that has stamped its receipts either has just done so, or its
\* transaction is as it was.
LEMMA StampedFrame ==
  ASSUME TypeOK, [Next]_vars, NEW w \in Workers, pc'[w] = "stamped"
  PROVE  \/ Finalize(w)
         \/ pc[w] = "stamped" /\ newBars'[w] = newBars[w] /\ newRevs'[w] = newRevs[w]
            /\ newRcpts'[w] = newRcpts[w]
<1> USE ClientKinds, ClientsAssumption DEF Goto, store, pending, TypeOK
<1>1. ASSUME NEW u \in Workers, Fetch(u) \/ BeginUpsert(u) \/ LoadAndPlan(u) \/ BeginFinalize(u)
      PROVE  pc[w] = "stamped" /\ UNCHANGED pending
  BY <1>1 DEF Fetch, BeginUpsert, LoadAndPlan, BeginFinalize
<1>2. ASSUME NEW u \in Workers, UpsertBatch(u)
      PROVE  pc[w] = "stamped" /\ newBars'[w] = newBars[w] /\ newRevs'[w] = newRevs[w]
             /\ newRcpts'[w] = newRcpts[w]
  BY <1>2 DEF UpsertBatch, WriteBars
<1>3. ASSUME NEW u \in Workers, u # w, Finalize(u)
      PROVE  pc[w] = "stamped" /\ newBars'[w] = newBars[w] /\ newRevs'[w] = newRevs[w]
             /\ newRcpts'[w] = newRcpts[w]
  BY <1>3 DEF Finalize, StampReceipts
<1>4. ASSUME NEW a \in Clients, EndTransaction(a), NEW step \in {"idle", "committed"}, Goto(a, step)
      PROVE  pc[w] = "stamped" /\ newBars'[w] = newBars[w] /\ newRevs'[w] = newRevs[w]
             /\ newRcpts'[w] = newRcpts[w]
  BY <1>4 DEF EndTransaction
<1>5. ASSUME NEW u \in Workers, CommitUpsert(u) \/ CommitFinalize(u)
      PROVE  pc[w] = "stamped" /\ newBars'[w] = newBars[w] /\ newRevs'[w] = newRevs[w]
             /\ newRcpts'[w] = newRcpts[w]
  BY <1>4, <1>5 DEF CommitUpsert, CommitFinalize
<1>6. ASSUME NEW d \in Writers, BeginDirect(d) \/ DirectWrite(d) \/ DirectReceipt(d)
      PROVE  pc[w] = "stamped" /\ newBars'[w] = newBars[w] /\ newRevs'[w] = newRevs[w]
             /\ newRcpts'[w] = newRcpts[w]
  BY <1>6 DEF BeginDirect, DirectWrite, DirectReceipt, WriteBars, StampReceipts
<1>7. ASSUME NEW d \in Writers, CommitDirect(d)
      PROVE  pc[w] = "stamped" /\ newBars'[w] = newBars[w] /\ newRevs'[w] = newRevs[w]
             /\ newRcpts'[w] = newRcpts[w]
  BY <1>4, <1>7 DEF CommitDirect
<1>8. ASSUME NEW b \in Builders, BuildLock(b) \/ BuildRead(b)
      PROVE  pc[w] = "stamped" /\ UNCHANGED pending
  BY <1>8 DEF BuildLock, BuildRead
<1>9. ASSUME NEW b \in Builders, BuildFuture(b) \/ BuildFinish(b)
      PROVE  pc[w] = "stamped" /\ newBars'[w] = newBars[w] /\ newRevs'[w] = newRevs[w]
             /\ newRcpts'[w] = newRcpts[w]
  BY <1>4, <1>9 DEF BuildFuture, BuildFinish
<1>10. ASSUME NEW a \in Clients, Rollback(a)
       PROVE  pc[w] = "stamped" /\ newBars'[w] = newBars[w] /\ newRevs'[w] = newRevs[w]
              /\ newRcpts'[w] = newRcpts[w]
  BY <1>4, <1>10 DEF Rollback
<1>11. CASE Tick \/ UNCHANGED vars
  BY <1>11 DEF Tick, vars
<1> QED BY <1>1, <1>2, <1>3, <1>5, <1>6, <1>7, <1>8, <1>9, <1>10, <1>11 DEF Next

\* While a worker holds its stamped receipts nobody commits a worker's version.
LEMMA NoVersionBehindStamps ==
  ASSUME IInv, LaneInv, [Next]_vars, NEW w \in Workers, pc[w] = "stamped", pc'[w] = "stamped",
         NEW v \in Versions', v.xid[1] \in Workers
  PROVE  v \in Versions
<1> USE ClientKinds
<1> TypeOK /\ PendingInv
  BY DEF IInv
<1>1. CASE UNCHANGED store
  BY <1>1, StorePointInTime
<1>2. ASSUME NEW a \in Clients, Commits(a) PROVE v \in Versions
  <2>1. a # w
    BY <1>2 DEF Commits
  <2>2. a \notin Workers
    BY <1>2, <2>1 DEF Commits, LaneInv
  <2>3. Versions' = Versions \cup Uncommitted(a)
    BY <1>2, CommitVersions DEF Commits
  <2>4. ASSUME v \in Uncommitted(a) PROVE v \in Versions
    <3>1. v \in Version /\ v.key \in Keys /\ (v = bars[v.key] \/ v.xid = MyXid(a))
      BY <2>4, UncommittedBelow
    <3>2. v.xid # MyXid(a)
      BY <2>2 DEF MyXid
    <3> QED BY <3>1, <3>2, ClientsAssumption DEF Versions, VersionsIn
  <2> QED BY <2>3, <2>4
<1> QED BY <1>1, <1>2, StoreSteps

\* Every step keeps what a worker has stamped complete.
LEMMA RepairStep ==
  ASSUME IInv, LaneInv, RepairInv, [Next]_vars PROVE RepairInv'
<1> SUFFICES ASSUME NEW w \in Workers, pc'[w] = "stamped"
             PROVE  /\ newBars'[w] = NoWrites /\ newRevs'[w] = {}
                    /\ \A v \in Versions' : v.xid[1] \in Workers =>
                         \E r \in receipts' \cup newRcpts'[w] : Names(r, v)
  BY DEF RepairInv, Receipted, Names, NoWrites
<1> USE ClientKinds
<1> TypeOK /\ PhaseInv
  BY DEF IInv
<1>1. CASE Finalize(w)
  <2>1. Versions' = Versions /\ receipts' = receipts
    BY <1>1, StorePointInTime DEF Finalize, store
  <2>2. newBars'[w] = NoWrites /\ newRevs'[w] = {}
    BY <1>1 DEF Finalize, PhaseInv
  <2>3. newRcpts'[w] = newRcpts[w] \cup
          {[key |-> v.key, rec |-> v.rec, avail |-> clock] : v \in MissingReceipts(w)}
    BY <1>1 DEF Finalize, StampReceipts, TypeOK
  <2>4. ASSUME NEW v \in Versions PROVE \E r \in receipts' \cup newRcpts'[w] : Names(r, v)
    <3>1. CASE Receipted(w, v)
      BY <2>1, <2>3, <3>1 DEF Receipted
    <3>2. CASE ~ Receipted(w, v)
      <4>1. [key |-> v.key, rec |-> v.rec, avail |-> clock] \in newRcpts'[w]
        BY <2>3, <3>2 DEF MissingReceipts
      <4> QED BY <4>1 DEF Names
    <3> QED BY <3>1, <3>2
  <2> QED BY <2>1, <2>2, <2>4
<1>2. CASE /\ pc[w] = "stamped" /\ newBars'[w] = newBars[w] /\ newRevs'[w] = newRevs[w]
           /\ newRcpts'[w] = newRcpts[w]
  <2>1. receipts \subseteq receipts'
    BY StoreSteps DEF store, Commits, PublishWrites
  <2>2. newBars'[w] = NoWrites /\ newRevs'[w] = {}
    BY <1>2 DEF RepairInv
  <2>3. ASSUME NEW v \in Versions', v.xid[1] \in Workers
        PROVE  \E r \in receipts' \cup newRcpts'[w] : Names(r, v)
    <3>1. v \in Versions
      BY <1>2, <2>3, NoVersionBehindStamps
    <3>2. Receipted(w, v)
      BY <1>2, <2>3, <3>1 DEF RepairInv
    <3> QED BY <1>2, <2>1, <3>2 DEF Receipted
  <2> QED BY <2>2, <2>3
<1> QED BY <1>1, <1>2, StampedFrame

\* A finalizing transaction repairs the lane: when it commits, every version
\* that any worker has committed has a receipt, also those of workers that died
\* between their two transactions (finalize_bar_version_availability).
THEOREM RepairsLane == Spec => FinalizeRepairsLane
<1>1. Init => LaneInv /\ RepairInv
  BY ClientKinds DEF Init, LaneInv, RepairInv
<1>2. IInv /\ LaneInv /\ RepairInv /\ [Next]_vars => (LaneInv /\ RepairInv)'
  BY LaneStep, RepairStep
<1>3. IInv /\ RepairInv /\ [Next]_vars =>
        [ \A w \in Workers : pc[w] = "stamped" /\ CommitFinalize(w) =>
            \A v \in Versions' : v.xid[1] \in Workers => \E r \in receipts' : Names(r, v) ]_vars
  <2> SUFFICES ASSUME IInv, RepairInv, NEW w \in Workers, pc[w] = "stamped", CommitFinalize(w),
                      NEW v \in Versions', v.xid[1] \in Workers
               PROVE  \E r \in receipts' : Names(r, v)
    OBVIOUS
  <2>1. TypeOK /\ PendingInv /\ w \in Clients
    BY ClientKinds DEF IInv
  <2>2. Uncommitted(w) = {}
    BY DEF RepairInv, Uncommitted, VersionsIn, NoWrites
  <2>3. Versions' = Versions \cup Uncommitted(w)
    BY <2>1, CommitVersions DEF CommitFinalize
  <2>4. Receipted(w, v)
    BY <2>2, <2>3 DEF RepairInv
  <2> QED BY <2>4 DEF CommitFinalize, PublishWrites, Receipted
<1> QED BY <1>1, <1>2, <1>3, InvariantHolds, PTL DEF Spec, FinalizeRepairsLane
=============================================================================
