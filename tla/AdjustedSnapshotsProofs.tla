----------------------- MODULE AdjustedSnapshotsProofs -----------------------
(***************************************************************************)
(* Proofs about AdjustedSnapshots, for every number of clients and faults, *)
(* every set of series, collections and cutoffs: what a stored factor set  *)
(* names, what a snapshot rests on, and what the answers say.              *)
(***************************************************************************)
EXTENDS AdjustedSnapshots, FiniteSetTheorems, WellFoundedInduction, TLAPS

-----------------------------------------------------------------------------
(* The inductive invariant.                                                *)

\* Content and receipts have one row for each document; COMMITs in any order
\* cannot make it two.
SameKey(r, q) == r.table \in {"content", "receipt"} /\ r.table = q.table /\ r.doc = q.doc

Tables == {"content", "version", "receipt", "snapshot"}

\* Rows and transactions are of their kind.
RowsInv ==
  /\ now \in Nat \ {0}
  /\ \A r \in stored : r.table \in Tables /\ r.at \in Nat /\ r.at <= now
  /\ \A p \in Clients : \A r \in txn[p].rows : r.table \in Tables /\ r.at \in Nat /\ r.at <= now
  /\ DOMAIN txn = Clients
  /\ \A p \in Clients :
       /\ DOMAIN txn[p] = {"state", "locks", "rows", "versions"}
       /\ txn[p].state \in {"none", "open", "committing", "doomed"}
       /\ txn[p].state = "none" => txn[p].locks = {} /\ txn[p].rows = {}

KeysInv ==
  /\ \A r, q \in stored : SameKey(r, q) => r.at = q.at
  /\ \A p \in Clients : \A r \in txn[p].rows : \A q \in stored : ~ SameKey(r, q)
  /\ \A p, p2 \in Clients : \A r \in txn[p].rows : \A q \in txn[p2].rows :
       SameKey(r, q) => p = p2 /\ r.at = q.at

\* A receipt is of a document whose content is stored and no younger.
Recorded(r) ==
  /\ IsSet(r.doc) \/ IsCollection(r.doc)
  /\ \E c \in stored : c.table = "content" /\ c.doc = r.doc /\ c.at <= r.at

RecordedInv ==
  /\ \A r \in stored : r.table = "receipt" => Recorded(r)
  /\ \A p \in Clients : \A r \in txn[p].rows : r.table = "receipt" => Recorded(r)

\* A fence has one holder, every uncommitted receipt is under its fence, and so
\* the receipts of factor sets become visible in the order of their stamps.
FenceInv ==
  /\ \A p, q \in Clients : p # q => txn[p].locks \cap txn[q].locks = {}
  /\ \A p \in Clients : \A r \in txn[p].rows :
       r.table = "receipt" => ReceiptFences(r.doc) \subseteq txn[p].locks
  /\ \A p \in Clients : \A r \in txn[p].rows : \A q \in FactorReceipts :
       r.table = "receipt" /\ IsSet(r.doc) => q.at < r.at

\* What is available of a series at a time no longer changes: the time is past
\* and no receipt that is still to be committed is stamped before it.
Settled(s, t) ==
  /\ t \in Nat /\ t <= now /\ Candidates(s, t) # {}
  /\ \A p \in Clients : \A r \in txn[p].rows :
       r.table = "receipt" /\ ~ IsSet(r.doc) /\ r.doc.series = s => t < r.at

\* A factor set that names the newest inputs, for good.
SoundSet(d, at) ==
  /\ d.cutoff \in Nat /\ d.cutoff <= at
  /\ \A s \in Series : Settled(s, d.cutoff) /\ d.inputs[s] = Newest(s, d.cutoff)

SetsInv ==
  /\ \A r \in stored : r.table = "content" /\ IsSet(r.doc) => SoundSet(r.doc, r.at)
  /\ \A p \in Clients : \A r \in txn[p].rows :
       r.table = "content" /\ IsSet(r.doc) => SoundSet(r.doc, r.at)

\* A snapshot is of a factor receipt's time, and of the set selected then.
Taken(r) == (\E f \in FactorReceipts : f.at = r.at) /\ r.doc = Selected(r.at)

SnapshotsInv ==
  /\ \A r \in Rows("snapshot") : Taken(r)
  /\ \A p \in Clients : \A r \in txn[p].rows : r.table = "snapshot" => Taken(r)

World == RowsInv /\ KeysInv /\ RecordedInv /\ FenceInv /\ SetsInv /\ SnapshotsInv

FirstFences(k) == {SeriesFence(LockOrder[i]) : i \in 1..k}

\* The document of a call is what the caller asked for; a planned set has inputs.
DocInv(p) ==
  /\ request[p].op = "seal" <=> IsSet(doc[p])
  /\ IsSet(doc[p]) => /\ doc[p].cutoff \in Nat
                      /\ \A s \in Series : \E r \in Receipts(s) : r.at <= doc[p].cutoff
  /\ ~ IsSet(doc[p]) => IsCollection(doc[p])

\* What a call has reached, and what its transaction holds meanwhile.
CallInv(p) ==
  /\ step[p] \in {"start", "prepare", "fences", "content"} =>
       txn[p].state \in {"none", "open"} /\ txn[p].rows = {}
  /\ step[p] \in {"start", "prepare"} => txn[p].locks = {}
  /\ step[p] = "versions" => txn[p].state = "open"
  /\ step[p] = "fences" => \E k \in 0..(Len(LockOrder) - 1) : txn[p].locks = FirstFences(k)
  /\ step[p] = "content" /\ IsSet(doc[p]) => \A s \in Series : SeriesFence(s) \in txn[p].locks
  /\ step[p] \notin {"start", "done"} => DocInv(p)
  /\ step[p] \in {"receipt", "receipt_wait"} => Stored("content", doc[p])
  /\ step[p] \in {"eligible", "snapshot", "snapshot_wait", "lineage"} =>
       \E f \in FactorReceipts : f.doc = doc[p]
  /\ step[p] = "snapshot" => \E f \in FactorReceipts : f.doc = doc[p] /\ chosen[p] = Selected(f.at)

\* What a call may report.
Reported(p) ==
  \E f \in Rows("receipt") :
    /\ f.doc = doc[p]
    /\ request[p].op = "seal" => \E r \in Rows("snapshot") : r.at = f.at /\ r.doc = doc[p]

\* What an answer says.
AnswerInv(p) ==
  /\ reply[p] # "none" => step[p] = "done"
  /\ reply[p] \notin {"unavailable", "semantic_conflict"}
  /\ reply[p] = "ok" => Reported(p)

Typed ==
  /\ faults \in 0..MaxFaults
  /\ request \in [Clients -> Requests]
  /\ step \in [Clients -> Steps]
  /\ reply \in [Clients -> Kinds]
  /\ DOMAIN doc = Clients /\ DOMAIN chosen = Clients /\ DOMAIN inputs = Clients
  /\ \A p \in Clients : DOMAIN inputs[p] \subseteq Series

IInv == Typed /\ World /\ \A p \in Clients : CallInv(p) /\ AnswerInv(p)

-----------------------------------------------------------------------------
(* Newest, Selected and At: what they choose.                              *)

\* Every nonempty bounded set of natural numbers has a greatest element.
LEMMA GreatestElement ==
  ASSUME NEW T, T \subseteq Nat, T # {}, NEW n \in Nat, \A k \in T : k <= n
  PROVE  \E m \in T : \A k \in T : k <= m
<1> DEFINE R == {ss \in Nat \X Nat : ss[1] < ss[2]}
           G == {n - k : k \in T}
<1>1. IsWellFoundedOn(R, Nat)
  BY NatLessThanWellFounded DEF OpToRel
<1>2. G \subseteq Nat /\ G # {}
  <2>1. \A k \in T : k \in Nat /\ n - k \in Nat
    OBVIOUS
  <2> QED  BY <2>1
<1> HIDE DEF R
<1>3. PICK g \in G : \A h \in G : ~ (<<h, g>> \in R)
  <2> HIDE DEF G
  <2> QED  BY <1>1, <1>2, WFMin
<1>4. \A h \in G : ~ (h < g)
  BY <1>2, <1>3 DEF R
<1>5. PICK m \in T : g = n - m
  OBVIOUS
<1>6. ASSUME NEW k \in T PROVE k <= m
  <2>1. n - k \in G /\ k \in Nat /\ m \in Nat
    OBVIOUS
  <2>2. ~ (n - k < n - m)
    BY <2>1, <1>4, <1>5
  <2> QED  BY <2>1, <2>2
<1> QED  BY <1>6

\* The stamp that the rows of one document share.
LEMMA StampIs ==
  ASSUME NEW S, NEW d, NEW r \in S, r.doc = d, \A q \in S : q.doc = d => q.at = r.at
  PROVE  (CHOOSE q \in S : q.doc = d).at = r.at
<1>1. (CHOOSE q \in S : q.doc = d) \in S /\ (CHOOSE q \in S : q.doc = d).doc = d
  OBVIOUS
<1> QED  BY <1>1

LEMMA AtIs ==
  ASSUME KeysInv, NEW table \in {"content", "receipt"}, NEW r \in stored, r.table = table
  PROVE  At(table, r.doc) = r.at
<1>1. r \in Rows(table) /\ \A q \in Rows(table) : q.doc = r.doc => q.at = r.at
  BY DEF KeysInv, SameKey, Rows
<1> QED  BY <1>1, StampIs DEF At

Versions(s, t) == {r \in Rows("content") : r.doc \in Candidates(s, t)}

Latest(V) == (CHOOSE r \in V : \A e \in V : e.at <= r.at).doc
First(E)  == (CHOOSE r \in E : \A q \in E : Precedes(r, q)).doc

\* The newest version at a settled time became available by then.
LEMMA NewestFound ==
  ASSUME World, NEW s, NEW t, Settled(s, t)
  PROVE  \E e \in Receipts(s) : \E c \in Rows("content") :
           /\ e.doc = Newest(s, t) /\ e.at <= t
           /\ c.doc = e.doc /\ c.at <= e.at
<1> DEFINE V == Versions(s, t)
           T == {r.at : r \in V}
<1>1. \A e \in Receipts(s) : \E c \in Rows("content") : c.doc = e.doc /\ c.at <= e.at
  BY DEF World, RecordedInv, Recorded, Receipts, Rows
<1>2. V # {}
  <2>1. PICK e \in Receipts(s) : e.at <= t /\ e.doc \in Candidates(s, t)
    BY DEF Settled, Candidates
  <2> QED  BY <1>1, <2>1 DEF Versions
<1>3. V \subseteq stored
  BY DEF Versions, Rows
<1>4. now \in Nat /\ \A r \in stored : r.at \in Nat /\ r.at <= now
  BY DEF World, RowsInv
<1>5. T \subseteq Nat /\ T # {} /\ \A k \in T : k <= now
  BY <1>2, <1>3, <1>4
<1>6. PICK m \in T : \A k \in T : k <= m
  BY <1>4, <1>5, GreatestElement
<1>7. \E r \in V : \A e \in V : e.at <= r.at
  BY <1>6
<1>8. (CHOOSE r \in V : \A e \in V : e.at <= r.at) \in V
  BY <1>7
<1>9. Newest(s, t) = Latest(V)
  BY DEF Newest, Versions, Latest
<1>10. Newest(s, t) \in Candidates(s, t)
  BY <1>8, <1>9 DEF Latest, Versions
<1>11. PICK e \in Receipts(s) : e.at <= t /\ e.doc = Newest(s, t)
  BY <1>10 DEF Candidates
<1> QED  BY <1>1, <1>11

\* What is recorded of a factor set that has a receipt.
LEMMA ReceiptedSet ==
  ASSUME World, NEW r \in FactorReceipts
  PROVE  \E c \in Rows("content") : c.doc = r.doc /\ c.at <= r.at /\ SoundSet(c.doc, c.at)
<1>1. PICK c \in stored : c.table = "content" /\ c.doc = r.doc /\ c.at <= r.at
  BY DEF World, RecordedInv, Recorded, FactorReceipts, Rows
<1>2. SoundSet(c.doc, c.at)
  BY <1>1 DEF World, SetsInv, FactorReceipts
<1> QED  BY <1>1, <1>2 DEF Rows

\* At the time of a factor receipt a factor set is selected, and it had become
\* available by then.
LEMMA SelectedFound ==
  ASSUME World, NEW f \in FactorReceipts
  PROVE  \E r \in FactorReceipts :
           r.doc = Selected(f.at) /\ r.doc.cutoff <= f.at /\ r.at <= f.at
<1> DEFINE E == Eligible(f.at)
           C == {r.doc.cutoff : r \in E}
<1>1. \A r \in FactorReceipts : r.at \in Nat /\ r.doc.cutoff \in Nat /\ r.doc.cutoff <= r.at
  <2> SUFFICES ASSUME NEW r \in FactorReceipts
               PROVE  r.at \in Nat /\ r.doc.cutoff \in Nat /\ r.doc.cutoff <= r.at
    OBVIOUS
  <2>1. PICK c \in Rows("content") : c.doc = r.doc /\ c.at <= r.at /\ SoundSet(c.doc, c.at)
    BY ReceiptedSet
  <2>2. c.at \in Nat /\ r.at \in Nat
    BY DEF World, RowsInv, FactorReceipts, Rows
  <2> QED  BY <2>1, <2>2 DEF SoundSet
<1>2. f \in E /\ E \subseteq FactorReceipts /\ \A r \in E : r.at <= f.at /\ r.doc.cutoff <= f.at
  BY <1>1 DEF Eligible
<1>3. C \subseteq Nat /\ C # {} /\ f.at \in Nat /\ \A k \in C : k <= f.at
  BY <1>1, <1>2
<1>4. PICK m \in C : \A k \in C : k <= m
  BY <1>3, GreatestElement
<1> DEFINE A == {r.at : r \in {e \in E : e.doc.cutoff = m}}
<1>5. A \subseteq Nat /\ A # {} /\ \A k \in A : k <= f.at
  BY <1>1, <1>2
<1>6. PICK n \in A : \A k \in A : k <= n
  BY <1>3, <1>5, GreatestElement
<1>7. PICK r \in E : r.doc.cutoff = m /\ r.at = n
  OBVIOUS
<1>8. ASSUME NEW q \in E PROVE Precedes(r, q)
  <2>1. q.doc.cutoff \in C /\ q.doc.cutoff <= m /\ m \in Nat /\ q.doc.cutoff \in Nat
    BY <1>1, <1>2, <1>3, <1>4
  <2>2. q.doc.cutoff = m => q.at <= n /\ q.at \in Nat /\ n \in Nat
    BY <1>1, <1>2, <1>5, <1>6
  <2> QED  BY <1>7, <2>1, <2>2 DEF Precedes
<1>9. (CHOOSE x \in E : \A q \in E : Precedes(x, q)) \in E
  BY <1>7, <1>8
<1> QED  BY <1>2, <1>9 DEF Selected

\* What is selected at the time of a factor receipt passes the verification.
LEMMA EvidenceFound ==
  ASSUME World, NEW f \in FactorReceipts
  PROVE  EvidenceHolds(Selected(f.at), f.at)
<1>1. PICK r \in FactorReceipts :
        r.doc = Selected(f.at) /\ r.doc.cutoff <= f.at /\ r.at <= f.at
  BY SelectedFound
<1>2. PICK c \in Rows("content") : c.doc = r.doc /\ c.at <= r.at /\ SoundSet(c.doc, c.at)
  BY ReceiptedSet
<1> DEFINE d == r.doc
<1>3. At("receipt", d) = r.at /\ At("content", d) = c.at /\ Stored("receipt", d)
  <2>1. r \in stored /\ r.table = "receipt" /\ c \in stored /\ c.table = "content"
    BY DEF FactorReceipts, Rows
  <2>2. KeysInv
    BY DEF World
  <2>3. At("receipt", r.doc) = r.at /\ At("content", c.doc) = c.at
    BY <2>1, <2>2, AtIs
  <2> QED  BY <1>2, <2>1, <2>3 DEF Stored, Rows
<1>4. ASSUME NEW s \in Series
      PROVE  /\ Stored("receipt", d.inputs[s]) /\ InputInOrder(d.inputs[s], d.cutoff)
             /\ At("receipt", d.inputs[s]) <= At("content", d)
  <2>1. Settled(s, d.cutoff) /\ d.inputs[s] = Newest(s, d.cutoff) /\ d.cutoff \in Nat /\ d.cutoff <= c.at
    BY <1>2 DEF SoundSet
  <2>2. PICK e \in Receipts(s) : \E i \in Rows("content") :
          e.doc = d.inputs[s] /\ e.at <= d.cutoff /\ i.doc = e.doc /\ i.at <= e.at
    BY <2>1, NewestFound
  <2>3. PICK i \in Rows("content") : i.doc = e.doc /\ i.at <= e.at
    BY <2>2
  <2>4. e \in stored /\ e.table = "receipt" /\ i \in stored /\ i.table = "content"
    BY DEF Receipts, Rows
  <2>5. At("receipt", e.doc) = e.at /\ At("content", i.doc) = i.at
    BY <2>4, AtIs DEF World
  <2>6. e.at \in Nat /\ c.at \in Nat /\ i.at \in Nat
    BY <2>4 DEF World, RowsInv, Rows
  <2>7. Stored("receipt", d.inputs[s])
    BY <2>2, <2>4 DEF Stored, Rows
  <2> QED  BY <1>3, <2>1, <2>2, <2>3, <2>5, <2>6, <2>7 DEF InputInOrder
<1>5. SetInOrder(d) /\ EvidenceInOrder(d) /\ EvidenceStored(d)
  BY <1>2, <1>3, <1>4 DEF SetInOrder, EvidenceInOrder, EvidenceStored
<1> QED  BY <1>1, <1>3, <1>5 DEF EvidenceHolds

-----------------------------------------------------------------------------
(* What a step leaves as it is.                                            *)

\* Whatever is committed next: settled times, stamps and selections stay.
LEMMA Persists ==
  ASSUME World, stored \subseteq stored',
         \A r \in stored' : r \in stored \/ \E p \in Clients : r \in txn[p].rows
  PROVE  /\ \A s, t : Candidates(s, t) \subseteq Candidates(s, t)'
         /\ \A s, t : Settled(s, t) => Newest(s, t)' = Newest(s, t)
         /\ \A table \in {"content", "receipt"} : \A d : Stored(table, d) =>
              Stored(table, d)' /\ At(table, d)' = At(table, d)
         /\ \A f \in FactorReceipts : f \in FactorReceipts' /\ Selected(f.at)' = Selected(f.at)
<1>r. /\ \A r \in stored : r.at \in Nat
      /\ \A p \in Clients : \A r \in txn[p].rows : r.at \in Nat
  BY DEF World, RowsInv
<1>1. ASSUME NEW s, NEW t PROVE Candidates(s, t) \subseteq Candidates(s, t)'
  BY DEF Candidates, Receipts, Rows
<1>2. ASSUME NEW s, NEW t, Settled(s, t) PROVE Newest(s, t)' = Newest(s, t)
  <2>1. \A r \in stored' : r.table = "receipt" /\ ~ IsSet(r.doc) /\ r.doc.series = s /\ r.at <= t
          => r \in stored
    BY <1>r, <1>2 DEF Settled
  <2>2. Candidates(s, t)' = Candidates(s, t)
    BY <2>1 DEF Candidates, Receipts, Rows
  <2>3. ASSUME NEW r \in stored', r.table = "content", r.doc \in Candidates(s, t)
        PROVE  r \in stored
    <3>1. PICK e \in stored : e.table = "receipt" /\ e.doc = r.doc
      BY <2>3 DEF Candidates, Receipts, Rows
    <3>2. PICK c \in stored : c.table = "content" /\ c.doc = r.doc
      BY <3>1 DEF World, RecordedInv, Recorded
    <3>3. SameKey(r, c)
      BY <2>3, <3>2 DEF SameKey
    <3> QED  BY <3>3 DEF World, KeysInv
  <2>4. Versions(s, t)' = Versions(s, t)
    BY <2>2, <2>3 DEF Versions, Rows
  <2>5. Newest(s, t) = Latest(Versions(s, t)) /\ Newest(s, t)' = Latest(Versions(s, t)')
    BY DEF Newest, Latest, Versions
  <2> QED  BY <2>4, <2>5
<1>3. ASSUME NEW table \in {"content", "receipt"}, NEW d, Stored(table, d)
      PROVE  Stored(table, d)' /\ At(table, d)' = At(table, d)
  <2>1. PICK r \in stored : r.table = table /\ r.doc = d
    BY <1>3 DEF Stored, Rows
  <2>2. \A q \in stored' : q.table = table /\ q.doc = d => q \in stored /\ q.at = r.at
    BY <2>1 DEF World, KeysInv, SameKey
  <2>3. At(table, d) = r.at
    BY <2>1, AtIs DEF World
  <2> DEFINE S == {q \in stored' : q.table = table}
  <2>4. r \in S /\ r.doc = d /\ \A q \in S : q.doc = d => q.at = r.at
    BY <2>1, <2>2
  <2>5. (CHOOSE q \in S : q.doc = d).at = r.at
    <3> HIDE DEF S
    <3> QED  BY <2>4, StampIs
  <2>6. At(table, d)' = r.at
    BY <2>5 DEF At, Rows
  <2> QED  BY <2>1, <2>3, <2>6 DEF Stored, Rows
<1>4. ASSUME NEW f \in FactorReceipts PROVE f \in FactorReceipts' /\ Selected(f.at)' = Selected(f.at)
  <2>1. \A p \in Clients : \A r \in txn[p].rows : r.table = "receipt" /\ IsSet(r.doc) => f.at < r.at
    BY DEF World, FenceInv
  <2>2. f.at \in Nat /\ f \in FactorReceipts'
    BY <1>r DEF FactorReceipts, Rows
  <2>3. \A r \in stored' : r.table = "receipt" /\ IsSet(r.doc) /\ r.at <= f.at => r \in stored
    BY <1>r, <2>1, <2>2
  <2>4. Eligible(f.at)' = Eligible(f.at)
    BY <2>3 DEF Eligible, FactorReceipts, Rows
  <2>5. Selected(f.at) = First(Eligible(f.at)) /\ Selected(f.at)' = First(Eligible(f.at)')
    BY DEF Selected, First
  <2> QED  BY <2>2, <2>4, <2>5
<1> QED  BY <1>1, <1>2, <1>3, <1>4

\* The transactions of the others.
OthersKeep(p) ==
  /\ DOMAIN txn' = Clients
  /\ \A q \in Clients \ {p} : txn'[q] = txn[q]

TxnKind(x) ==
  /\ DOMAIN x = {"state", "locks", "rows", "versions"}
  /\ x.state \in {"none", "open", "committing", "doomed"}
  /\ x.state = "none" => x.locks = {} /\ x.rows = {}

\* A row that a transaction may add.
Addable(p, X, r) ==
  /\ r.table \in Tables /\ r.at \in Nat
  /\ \A q \in stored : ~ SameKey(r, q)
  /\ \A q \in Clients : \A x \in txn[q].rows : ~ SameKey(r, x)
  /\ \A x \in X : SameKey(r, x) => r.at = x.at
  /\ r.table = "receipt" => Recorded(r) /\ now < r.at
  /\ r.table = "content" /\ IsSet(r.doc) => SoundSet(r.doc, r.at)
  /\ r.table = "snapshot" => Taken(r)

\* A step of one transaction that commits nothing.
LEMMA WorldKeeps ==
  ASSUME World, NEW p \in Clients, NEW X,
         stored' = stored, now' \in {now, now + 1},
         OthersKeep(p), TxnKind(txn'[p]),
         \A q \in Clients \ {p} : txn'[p].locks \cap txn[q].locks = {},
         txn'[p].rows \subseteq txn[p].rows \cup X,
         txn'[p].rows = {} \/ txn[p].locks \subseteq txn'[p].locks,
         \A r \in X : Addable(p, X, r) /\ r.at <= now',
         \A r \in X : r.table = "receipt" => ReceiptFences(r.doc) \subseteq txn'[p].locks
  PROVE  World'
<1>1. /\ \A s, t : Candidates(s, t) \subseteq Candidates(s, t)'
      /\ \A s, t : Settled(s, t) => Newest(s, t)' = Newest(s, t)
      /\ \A f \in FactorReceipts : f \in FactorReceipts' /\ Selected(f.at)' = Selected(f.at)
  BY Persists
<1>2. now \in Nat /\ now' \in Nat /\ now <= now' /\ now' # 0
  BY DEF World, RowsInv
\* An uncommitted row was there before, or has just been added.
<1>3. \A q \in Clients : \A r \in txn'[q].rows : r \in txn[q].rows \/ (q = p /\ r \in X)
  BY DEF OthersKeep
<1>4. RowsInv'
  <2>1. \A r \in stored' : r.table \in Tables /\ r.at \in Nat /\ r.at <= now'
    BY <1>2 DEF World, RowsInv
  <2>2. \A q \in Clients : \A r \in txn'[q].rows : r.table \in Tables /\ r.at \in Nat /\ r.at <= now'
    BY <1>2, <1>3 DEF World, RowsInv, Addable
  <2>3. \A q \in Clients : TxnKind(txn'[q])
    BY DEF World, RowsInv, TxnKind, OthersKeep
  <2> QED  BY <1>2, <2>1, <2>2, <2>3 DEF RowsInv, TxnKind, OthersKeep
<1>5. KeysInv'
  <2>1. \A q \in Clients : \A r \in txn'[q].rows : \A x \in stored' : ~ SameKey(r, x)
    BY <1>3 DEF World, KeysInv, Addable
  <2>2. ASSUME NEW q \in Clients, NEW q2 \in Clients,
               NEW r \in txn'[q].rows, NEW x \in txn'[q2].rows, SameKey(r, x)
        PROVE  q = q2 /\ r.at = x.at
    <3>1. SameKey(x, r)
      BY <2>2 DEF SameKey
    <3> QED  BY <1>3, <2>2, <3>1 DEF World, KeysInv, Addable
  <2> QED  BY <2>1, <2>2 DEF World, KeysInv
<1>6. RecordedInv'
  <2>1. \A r : Recorded(r) => Recorded(r)'
    BY DEF Recorded
  <2> QED  BY <1>3, <2>1 DEF World, RecordedInv, Addable
<1>7. FenceInv'
  <2>1. \A q, q2 \in Clients : q # q2 => txn'[q].locks \cap txn'[q2].locks = {}
    BY DEF World, FenceInv, OthersKeep
  <2>2. \A q \in Clients : \A r \in txn'[q].rows :
          r.table = "receipt" => ReceiptFences(r.doc) \subseteq txn'[q].locks
    <3>1. SUFFICES ASSUME NEW q \in Clients, NEW r \in txn'[q].rows, r.table = "receipt"
                   PROVE  ReceiptFences(r.doc) \subseteq txn'[q].locks
      OBVIOUS
    <3>2. CASE q # p
      BY <3>1, <3>2 DEF World, FenceInv, OthersKeep
    <3>3. CASE q = p /\ r \in X
      BY <3>1, <3>3
    <3>4. CASE q = p /\ r \in txn[p].rows
      BY <3>1, <3>4 DEF World, FenceInv
    <3> QED  BY <1>3, <3>2, <3>3, <3>4
  <2>3. \A q \in Clients : \A r \in txn'[q].rows : \A x \in FactorReceipts' :
          r.table = "receipt" /\ IsSet(r.doc) => x.at < r.at
    <3>1. FactorReceipts' = FactorReceipts /\ \A x \in FactorReceipts : x.at \in Nat /\ x.at <= now
      BY DEF FactorReceipts, Rows, World, RowsInv
    <3>2. SUFFICES ASSUME NEW q \in Clients, NEW r \in txn'[q].rows, NEW x \in FactorReceipts,
                          r.table = "receipt", IsSet(r.doc)
                   PROVE  x.at < r.at
      BY <3>1
    <3>3. CASE r \in X
      BY <1>2, <3>1, <3>2, <3>3 DEF Addable
    <3>4. CASE r \in txn[q].rows
      BY <3>2, <3>4 DEF World, FenceInv
    <3> QED  BY <1>3, <3>3, <3>4
  <2> QED  BY <2>1, <2>2, <2>3 DEF FenceInv
<1>8. SetsInv'
  <2>1. ASSUME NEW s, NEW t, Settled(s, t) PROVE Settled(s, t)'
    <3>1. t \in Nat /\ t <= now' /\ Candidates(s, t)' # {}
      BY <1>1, <1>2, <2>1 DEF Settled
    <3>2. ASSUME NEW q \in Clients, NEW r \in txn'[q].rows,
                 r.table = "receipt", ~ IsSet(r.doc), r.doc.series = s
          PROVE  t < r.at
      BY <1>2, <1>3, <2>1, <3>2 DEF Settled, Addable
    <3> QED  BY <3>1, <3>2 DEF Settled
  <2>2. ASSUME NEW d, NEW at, SoundSet(d, at) PROVE SoundSet(d, at)'
    BY <1>1, <2>1, <2>2 DEF SoundSet
  <2> QED  BY <1>3, <2>2 DEF World, SetsInv, Addable
<1>9. SnapshotsInv'
  <2>1. ASSUME NEW r, Taken(r) PROVE Taken(r)'
    BY <1>1, <2>1 DEF Taken
  <2> QED  BY <1>3, <2>1 DEF World, SnapshotsInv, Addable, Rows
<1> QED  BY <1>4, <1>5, <1>6, <1>7, <1>8, <1>9 DEF World

\* COMMIT, in whatever order the transactions end.
LEMMA CommitKeeps ==
  ASSUME World, NEW p \in Clients,
         stored' = stored \cup txn[p].rows, now' = now, txn' = [txn EXCEPT ![p] = NoTxn]
  PROVE  World'
<1>0. /\ stored \subseteq stored'
      /\ \A r \in stored' : r \in stored \/ \E q \in Clients : r \in txn[q].rows
  OBVIOUS
<1>1. /\ \A s, t : Candidates(s, t) \subseteq Candidates(s, t)'
      /\ \A s, t : Settled(s, t) => Newest(s, t)' = Newest(s, t)
      /\ \A f \in FactorReceipts : f \in FactorReceipts' /\ Selected(f.at)' = Selected(f.at)
  BY <1>0, Persists
<1>2. now \in Nat /\ now # 0 /\ OthersKeep(p) /\ TxnKind(txn'[p])
      /\ txn'[p].rows = {} /\ txn'[p].locks = {}
  BY DEF World, RowsInv, OthersKeep, TxnKind, NoTxn
<1>3. \A q \in Clients : \A r \in txn'[q].rows : q # p /\ r \in txn[q].rows
  BY <1>2 DEF OthersKeep
<1>4. RowsInv'
  <2>1. \A r \in stored' : r.table \in Tables /\ r.at \in Nat /\ r.at <= now'
    BY DEF World, RowsInv
  <2>2. \A q \in Clients : \A r \in txn'[q].rows : r.table \in Tables /\ r.at \in Nat /\ r.at <= now'
    BY <1>3 DEF World, RowsInv
  <2>3. \A q \in Clients : TxnKind(txn'[q])
    BY <1>2 DEF World, RowsInv, TxnKind, OthersKeep
  <2> QED  BY <1>2, <2>1, <2>2, <2>3 DEF RowsInv, TxnKind, OthersKeep
<1>5. KeysInv'
  <2>1. ASSUME NEW r \in stored', NEW x \in stored', SameKey(r, x) PROVE r.at = x.at
    <3>1. SameKey(x, r)
      BY <2>1 DEF SameKey
    <3> QED  BY <2>1, <3>1 DEF World, KeysInv
  <2>2. ASSUME NEW q \in Clients, NEW r \in txn'[q].rows, NEW x \in stored' PROVE ~ SameKey(r, x)
    BY <1>3, <2>2 DEF World, KeysInv
  <2>3. \A q, q2 \in Clients : \A r \in txn'[q].rows : \A x \in txn'[q2].rows :
          SameKey(r, x) => q = q2 /\ r.at = x.at
    BY <1>3 DEF World, KeysInv
  <2> QED  BY <2>1, <2>2, <2>3 DEF KeysInv
<1>6. RecordedInv'
  <2>1. \A r : Recorded(r) => Recorded(r)'
    BY DEF Recorded
  <2> QED  BY <1>3, <2>1 DEF World, RecordedInv
<1>7. FenceInv'
  <2>1. \A q, q2 \in Clients : q # q2 => txn'[q].locks \cap txn'[q2].locks = {}
    BY <1>2 DEF World, FenceInv, OthersKeep
  <2>2. \A q \in Clients : \A r \in txn'[q].rows :
          r.table = "receipt" => ReceiptFences(r.doc) \subseteq txn'[q].locks
    BY <1>2, <1>3 DEF World, FenceInv, OthersKeep
  <2>3. ASSUME NEW q \in Clients, NEW r \in txn'[q].rows, NEW x \in FactorReceipts',
               r.table = "receipt", IsSet(r.doc)
        PROVE  x.at < r.at
    <3>1. q # p /\ r \in txn[q].rows
      BY <1>3
    <3>2. CASE x \in stored
      BY <2>3, <3>1, <3>2 DEF World, FenceInv, FactorReceipts, Rows
    \* Both would hold the fence of the factor receipts.
    <3>3. CASE x \in txn[p].rows
      <4>1. x.table = "receipt" /\ IsSet(x.doc)
        BY <2>3 DEF FactorReceipts, Rows
      <4>2. <<"factors", "">> \in txn[p].locks /\ <<"factors", "">> \in txn[q].locks
        BY <2>3, <3>1, <3>3, <4>1 DEF World, FenceInv, ReceiptFences
      <4> QED  BY <3>1, <4>2 DEF World, FenceInv
    <3> QED  BY <3>2, <3>3 DEF FactorReceipts, Rows
  <2> QED  BY <2>1, <2>2, <2>3 DEF FenceInv
<1>8. SetsInv'
  <2>1. ASSUME NEW s, NEW t, Settled(s, t) PROVE Settled(s, t)'
    BY <1>1, <1>3, <2>1 DEF Settled
  <2>2. ASSUME NEW d, NEW at, SoundSet(d, at) PROVE SoundSet(d, at)'
    BY <1>1, <2>1, <2>2 DEF SoundSet
  <2> QED  BY <1>3, <2>2 DEF World, SetsInv
<1>9. SnapshotsInv'
  <2>1. ASSUME NEW r, Taken(r) PROVE Taken(r)'
    BY <1>1, <2>1 DEF Taken
  <2> QED  BY <1>3, <2>1 DEF World, SnapshotsInv, Rows
<1> QED  BY <1>4, <1>5, <1>6, <1>7, <1>8, <1>9 DEF World

-----------------------------------------------------------------------------
(* A step of one call.                                                     *)

\* What a step of p leaves to the other calls.
Local(p) ==
  /\ UNCHANGED request /\ OthersKeep(p)
  /\ stored \subseteq stored'
  /\ \A r \in stored' : r \in stored \/ \E q \in Clients : r \in txn[q].rows
  /\ \A q \in Clients \ {p} :
       /\ step'[q] = step[q] /\ doc'[q] = doc[q]
       /\ chosen'[q] = chosen[q] /\ reply'[q] = reply[q]

LEMMA DocStays ==
  ASSUME NEW q \in Clients, DocInv(q), stored \subseteq stored',
         request' = request, doc'[q] = doc[q]
  PROVE  DocInv(q)'
BY DEF DocInv, Receipts, Rows

LEMMA ReportStays ==
  ASSUME NEW q \in Clients, Reported(q), stored \subseteq stored',
         request' = request, doc'[q] = doc[q]
  PROVE  Reported(q)'
BY DEF Reported, Rows

LEMMA OthersUnmoved ==
  ASSUME World, NEW p \in Clients, Local(p),
         NEW q \in Clients, q # p, CallInv(q), AnswerInv(q)
  PROVE  CallInv(q)' /\ AnswerInv(q)'
<1>1. /\ txn'[q] = txn[q] /\ step'[q] = step[q] /\ doc'[q] = doc[q] /\ chosen'[q] = chosen[q]
      /\ reply'[q] = reply[q] /\ stored \subseteq stored' /\ request' = request
  BY DEF Local, OthersKeep
<1>2. \A f \in FactorReceipts : f \in FactorReceipts' /\ Selected(f.at)' = Selected(f.at)
  BY Persists DEF Local
<1>3. DocInv(q) => DocInv(q)'
  BY <1>1, DocStays
<1>4. Reported(q) => Reported(q)'
  BY <1>1, ReportStays
<1>5. Stored("content", doc[q]) => Stored("content", doc[q])'
  BY <1>1 DEF Stored, Rows
<1>6. CallInv(q)'
  BY <1>1, <1>2, <1>3, <1>5 DEF CallInv
<1> QED  BY <1>1, <1>4, <1>6 DEF AnswerInv

LEMMA Assemble ==
  ASSUME IInv, NEW p \in Clients, Local(p), World', Typed', CallInv(p)', AnswerInv(p)'
  PROVE  IInv'
<1>1. ASSUME NEW q \in Clients, q # p PROVE CallInv(q)' /\ AnswerInv(q)'
  BY <1>1, OthersUnmoved DEF IInv
<1>2. \A q \in Clients : CallInv(q)' /\ AnswerInv(q)'
  BY <1>1
<1> QED  BY <1>2 DEF IInv

\* A step that changes no row and no lock.
LEMMA SameWorld ==
  ASSUME IInv, NEW p \in Clients, UNCHANGED <<now, stored>>, txn' = txn \/ txn' = Doomed(p)
  PROVE  /\ World' /\ OthersKeep(p) /\ (txn' = txn => txn'[p].state = txn[p].state)
         /\ txn'[p].rows = txn[p].rows /\ txn'[p].locks = txn[p].locks
         /\ stored \subseteq stored'
         /\ \A r \in stored' : r \in stored \/ \E q \in Clients : r \in txn[q].rows
<1>1. /\ DOMAIN txn = Clients /\ TxnKind(txn[p])
  BY DEF IInv, World, RowsInv, TxnKind
<1>2. /\ OthersKeep(p) /\ TxnKind(txn'[p])
      /\ txn'[p].rows = txn[p].rows /\ txn'[p].locks = txn[p].locks
  BY <1>1 DEF Doomed, OthersKeep, TxnKind
<1>3. \A q \in Clients \ {p} : txn'[p].locks \cap txn[q].locks = {}
  BY <1>2 DEF IInv, World, FenceInv
<1>4. World'
  <2> DEFINE X == {}
  <2>1. txn'[p].rows \subseteq txn[p].rows \cup X /\ txn[p].locks \subseteq txn'[p].locks
    BY <1>2
  <2>2. World /\ stored' = stored /\ now' \in {now, now + 1}
    BY DEF IInv
  <2> QED  BY <1>2, <1>3, <2>1, <2>2, WorldKeeps
<1> QED  BY <1>2, <1>4

\* A call that goes on to another step and keeps its rows and locks.
LEMMA MoveKeeps ==
  ASSUME IInv, NEW p \in Clients, NEW there \in Steps \ {"start"},
         UNCHANGED <<now, stored, request, reply>>, txn' = txn \/ txn' = Doomed(p),
         step[p] # "done", Goto(p, there),
         \A q \in Clients \ {p} : doc'[q] = doc[q] /\ chosen'[q] = chosen[q],
         DOMAIN doc' = Clients /\ DOMAIN chosen' = Clients,
         DOMAIN inputs' = Clients /\ \A q \in Clients : DOMAIN inputs'[q] \subseteq Series,
         faults' \in 0..MaxFaults, CallInv(p)'
  PROVE  IInv'
<1>1. World' /\ Local(p)
  BY SameWorld DEF Local, IInv, Typed, Goto
<1>2. Typed'
  BY DEF IInv, Typed, Goto
<1>3. reply[p] = "none" /\ reply'[p] = "none"
  BY DEF IInv, AnswerInv
<1>4. AnswerInv(p)'
  BY <1>3 DEF AnswerInv
<1> QED  BY <1>1, <1>2, <1>4, Assemble

\* A call that ends.
LEMMA RefuseKeeps ==
  ASSUME IInv, NEW p \in Clients, NEW kind \in Kinds \ {"none", "unavailable", "semantic_conflict"},
         Refuse(p, kind), kind = "ok" => Reported(p),
         UNCHANGED <<now, stored, request, doc, inputs, chosen>>, faults' \in 0..MaxFaults
  PROVE  IInv'
<1>1. World' /\ Local(p)
  BY SameWorld DEF Local, IInv, Typed, Goto, Refuse
<1>2. Typed'
  BY DEF IInv, Typed, Goto, Refuse, Kinds, Steps
<1>3. step'[p] = "done" /\ reply'[p] = kind
  BY DEF IInv, Typed, Goto, Refuse
<1>4. Reported(p) => Reported(p)'
  BY ReportStays
<1>5. CallInv(p)' /\ AnswerInv(p)'
  BY <1>3, <1>4 DEF CallInv, AnswerInv
<1> QED  BY <1>1, <1>2, <1>5, Assemble

-----------------------------------------------------------------------------
(* The actions, in the order of a call.                                    *)

LEMMA CollectKeeps ==
  ASSUME IInv, NEW p \in Clients, Collect(p)
  PROVE  IInv'
<1>1. request[p] \in Requests /\ request[p].op = "collect"
  BY DEF Collect, IInv, Typed
<1>2. IsCollection(request[p].doc) /\ doc'[p] = request[p].doc
  BY <1>1, RequestAssumption DEF Collect, IInv, Typed
<1>3. step'[p] = "content" /\ txn' = txn /\ request' = request
  BY DEF Collect, Goto, IInv, Typed
<1>4. DocInv(p)'
  BY <1>1, <1>2, <1>3 DEF DocInv, IsCollection
<1>5. CallInv(p)'
  BY <1>2, <1>3, <1>4 DEF CallInv, IsCollection, IInv, Collect
<1>6. /\ DOMAIN doc' = Clients /\ DOMAIN chosen' = Clients /\ DOMAIN inputs' = Clients
      /\ \A q \in Clients : DOMAIN inputs'[q] \subseteq Series
      /\ \A q \in Clients \ {p} : doc'[q] = doc[q] /\ chosen'[q] = chosen[q]
      /\ faults' \in 0..MaxFaults /\ "content" \in Steps \ {"start"}
  BY DEF Collect, IInv, Typed, Steps
<1> QED  BY <1>5, <1>6, MoveKeeps DEF Collect

LEMMA SealKeeps ==
  ASSUME IInv, NEW p \in Clients, Seal(p)
  PROVE  IInv'
<1> DEFINE cutoff == request[p].cutoff
<1>1. request[p] \in Requests /\ request[p].op = "seal"
  BY DEF Seal, IInv, Typed
<1>2. cutoff \in Nat
  BY <1>1, RequestAssumption
<1>3. faults' \in 0..MaxFaults
  BY DEF Seal, IInv, Typed
<1>4. CASE cutoff > now \/ \E s \in Series : Candidates(s, cutoff) = {}
  <2>1. Refuse(p, "refused") /\ UNCHANGED <<now, stored, request, doc, inputs, chosen>>
    BY <1>4 DEF Seal
  <2> QED  BY <1>3, <2>1, RefuseKeeps DEF Kinds
<1>5. CASE ~ (cutoff > now \/ \E s \in Series : Candidates(s, cutoff) = {})
  <2>1. /\ doc' = [doc EXCEPT ![p] = Planned(cutoff)] /\ Goto(p, "prepare")
        /\ UNCHANGED <<now, stored, request, inputs, chosen, reply, txn, faults>>
    BY <1>5 DEF Seal
  <2>2. doc'[p] = Planned(cutoff) /\ IsSet(doc'[p]) /\ doc'[p].cutoff = cutoff
    BY <2>1 DEF IInv, Typed, Planned, IsSet
  <2>3. \A s \in Series : \E r \in Receipts(s)' : r.at <= cutoff
    BY <1>5, <2>1 DEF Candidates, Receipts, Rows
  <2>4. DocInv(p)'
    BY <1>1, <1>2, <2>1, <2>2, <2>3 DEF DocInv
  <2>5. step'[p] = "prepare"
    BY <2>1 DEF Goto, IInv, Typed
  <2>6. CallInv(p)'
    BY <2>1, <2>4, <2>5 DEF CallInv, IInv, Seal
  <2>7. /\ DOMAIN doc' = Clients /\ DOMAIN chosen' = Clients /\ DOMAIN inputs' = Clients
        /\ \A q \in Clients : DOMAIN inputs'[q] \subseteq Series
        /\ \A q \in Clients \ {p} : doc'[q] = doc[q] /\ chosen'[q] = chosen[q]
        /\ "prepare" \in Steps \ {"start"}
    BY <2>1 DEF IInv, Typed, Steps
  <2>8. step[p] # "done"
    BY DEF Seal
  <2> QED  BY <1>3, <2>1, <2>6, <2>7, <2>8, MoveKeeps
<1> QED  BY <1>4, <1>5

LEMMA SeriesFinite == IsFiniteSet(Series)
<1> DEFINE I == 1..Len(ReadOrder)
           f == [i \in I |-> ReadOrder[i]]
<1>1. Len(ReadOrder) \in Nat /\ DOMAIN ReadOrder = I
  BY SeriesAssumption
<1>2. IsFiniteSet(I)
  BY <1>1, FS_Interval
<1>3. f \in [I -> Series] /\ \A s \in Series : \E i \in I : f[i] = s
  BY <1>1 DEF Series, Range
<1>4. f \in Surjection(I, Series)
  BY <1>3 DEF Surjection
<1> QED  BY <1>2, <1>4, FS_Surjection

LEMMA ReadSeriesKeeps ==
  ASSUME IInv, NEW p \in Clients, ReadSeries(p)
  PROVE  IInv'
<1> DEFINE n == Cardinality(DOMAIN inputs[p])
<1>1. n \in Nat
  <2>1. DOMAIN inputs[p] \in SUBSET Series
    BY DEF IInv, Typed
  <2> QED  BY <2>1, SeriesFinite, FS_Subset, FS_CardinalityType
<1>2. ReadOrder[n + 1] \in Series
  <2>1. n + 1 \in 1..Len(ReadOrder)
    BY <1>1, SeriesAssumption DEF ReadSeries
  <2> QED  BY <2>1, SeriesAssumption
<1>3. DOMAIN inputs'[p] = DOMAIN inputs[p] \cup {ReadOrder[n + 1]}
  BY DEF ReadSeries, IInv, Typed
<1>4. DOMAIN inputs' = Clients /\ \A q \in Clients : DOMAIN inputs'[q] \subseteq Series
  BY <1>2, <1>3 DEF ReadSeries, IInv, Typed
<1>5. Goto(p, "prepare")
  BY DEF Goto, ReadSeries, IInv, Typed
<1>6. CallInv(p)'
  <2>1. UNCHANGED <<stored, request, step, doc, chosen, txn>> /\ step[p] = "prepare"
    BY DEF ReadSeries
  <2>2. DocInv(p)'
    BY <2>1, DocStays DEF CallInv, IInv
  <2> QED  BY <2>1, <2>2 DEF CallInv, IInv
<1>7. /\ DOMAIN doc' = Clients /\ DOMAIN chosen' = Clients
      /\ \A q \in Clients \ {p} : doc'[q] = doc[q] /\ chosen'[q] = chosen[q]
      /\ faults' \in 0..MaxFaults /\ "prepare" \in Steps \ {"start"}
  BY DEF ReadSeries, IInv, Typed, Steps
<1> QED  BY <1>4, <1>5, <1>6, <1>7, MoveKeeps DEF ReadSeries

\* A move to another step with the same document.
LEMMA GoKeeps ==
  ASSUME IInv, NEW p \in Clients, NEW there \in Steps \ {"start", "snapshot"}, Goto(p, there),
         step[p] \notin {"start", "done"},
         UNCHANGED <<now, stored, request, doc, inputs, chosen, reply>>, faults' \in 0..MaxFaults,
         txn' = txn \/ txn' = Doomed(p),
         there \notin {"prepare", "content", "versions"},
         there = "fences" => txn' = txn /\ step[p] = "prepare",
         there \in {"receipt", "receipt_wait"} => Stored("content", doc[p]),
         there \in {"eligible", "snapshot_wait", "lineage"} => \E f \in FactorReceipts : f.doc = doc[p]
  PROVE  IInv'
<1>1. step'[p] = there
  BY DEF Goto, IInv, Typed
<1>2. DocInv(p)'
  BY DocStays DEF CallInv, IInv
<1>3. there = "fences" => /\ txn'[p].state \in {"none", "open"} /\ txn'[p].rows = {}
                          /\ txn'[p].locks = FirstFences(0) /\ 0 \in 0..(Len(LockOrder) - 1)
  <2>1. FirstFences(0) = {}
    BY DEF FirstFences
  <2>2. 0 \in 0..(Len(LockOrder) - 1)
    <3>1. Len(LockOrder) \in Nat /\ Len(LockOrder) # 0
      BY SeriesAssumption
    <3> QED  BY <3>1
  <2>3. CallInv(p)
    BY DEF IInv
  <2> QED  BY <2>1, <2>2, <2>3 DEF CallInv
<1>4. CallInv(p)'
  BY <1>1, <1>2, <1>3 DEF CallInv, Stored, Rows, FactorReceipts
<1>5. /\ DOMAIN doc' = Clients /\ DOMAIN chosen' = Clients /\ DOMAIN inputs' = Clients
      /\ \A q \in Clients : DOMAIN inputs'[q] \subseteq Series
      /\ \A q \in Clients \ {p} : doc'[q] = doc[q] /\ chosen'[q] = chosen[q]
  BY DEF IInv, Typed
<1> QED  BY <1>4, <1>5, MoveKeeps

LEMMA PreparedKeeps ==
  ASSUME IInv, NEW p \in Clients, Prepared(p)
  PROVE  IInv'
<1>1. faults' \in 0..MaxFaults
  BY DEF Prepared, IInv, Typed
<1>2. CASE Goto(p, "fences") /\ UNCHANGED <<reply, txn>>
  BY <1>1, <1>2, GoKeeps DEF Prepared, Steps
<1>3. CASE Refuse(p, "refused")
  BY <1>1, <1>3, RefuseKeeps DEF Prepared, Kinds
<1> QED  BY <1>2, <1>3 DEF Prepared

LEMMA ContentMatchesKeeps ==
  ASSUME IInv, NEW p \in Clients, ContentMatches(p)
  PROVE  IInv'
<1>1. faults' \in 0..MaxFaults
  BY DEF ContentMatches, IInv, Typed
<1>2. CASE Stored("content", doc[p])
  BY <1>1, <1>2, GoKeeps DEF ContentMatches, Steps
<1>3. CASE ~ Stored("content", doc[p])
  BY <1>1, <1>3, RefuseKeeps DEF ContentMatches, Kinds
<1> QED  BY <1>2, <1>3

LEMMA CollectionAvailableKeeps ==
  ASSUME IInv, NEW p \in Clients, CollectionAvailable(p)
  PROVE  IInv'
<1>1. faults' \in 0..MaxFaults
  BY DEF CollectionAvailable, IInv, Typed
<1>2. request[p].op # "seal"
  BY DEF CollectionAvailable, IInv, CallInv, DocInv
<1>3. CASE Stored("receipt", doc[p])
  <2>1. Reported(p)
    BY <1>2, <1>3 DEF Reported, Stored
  <2> QED  BY <1>1, <1>3, <2>1, RefuseKeeps DEF CollectionAvailable, Kinds
<1>4. CASE ~ Stored("receipt", doc[p])
  BY <1>1, <1>4, RefuseKeeps DEF CollectionAvailable, Kinds
<1> QED  BY <1>3, <1>4

LEMMA FactorSetAvailableKeeps ==
  ASSUME IInv, NEW p \in Clients, FactorSetAvailable(p)
  PROVE  IInv'
<1>1. faults' \in 0..MaxFaults
  BY DEF FactorSetAvailable, IInv, Typed
<1>2. CASE Stored("receipt", doc[p])
  <2>1. \E f \in FactorReceipts : f.doc = doc[p]
    BY <1>2 DEF FactorSetAvailable, Stored, FactorReceipts
  <2> QED  BY <1>1, <1>2, <2>1, GoKeeps DEF FactorSetAvailable, Steps
<1>3. CASE ~ Stored("receipt", doc[p])
  BY <1>1, <1>3, RefuseKeeps DEF FactorSetAvailable, Kinds
<1> QED  BY <1>2, <1>3

-----------------------------------------------------------------------------
(* Fences and rows.                                                        *)

\* A call whose transaction has written or locked something.
LEMMA WriteKeeps ==
  ASSUME IInv, NEW p \in Clients, NEW X,
         NEW there \in {"versions", "content_wait", "receipt_wait", "snapshot_wait"},
         Goto(p, there), step[p] \notin {"start", "done"},
         UNCHANGED <<stored, request, doc, inputs, chosen, reply, faults>>,
         now' \in {now, now + 1}, OthersKeep(p), TxnKind(txn'[p]),
         \A q \in Clients \ {p} : txn'[p].locks \cap txn[q].locks = {},
         txn'[p].rows \subseteq txn[p].rows \cup X, txn[p].locks \subseteq txn'[p].locks,
         \A r \in X : Addable(p, X, r) /\ r.at <= now',
         \A r \in X : r.table = "receipt" => ReceiptFences(r.doc) \subseteq txn'[p].locks,
         there = "versions" => txn'[p].state = "open",
         there = "receipt_wait" => Stored("content", doc[p]),
         there = "snapshot_wait" => \E f \in FactorReceipts : f.doc = doc[p]
  PROVE  IInv'
<1>1. World'
  BY WorldKeeps DEF IInv
<1>2. Local(p)
  BY DEF Local, Goto, IInv, Typed
<1>3. Typed'
  <2>1. there \in Steps
    BY DEF Steps
  <2> QED  BY <2>1 DEF IInv, Typed, Goto
<1>4. step'[p] = there
  BY DEF Goto, IInv, Typed
<1>5. DocInv(p)'
  BY DocStays DEF CallInv, IInv
<1>6. CallInv(p)'
  BY <1>4, <1>5 DEF CallInv, Stored, Rows, FactorReceipts
<1>7. reply[p] = "none" /\ reply'[p] = "none"
  BY DEF IInv, AnswerInv
<1>8. AnswerInv(p)'
  BY <1>7 DEF AnswerInv
<1> QED  BY <1>1, <1>2, <1>3, <1>6, <1>8, Assemble

\* The fences of a factor set are counted by what is locked.
LEMMA FencesCount ==
  ASSUME NEW k \in 0..Len(LockOrder)
  PROVE  Cardinality(FirstFences(k)) = k
<1> DEFINE I == 1..k
           T == FirstFences(k)
           f == [i \in I |-> SeriesFence(LockOrder[i])]
<1>1. /\ Len(LockOrder) \in Nat /\ DOMAIN LockOrder = 1..Len(LockOrder)
      /\ \A a, b \in 1..Len(LockOrder) : LockOrder[a] = LockOrder[b] => a = b
  BY SeriesAssumption DEF IsInjective
<1>2. k \in Nat /\ I \subseteq 1..Len(LockOrder)
  BY <1>1
<1>3. f \in Surjection(I, T)
  BY DEF FirstFences, Surjection
<1>4. \A a, b \in I : f[a] = f[b] => a = b
  BY <1>1, <1>2 DEF SeriesFence
<1>5. f \in Injection(I, T)
  BY <1>3, <1>4 DEF Injection, IsInjective, Surjection
<1>6. IsFiniteSet(I) /\ Cardinality(I) = k
  BY <1>2, FS_Interval
<1> HIDE DEF f, I, T
<1>7. Cardinality(T) = k
  BY <1>3, <1>5, <1>6, FS_Surjection
<1> QED  BY <1>7 DEF T

LEMMA LockFenceKeeps ==
  ASSUME IInv, NEW p \in Clients, LockFence(p)
  PROVE  IInv'
<1>0. /\ CallInv(p) /\ step[p] = "fences" /\ Len(LockOrder) \in Nat
      /\ DOMAIN txn = Clients /\ TxnKind(txn[p])
  BY SeriesAssumption DEF IInv, LockFence, World, RowsInv, TxnKind
<1>1. PICK k \in 0..(Len(LockOrder) - 1) : txn[p].locks = FirstFences(k)
  BY <1>0 DEF CallInv
<1>2. k \in Nat /\ k + 1 \in 1..Len(LockOrder) /\ Cardinality(txn[p].locks) + 1 = k + 1
  <2>1. k \in 0..Len(LockOrder)
    BY <1>0, <1>1
  <2> QED  BY <1>0, <1>1, <2>1, FencesCount
<1> DEFINE fence == SeriesFence(LockOrder[k + 1])
<1>3. /\ Free(p, fence) /\ txn' = Locked(p, fence)
      /\ IF k + 1 = Len(LockOrder) THEN Goto(p, "content") ELSE UNCHANGED step
      /\ UNCHANGED <<now, stored, request, doc, inputs, chosen, reply, faults>>
  BY <1>2 DEF LockFence
<1>4. /\ OthersKeep(p) /\ TxnKind(txn'[p]) /\ txn'[p].state = "open"
      /\ txn'[p].rows = txn[p].rows /\ txn'[p].locks = txn[p].locks \cup {fence}
  BY <1>0, <1>3 DEF Locked, OthersKeep, TxnKind
<1>5. txn'[p].locks = FirstFences(k + 1)
  <2>1. 1..(k + 1) = 1..k \cup {k + 1}
    BY <1>2
  <2> QED  BY <1>1, <1>4, <2>1 DEF FirstFences
<1>6. World'
  <2> DEFINE X == {}
  <2>1. \A q \in Clients \ {p} : txn'[p].locks \cap txn[q].locks = {}
    BY <1>3, <1>4 DEF IInv, World, FenceInv, Free
  <2>2. txn'[p].rows \subseteq txn[p].rows \cup X /\ txn[p].locks \subseteq txn'[p].locks
    BY <1>4
  <2>3. World /\ stored' = stored /\ now' \in {now, now + 1}
    BY <1>3 DEF IInv
  <2> QED  BY <1>4, <2>1, <2>2, <2>3, WorldKeeps
<1>7. Local(p)
  BY <1>3, <1>4 DEF Local, Goto, IInv, Typed
<1>8. Typed'
  BY <1>3 DEF IInv, Typed, Goto, Steps
<1>9. DocInv(p)'
  BY <1>0, <1>3, DocStays DEF CallInv
<1>10. AnswerInv(p)'
  <2>1. reply[p] = "none" /\ reply'[p] = "none"
    BY <1>0, <1>3 DEF IInv, AnswerInv
  <2> QED  BY <2>1 DEF AnswerInv
<1>11. CallInv(p)'
  <2>1. CASE k + 1 = Len(LockOrder)
    <3>1. step'[p] = "content"
      BY <1>3, <2>1 DEF Goto, IInv, Typed
    <3>2. ASSUME NEW s \in Series PROVE SeriesFence(s) \in txn'[p].locks
      <4>1. PICK i \in 1..Len(LockOrder) : s = LockOrder[i]
        BY SeriesAssumption DEF Range
      <4> QED  BY <1>5, <2>1, <4>1 DEF FirstFences
    <3> QED  BY <1>0, <1>4, <1>9, <3>1, <3>2 DEF CallInv
  <2>2. CASE k + 1 # Len(LockOrder)
    <3>1. step'[p] = "fences" /\ k + 1 \in 0..(Len(LockOrder) - 1)
      BY <1>0, <1>2, <1>3, <2>2
    <3> QED  BY <1>0, <1>4, <1>5, <1>9, <3>1 DEF CallInv
  <2> QED  BY <2>1, <2>2
<1> QED  BY <1>6, <1>7, <1>8, <1>10, <1>11, Assemble

\* The content that a publication adds is of a new key.
LEMMA ContentAddable ==
  ASSUME IInv, NEW p \in Clients, NoRival(p, "content", doc[p]), txn[p].rows = {},
         IsSet(doc[p]) => SoundSet(doc[p], now + 1)
  PROVE  \A r \in NewContent(p) : Addable(p, NewContent(p), r) /\ r.at = now + 1 /\ r.table = "content"
<1>1. SUFFICES ASSUME ~ Stored("content", doc[p])
               PROVE  Addable(p, {Row("content", doc[p], now + 1)}, Row("content", doc[p], now + 1))
  BY DEF NewContent, Row
<1> DEFINE r == Row("content", doc[p], now + 1)
<1>2. r.table = "content" /\ r.doc = doc[p] /\ r.at = now + 1
  BY DEF Row
<1> HIDE DEF r
<1>3. r.at \in Nat
  BY <1>2 DEF IInv, World, RowsInv
<1>4. \A q \in stored : ~ SameKey(r, q)
  BY <1>1, <1>2 DEF Stored, Rows, SameKey
<1>5. \A q \in Clients : \A x \in txn[q].rows : ~ SameKey(r, x)
  BY <1>2 DEF NoRival, SameKey
<1>6. Addable(p, {r}, r)
  BY <1>2, <1>3, <1>4, <1>5 DEF Addable, Tables
<1> QED  BY <1>6 DEF r

\* The manifest or the factor set, and the COMMIT after it.
LEMMA InsertKeeps ==
  ASSUME IInv, NEW p \in Clients, step[p] = "content", Insert(p),
         NoRival(p, "content", doc[p]), IsSet(doc[p]) => SoundSet(doc[p], now + 1),
         UNCHANGED <<stored, request, doc, inputs, chosen, faults>>
  PROVE  IInv'
<1>1. CallInv(p) /\ txn[p].rows = {} /\ DOMAIN txn = Clients /\ TxnKind(txn[p])
  BY DEF IInv, CallInv, World, RowsInv, TxnKind
<1> DEFINE X == NewContent(p)
<1>2. \A r \in X : Addable(p, X, r) /\ r.at = now + 1 /\ r.table = "content"
  BY <1>1, ContentAddable
<1>3. now \in Nat /\ now' \in {now, now + 1} /\ \A r \in X : r.at <= now'
  BY <1>2 DEF Insert, IInv, World, RowsInv
<1>4. /\ OthersKeep(p) /\ TxnKind(txn'[p])
      /\ txn'[p].rows = txn[p].rows \cup X /\ txn'[p].locks = txn[p].locks
  BY <1>1 DEF Insert, Committing, OthersKeep, TxnKind
<1>5. \A q \in Clients \ {p} : txn'[p].locks \cap txn[q].locks = {}
  BY <1>4 DEF IInv, World, FenceInv
<1> HIDE DEF X
<1>6. Goto(p, "content_wait") /\ UNCHANGED reply
  BY DEF Insert
<1> QED  BY <1>2, <1>3, <1>4, <1>5, <1>6, WriteKeeps

LEMMA PublishCollectionKeeps ==
  ASSUME IInv, NEW p \in Clients, PublishCollection(p)
  PROVE  IInv'
<1>1. CASE doc[p].page = <<>>
  BY <1>1, InsertKeeps DEF PublishCollection
<1>2. CASE doc[p].page # <<>>
  <2>1. CallInv(p) /\ txn[p].rows = {} /\ DOMAIN txn = Clients /\ TxnKind(txn[p])
    BY DEF PublishCollection, IInv, CallInv, World, RowsInv, TxnKind
  <2> DEFINE X == NewContent(p)
  <2>2. \A r \in X : Addable(p, X, r) /\ r.at = now + 1 /\ r.table = "content"
    BY <2>1, ContentAddable DEF PublishCollection
  <2>3. /\ txn' = [txn EXCEPT ![p].state = "open", ![p].rows = X]
        /\ now' = (IF X = {} THEN now ELSE now + 1)
        /\ Goto(p, "versions") /\ UNCHANGED <<stored, request, doc, inputs, chosen, reply, faults>>
        /\ step[p] = "content"
    BY <1>2 DEF PublishCollection
  <2>4. now \in Nat /\ now' \in {now, now + 1} /\ \A r \in X : r.at <= now'
    BY <2>2, <2>3 DEF IInv, World, RowsInv
  <2>5. /\ OthersKeep(p) /\ TxnKind(txn'[p])
        /\ txn'[p].rows = txn[p].rows \cup X /\ txn'[p].locks = txn[p].locks
        /\ txn'[p].state = "open"
    BY <2>1, <2>3 DEF OthersKeep, TxnKind
  <2>6. \A q \in Clients \ {p} : txn'[p].locks \cap txn[q].locks = {}
    BY <2>5 DEF IInv, World, FenceInv
  <2> HIDE DEF X
  <2> QED  BY <2>2, <2>3, <2>4, <2>5, <2>6, WriteKeeps
<1> QED  BY <1>1, <1>2

LEMMA InsertVersionKeeps ==
  ASSUME IInv, NEW p \in Clients, InsertVersion(p)
  PROVE  IInv'
<1> DEFINE e == Members(doc[p])[txn[p].versions + 1]
           X == NewVersion(e)
<1>1. \A r \in X : r.table = "version" /\ r.at = 0
  BY DEF NewVersion, Row
<1>2. /\ txn' = [txn EXCEPT ![p].versions = @ + 1, ![p].rows = @ \cup X]
      /\ UNCHANGED <<now, stored, request, step, doc, inputs, chosen, reply, faults>>
      /\ step[p] = "versions"
  BY DEF InsertVersion
<1> HIDE DEF X
<1>3. \A r \in X : Addable(p, X, r) /\ r.at <= now'
  BY <1>1, <1>2 DEF Addable, Tables, SameKey, IInv, World, RowsInv
<1>4. DOMAIN txn = Clients /\ TxnKind(txn[p]) /\ txn[p].state = "open"
  <2>1. DOMAIN txn = Clients /\ TxnKind(txn[p])
    BY DEF IInv, World, RowsInv, TxnKind
  <2>2. txn[p].state = "open"
    BY DEF IInv, CallInv, InsertVersion
  <2> QED  BY <2>1, <2>2
<1>5. /\ OthersKeep(p) /\ TxnKind(txn'[p]) /\ txn'[p].state = "open"
      /\ txn'[p].rows = txn[p].rows \cup X /\ txn'[p].locks = txn[p].locks
  BY <1>2, <1>4 DEF OthersKeep, TxnKind
<1>6. \A q \in Clients \ {p} : txn'[p].locks \cap txn[q].locks = {}
  BY <1>5 DEF IInv, World, FenceInv
<1>7. Goto(p, "versions")
  BY <1>2 DEF Goto, IInv, Typed
<1> QED  BY <1>1, <1>2, <1>3, <1>5, <1>6, <1>7, WriteKeeps

LEMMA MembersCompleteKeeps ==
  ASSUME IInv, NEW p \in Clients, MembersComplete(p)
  PROVE  IInv'
<1> DEFINE X == {}
<1>1. DOMAIN txn = Clients /\ TxnKind(txn[p])
  BY DEF IInv, World, RowsInv, TxnKind
<1>2. /\ OthersKeep(p) /\ TxnKind(txn'[p])
      /\ txn'[p].rows = txn[p].rows \cup X /\ txn'[p].locks = txn[p].locks
  BY <1>1 DEF MembersComplete, Committing, OthersKeep, TxnKind
<1>3. \A q \in Clients \ {p} : txn'[p].locks \cap txn[q].locks = {}
  BY <1>2 DEF IInv, World, FenceInv
<1> QED  BY <1>2, <1>3, WriteKeeps DEF MembersComplete

\* Under the fences no receipt is on its way, so what is the newest now is so
\* for good.
LEMMA NewestIsSettled ==
  ASSUME IInv, NEW p \in Clients, step[p] = "content", IsSet(doc[p]), StillNewest(p)
  PROVE  SoundSet(doc[p], now + 1)
<1>1. CallInv(p) /\ txn[p].rows = {} /\ now \in Nat
  BY DEF IInv, CallInv, World, RowsInv
<1>2. /\ doc[p].cutoff \in Nat /\ doc[p].cutoff <= now
      /\ \A s \in Series : SeriesFence(s) \in txn[p].locks /\ Candidates(s, doc[p].cutoff) # {}
  BY <1>1 DEF CallInv, DocInv, StillNewest, Candidates
<1>3. ASSUME NEW s \in Series PROVE Settled(s, doc[p].cutoff)
  <2>1. ASSUME NEW q \in Clients, NEW r \in txn[q].rows,
               r.table = "receipt", ~ IsSet(r.doc), r.doc.series = s
        PROVE  FALSE
    <3>1. q # p
      BY <1>1, <2>1
    <3>2. SeriesFence(s) \in txn[q].locks
      BY <2>1 DEF IInv, World, FenceInv, ReceiptFences
    <3> QED  BY <1>2, <3>1, <3>2 DEF IInv, World, FenceInv
  <2> QED  BY <1>2, <2>1 DEF Settled
<1> QED  BY <1>1, <1>2, <1>3 DEF SoundSet, StillNewest

LEMMA PublishFactorSetKeeps ==
  ASSUME IInv, NEW p \in Clients, PublishFactorSet(p)
  PROVE  IInv'
<1>1. CASE StillNewest(p)
  <2>1. SoundSet(doc[p], now + 1)
    BY <1>1, NewestIsSettled DEF PublishFactorSet
  <2> QED  BY <1>1, <2>1, InsertKeeps DEF PublishFactorSet
<1>2. CASE ~ StillNewest(p)
  <2>1. faults' \in 0..MaxFaults
    BY DEF PublishFactorSet, IInv, Typed
  <2> QED  BY <1>2, <2>1, RefuseKeeps DEF PublishFactorSet, Kinds
<1> QED  BY <1>1, <1>2

LEMMA PublishReceiptKeeps ==
  ASSUME IInv, NEW p \in Clients, PublishReceipt(p)
  PROVE  IInv'
<1>1. /\ CallInv(p) /\ DOMAIN txn = Clients /\ TxnKind(txn[p]) /\ now \in Nat
      /\ step[p] = "receipt" /\ txn[p].state = "none"
  BY DEF PublishReceipt, IInv, World, RowsInv, TxnKind
<1>2. txn[p].rows = {} /\ txn[p].locks = {} /\ DocInv(p) /\ Stored("content", doc[p])
  BY <1>1 DEF TxnKind, CallInv
<1> DEFINE r == Row("receipt", doc[p], now + 1)
           X == NewReceipt(p)
<1>3. r.table = "receipt" /\ r.doc = doc[p] /\ r.at = now + 1
  BY DEF Row
<1>4. X \subseteq {r} /\ (X # {} => ~ Stored("receipt", doc[p]))
  BY DEF NewReceipt
<1> HIDE DEF r, X
<1>5. Recorded(r)
  <2>1. PICK c \in stored : c.table = "content" /\ c.doc = doc[p]
    BY <1>2 DEF Stored, Rows
  <2>2. c.at <= r.at
    BY <1>1, <1>3 DEF IInv, World, RowsInv
  <2> QED  BY <1>2, <1>3, <2>1, <2>2 DEF Recorded, DocInv
<1>6. ASSUME NEW x \in X PROVE Addable(p, X, x) /\ x.at <= now + 1
  <2>1. \A q \in stored : ~ SameKey(r, q)
    BY <1>3, <1>4, <1>6 DEF Stored, Rows, SameKey
  <2>2. \A q \in Clients : \A y \in txn[q].rows : ~ SameKey(r, y)
    BY <1>2, <1>3 DEF PublishReceipt, NoRival, SameKey
  <2> QED  BY <1>1, <1>3, <1>4, <1>5, <1>6, <2>1, <2>2 DEF Addable, Tables
<1>7. /\ OthersKeep(p) /\ TxnKind(txn'[p])
      /\ txn'[p].rows = txn[p].rows \cup X /\ txn'[p].locks = ReceiptFences(doc[p])
  BY <1>1, <1>2 DEF PublishReceipt, Committing, OthersKeep, TxnKind, X
<1>8. \A q \in Clients \ {p} : txn'[p].locks \cap txn[q].locks = {}
  BY <1>7 DEF PublishReceipt, Free
<1>9. \A x \in X : x.table = "receipt" => ReceiptFences(x.doc) \subseteq txn'[p].locks
  BY <1>3, <1>4, <1>7
<1> QED  BY <1>1, <1>2, <1>6, <1>7, <1>8, <1>9, WriteKeeps DEF PublishReceipt

-----------------------------------------------------------------------------
(* The snapshot at the time of the factor receipt.                         *)

LEMMA AsOfIs ==
  ASSUME World, NEW p \in Clients, NEW f \in FactorReceipts, f.doc = doc[p]
  PROVE  AsOf(p) = f.at
<1>1. f \in stored /\ f.table = "receipt" /\ KeysInv
  BY DEF World, FactorReceipts, Rows
<1>2. At("receipt", f.doc) = f.at
  BY <1>1, AtIs
<1> QED  BY <1>2 DEF AsOf

LEMMA SelectFactorsKeeps ==
  ASSUME IInv, NEW p \in Clients, SelectFactors(p)
  PROVE  IInv'
<1>1. CallInv(p) /\ World /\ step[p] = "eligible"
  BY DEF IInv, SelectFactors
<1>2. PICK f \in FactorReceipts : f.doc = doc[p]
  BY <1>1 DEF CallInv
<1>3. AsOf(p) = f.at
  BY <1>1, <1>2, AsOfIs
<1>4. EvidenceHolds(Selected(AsOf(p)), AsOf(p))
  BY <1>1, <1>3, EvidenceFound
<1>5. /\ chosen' = [chosen EXCEPT ![p] = Selected(AsOf(p))] /\ Goto(p, "snapshot")
      /\ UNCHANGED <<now, stored, request, doc, inputs, reply, txn, faults>>
  BY <1>4 DEF SelectFactors
<1>6. chosen'[p] = Selected(f.at) /\ step'[p] = "snapshot"
  BY <1>3, <1>5 DEF Goto, IInv, Typed
<1>7. DocInv(p)'
  BY <1>1, <1>5, DocStays DEF CallInv
<1>8. f \in FactorReceipts' /\ Selected(f.at)' = Selected(f.at) /\ f.doc = doc'[p]
  <2>1. stored \subseteq stored'
        /\ \A r \in stored' : r \in stored \/ \E q \in Clients : r \in txn[q].rows
    BY <1>5
  <2> QED  BY <1>1, <1>2, <1>5, <2>1, Persists
<1>9. CallInv(p)'
  BY <1>6, <1>7, <1>8 DEF CallInv
<1>10. /\ DOMAIN doc' = Clients /\ DOMAIN chosen' = Clients /\ DOMAIN inputs' = Clients
       /\ \A q \in Clients : DOMAIN inputs'[q] \subseteq Series
       /\ \A q \in Clients \ {p} : doc'[q] = doc[q] /\ chosen'[q] = chosen[q]
       /\ faults' \in 0..MaxFaults /\ "snapshot" \in Steps \ {"start"}
  BY <1>5 DEF IInv, Typed, Steps
<1> QED  BY <1>1, <1>5, <1>9, <1>10, MoveKeeps

LEMMA BuildSnapshotKeeps ==
  ASSUME IInv, NEW p \in Clients, BuildSnapshot(p)
  PROVE  IInv'
<1>1. /\ CallInv(p) /\ World /\ step[p] = "snapshot" /\ txn[p].state = "none"
      /\ DOMAIN txn = Clients /\ TxnKind(txn[p])
  BY DEF IInv, BuildSnapshot, World, RowsInv, TxnKind
<1>2. PICK f \in FactorReceipts : f.doc = doc[p] /\ chosen[p] = Selected(f.at)
  BY <1>1 DEF CallInv
<1>3. AsOf(p) = f.at /\ f.at \in Nat /\ f.at <= now /\ now \in Nat
  <2>1. AsOf(p) = f.at
    BY <1>1, <1>2, AsOfIs
  <2> QED  BY <1>1, <2>1 DEF World, RowsInv, FactorReceipts, Rows
<1>4. \A r \in Snapshots(AsOf(p)) : r.doc = chosen[p]
  BY <1>1, <1>2, <1>3 DEF World, SnapshotsInv, Taken, Snapshots
<1> DEFINE X == IF Snapshots(AsOf(p)) # {} THEN {} ELSE {Row("snapshot", chosen[p], AsOf(p))}
<1>5. /\ Free(p, SnapshotLock(AsOf(p)))
      /\ txn' = Committing(p, {SnapshotLock(AsOf(p))}, X)
      /\ Goto(p, "snapshot_wait")
      /\ UNCHANGED <<now, stored, request, doc, inputs, chosen, reply, faults>>
  BY <1>4 DEF BuildSnapshot
<1>6. \A r \in X : r.table = "snapshot" /\ r.doc = Selected(f.at) /\ r.at = f.at
  BY <1>2, <1>3 DEF Row
<1> HIDE DEF X
<1>7. \A r \in X : Addable(p, X, r) /\ r.at <= now'
  BY <1>3, <1>5, <1>6 DEF Addable, Tables, SameKey, Taken
<1>8. /\ OthersKeep(p) /\ TxnKind(txn'[p]) /\ txn[p].locks = {}
      /\ txn'[p].rows = txn[p].rows \cup X /\ txn'[p].locks = {SnapshotLock(AsOf(p))}
  BY <1>1, <1>5 DEF Committing, OthersKeep, TxnKind
<1>9. \A q \in Clients \ {p} : txn'[p].locks \cap txn[q].locks = {}
  BY <1>5, <1>8 DEF Free
<1> QED  BY <1>1, <1>2, <1>5, <1>6, <1>7, <1>8, <1>9, WriteKeeps

LEMMA CheckLineageKeeps ==
  ASSUME IInv, NEW p \in Clients, CheckLineage(p)
  PROVE  IInv'
<1>1. CallInv(p) /\ World /\ step[p] = "lineage"
  BY DEF IInv, CheckLineage
<1>2. PICK f \in FactorReceipts : f.doc = doc[p]
  BY <1>1 DEF CallInv
<1>3. AsOf(p) = f.at
  BY <1>1, <1>2, AsOfIs
<1>4. faults' \in 0..MaxFaults
  BY DEF CheckLineage, IInv, Typed
<1>5. CASE \E r \in Snapshots(AsOf(p)) : r.doc = doc[p]
  <2>1. Reported(p)
    BY <1>2, <1>3, <1>5 DEF Reported, Snapshots, FactorReceipts
  <2> QED  BY <1>4, <1>5, <2>1, RefuseKeeps DEF CheckLineage, Kinds
<1>6. CASE ~ \E r \in Snapshots(AsOf(p)) : r.doc = doc[p]
  BY <1>4, <1>6, RefuseKeeps DEF CheckLineage, Kinds
<1> QED  BY <1>5, <1>6

-----------------------------------------------------------------------------
(* Faults and the server.                                                  *)

LEMMA FaultCounted ==
  ASSUME IInv, Fault
  PROVE  faults' \in 0..MaxFaults
BY SeriesAssumption DEF Fault, IInv, Typed

LEMMA DatabaseErrorKeeps ==
  ASSUME IInv, NEW p \in Clients, DatabaseError(p)
  PROVE  IInv'
<1>1. /\ faults' \in 0..MaxFaults /\ step[p] \notin {"start", "done"}
      /\ UNCHANGED <<now, stored, request, doc, inputs, chosen>>
  BY FaultCounted DEF DatabaseError
<1>2. CASE AfterError(p) = "done"
  <2>1. Refuse(p, KindOfError(p)) /\ KindOfError(p) \in {"unknown", "failed"}
    BY <1>2 DEF DatabaseError, KindOfError
  <2> QED  BY <1>1, <2>1, RefuseKeeps DEF Kinds
<1>3. CASE AfterError(p) # "done"
  <2>1. Goto(p, AfterError(p)) /\ txn' = Doomed(p) /\ UNCHANGED reply
    BY <1>3 DEF DatabaseError
  <2>2. AfterError(p) \in {"content_matches", "receipt_visible"}
    BY <1>3 DEF AfterError
  <2> QED  BY <1>1, <2>1, <2>2, GoKeeps DEF Steps
<1> QED  BY <1>2, <1>3

LEMMA CrashKeeps ==
  ASSUME IInv, NEW p \in Clients, Crash(p)
  PROVE  IInv'
BY FaultCounted, RefuseKeeps DEF Crash, Kinds

LEMMA SessionRollsOverKeeps ==
  ASSUME IInv, NEW p \in Clients, SessionRollsOver(p)
  PROVE  IInv'
BY FaultCounted, RefuseKeeps DEF SessionRollsOver, Kinds

LEMMA ServerCommitKeeps ==
  ASSUME IInv, NEW p \in Clients, ServerCommit(p)
  PROVE  IInv'
<1>0. /\ CallInv(p) /\ AnswerInv(p) /\ World /\ txn[p].state = "committing" /\ DOMAIN txn = Clients
      /\ stored' = stored \cup txn[p].rows /\ txn' = [txn EXCEPT ![p] = NoTxn]
      /\ Goto(p, AfterCommit(p))
      /\ UNCHANGED <<now, request, doc, inputs, chosen, reply, faults>>
  BY DEF IInv, ServerCommit, World, RowsInv
<1>1. World'
  BY <1>0, CommitKeeps
<1>2. /\ stored \subseteq stored'
      /\ \A r \in stored' : r \in stored \/ \E q \in Clients : r \in txn[q].rows
  BY <1>0
<1>3. Local(p)
  BY <1>0, <1>2 DEF Local, OthersKeep, Goto, IInv, Typed
<1>4. step'[p] = AfterCommit(p) /\ AfterCommit(p) \in Steps /\ (step[p] = "done" => AfterCommit(p) = "done")
  BY <1>0 DEF Goto, AfterCommit, IInv, Typed, Steps
<1>5. Typed'
  BY <1>0, <1>4 DEF IInv, Typed, Goto
<1>6. AnswerInv(p)'
  <2>1. Reported(p) => Reported(p)'
    BY <1>0, <1>2, ReportStays
  <2> QED  BY <1>0, <1>4, <2>1 DEF AnswerInv
<1>7. CallInv(p)'
  <2>1. step[p] \notin {"start", "prepare", "fences", "content", "versions"}
    BY <1>0 DEF CallInv
  <2>2. \A f \in FactorReceipts : f \in FactorReceipts' /\ Selected(f.at)' = Selected(f.at)
    BY <1>0, <1>2, Persists
  <2>3. DocInv(p) => DocInv(p)'
    BY <1>0, <1>2, DocStays
  <2>4. CASE step[p] \in {"content_wait", "receipt_wait"}
    <3>1. step'[p] \in {"content_matches", "receipt_visible"}
      BY <1>4, <2>4 DEF AfterCommit
    <3> QED  BY <1>0, <2>3, <2>4, <3>1 DEF CallInv
  <2>5. CASE step[p] = "snapshot_wait"
    <3>1. step'[p] = "lineage"
      BY <1>4, <2>5 DEF AfterCommit
    <3> QED  BY <1>0, <2>2, <2>3, <2>5, <3>1 DEF CallInv
  <2>6. CASE step[p] \notin {"content_wait", "receipt_wait", "snapshot_wait"}
    <3>1. step'[p] = step[p]
      BY <1>4, <2>6 DEF AfterCommit
    <3>2. Stored("content", doc[p]) => Stored("content", doc[p])'
      BY <1>0 DEF Stored, Rows
    <3> QED  BY <1>0, <2>1, <2>2, <2>3, <2>6, <3>1, <3>2 DEF CallInv
  <2> QED  BY <2>4, <2>5, <2>6
<1> QED  BY <1>1, <1>3, <1>5, <1>6, <1>7, Assemble

LEMMA ServerRollbackKeeps ==
  ASSUME IInv, NEW p \in Clients, ServerRollback(p)
  PROVE  IInv'
<1>0. /\ CallInv(p) /\ AnswerInv(p) /\ World /\ DOMAIN txn = Clients
      /\ txn' = [txn EXCEPT ![p] = NoTxn] /\ txn[p].state \in {"doomed", "committing"}
      /\ UNCHANGED <<now, stored, request, step, doc, inputs, chosen, reply, faults>>
  BY DEF IInv, ServerRollback, World, RowsInv, caller
<1>1. OthersKeep(p) /\ TxnKind(txn'[p]) /\ txn'[p].rows = {} /\ txn'[p].locks = {}
  BY <1>0 DEF OthersKeep, TxnKind, NoTxn
<1>2. World'
  <2> DEFINE X == {}
  <2>1. txn'[p].rows \subseteq txn[p].rows \cup X
    BY <1>1
  <2> QED  BY <1>0, <1>1, <2>1, WorldKeeps
<1>3. Local(p)
  BY <1>0, <1>1 DEF Local
<1>4. Typed'
  BY <1>0 DEF IInv, Typed
<1>5. AnswerInv(p)'
  BY <1>0, ReportStays DEF AnswerInv
<1>6. CallInv(p)'
  <2>1. step[p] \notin {"start", "prepare", "fences", "content", "versions"}
    BY <1>0 DEF CallInv
  <2>2. \A f \in FactorReceipts : f \in FactorReceipts' /\ Selected(f.at)' = Selected(f.at)
    BY <1>0, Persists
  <2>3. DocInv(p) => DocInv(p)'
    BY <1>0, DocStays
  <2> QED  BY <1>0, <2>1, <2>2, <2>3 DEF CallInv, Stored, Rows
<1> QED  BY <1>2, <1>3, <1>4, <1>5, <1>6, Assemble

-----------------------------------------------------------------------------
(* The theorems.                                                           *)

LEMMA Starts == Init => IInv
<1> SUFFICES ASSUME Init PROVE IInv
  OBVIOUS
<1>1. /\ now = 1 /\ stored = Founded /\ txn = [p \in Clients |-> NoTxn]
      /\ \A p \in Clients : txn[p] = NoTxn /\ step[p] = "start" /\ reply[p] = "none"
  BY DEF Init
<1>2. /\ \A r \in stored : /\ r.table \in {"content", "receipt"} /\ IsCollection(r.doc)
                           /\ r.at \in {0, 1}
      /\ FactorReceipts = {}
  BY <1>1, FoundedAssumption DEF FactorReceipts, Rows, IsCollection
<1>3. \A p \in Clients : txn[p].rows = {} /\ txn[p].locks = {} /\ TxnKind(txn[p])
  BY <1>1 DEF NoTxn, TxnKind
<1>4. RowsInv
  BY <1>1, <1>2, <1>3 DEF RowsInv, Tables, TxnKind
<1>5. KeysInv
  BY <1>1, <1>3, FoundedAssumption DEF KeysInv, SameKey
<1>6. RecordedInv
  BY <1>1, <1>2, <1>3, FoundedAssumption DEF RecordedInv, Recorded
<1>7. FenceInv
  BY <1>2, <1>3 DEF FenceInv
<1>8. SetsInv
  BY <1>2, <1>3 DEF SetsInv, IsCollection
<1>9. SnapshotsInv
  BY <1>2, <1>3 DEF SnapshotsInv, Rows
<1>10. Typed
  BY SeriesAssumption DEF Init, Typed, Steps, Kinds
<1>11. \A p \in Clients : CallInv(p) /\ AnswerInv(p)
  BY <1>1, <1>3 DEF CallInv, AnswerInv, NoTxn
<1> QED  BY <1>4, <1>5, <1>6, <1>7, <1>8, <1>9, <1>10, <1>11 DEF IInv, World

LEMMA StepKeeps == IInv /\ [Next]_vars => IInv'
<1> SUFFICES ASSUME IInv, [Next]_vars PROVE IInv'
  OBVIOUS
<1>1. CASE UNCHANGED vars
  <2>1. /\ stored' = stored /\ txn' = txn /\ now' = now /\ step' = step /\ doc' = doc /\ chosen' = chosen
        /\ request' = request /\ reply' = reply /\ inputs' = inputs /\ faults' = faults
    BY <1>1 DEF vars, caller
  <2>2. World'
    <3>1. 1 \in Clients
      BY SeriesAssumption DEF Clients
    <3> QED  BY <2>1, <3>1, SameWorld
  <2>3. Typed'
    BY <2>1 DEF IInv, Typed
  <2>4. ASSUME NEW q \in Clients PROVE CallInv(q)' /\ AnswerInv(q)'
    <3>1. \A f \in FactorReceipts : f \in FactorReceipts' /\ Selected(f.at)' = Selected(f.at)
      BY <2>1, Persists DEF IInv
    <3>2. (DocInv(q) => DocInv(q)') /\ (Reported(q) => Reported(q)')
      BY <2>1, DocStays, ReportStays
    <3> QED  BY <2>1, <3>1, <3>2 DEF IInv, CallInv, AnswerInv, Stored, Rows
  <2> QED  BY <2>2, <2>3, <2>4 DEF IInv
<1>2. ASSUME NEW p \in Clients, Proceed(p) PROVE IInv'
  BY <1>2, CollectKeeps, SealKeeps, ReadSeriesKeeps, PreparedKeeps, LockFenceKeeps,
     PublishCollectionKeeps, InsertVersionKeeps, MembersCompleteKeeps, PublishFactorSetKeeps,
     ContentMatchesKeeps, PublishReceiptKeeps, CollectionAvailableKeeps, FactorSetAvailableKeeps,
     SelectFactorsKeeps, BuildSnapshotKeeps, CheckLineageKeeps
     DEF Proceed
<1>3. ASSUME NEW p \in Clients, Server(p) PROVE IInv'
  BY <1>3, ServerCommitKeeps, ServerRollbackKeeps DEF Server
<1>4. ASSUME NEW p \in Clients, SessionRollsOver(p) \/ DatabaseError(p) \/ Crash(p) PROVE IInv'
  BY <1>4, SessionRollsOverKeeps, DatabaseErrorKeeps, CrashKeeps
<1> QED  BY <1>1, <1>2, <1>3, <1>4 DEF Next

\* The fences, the stamps and what each call has read stay in order, however the
\* clients interleave, whatever fails.
THEOREM InvariantHolds == Spec => []IInv
BY Starts, StepKeeps, PTL DEF Spec

\* The state of clients, transactions and tables stays of its type.
THEOREM TypeCorrect == Spec => []TypeOK
<1>1. IInv => TypeOK
  <2> SUFFICES ASSUME IInv PROVE TypeOK
    OBVIOUS
  <2>1. now \in Nat /\ \A r \in stored : r.table \in Tables /\ r.at <= now
    BY DEF IInv, World, RowsInv
  <2>2. \A p \in Clients : txn[p].state \in {"none", "open", "committing", "doomed"}
    BY DEF IInv, World, RowsInv
  <2> QED  BY <2>1, <2>2 DEF IInv, Typed, TypeOK, Tables
<1> QED  BY <1>1, InvariantHolds, PTL

\* A stored factor set names the newest input of every series at its cutoff, for
\* good (publish_adjustment_factor_set looks again under the fences).
THEOREM SetsAreExact == Spec => []FactorSetExact
<1>1. IInv => FactorSetExact
  BY DEF IInv, World, SetsInv, SoundSet, FactorSetExact, Rows
<1> QED  BY <1>1, InvariantHolds, PTL

\* What a snapshot rests on had become available by its time, and the selection
\* never finds factors that its verification refuses
\* (verify_adjusted_snapshot_evidence).
THEOREM PointInTime == Spec => []SnapshotPointInTime
<1>1. IInv => SnapshotPointInTime
  <2> SUFFICES ASSUME IInv PROVE SnapshotPointInTime
    OBVIOUS
  <2>1. ASSUME NEW r \in Rows("snapshot") PROVE EvidenceHolds(r.doc, r.at)
    <3>1. PICK f \in FactorReceipts : f.at = r.at /\ r.doc = Selected(r.at)
      BY DEF IInv, World, SnapshotsInv, Taken
    <3>2. EvidenceHolds(Selected(f.at), f.at)
      BY EvidenceFound DEF IInv
    <3> QED  BY <3>1, <3>2
  <2>2. \A p \in Clients : reply[p] # "unavailable"
    BY DEF IInv, AnswerInv
  <2> QED  BY <2>1, <2>2 DEF SnapshotPointInTime
<1> QED  BY <1>1, InvariantHolds, PTL

\* What a collector or a seal is told is stored, and a seal that is repeated never
\* finds another snapshot in its place (seal_once, build).
THEOREM AnswersAreKept == Spec => []AnswersHold
<1>1. IInv => AnswersHold
  <2> SUFFICES ASSUME IInv PROVE AnswersHold
    OBVIOUS
  <2>1. SealsReplay
    BY DEF IInv, AnswerInv, SealsReplay
  <2>2. ASSUME NEW p \in Clients, reply[p] = "ok"
        PROVE  /\ Stored("receipt", doc[p])
               /\ request[p].op = "seal" =>
                    \E r \in Rows("snapshot") : r.at = AsOf(p) /\ r.doc = doc[p]
    <3>1. PICK f \in Rows("receipt") :
            /\ f.doc = doc[p]
            /\ request[p].op = "seal" => \E r \in Rows("snapshot") : r.at = f.at /\ r.doc = doc[p]
      BY <2>2 DEF IInv, AnswerInv, Reported
    <3>2. f \in stored /\ f.table = "receipt" /\ KeysInv
      BY DEF IInv, World, Rows
    <3>3. At("receipt", f.doc) = f.at
      BY <3>2, AtIs
    <3>4. AsOf(p) = f.at
      BY <3>1, <3>3 DEF AsOf
    <3> QED  BY <3>1, <3>4 DEF Stored
  <2> QED  BY <2>1, <2>2 DEF AnswersHold
<1> QED  BY <1>1, InvariantHolds, PTL

\* What is selected at the time of a factor receipt is selected for good: commits
\* that were on their way cannot change it (the fence of
\* publish_adjustment_factor_receipt).
THEOREM SelectionIsFinal ==
  Spec => [][\A f \in FactorReceipts : Selected(f.at)' = Selected(f.at)]_vars
<1>1. IInv /\ [Next]_vars => [\A f \in FactorReceipts : Selected(f.at)' = Selected(f.at)]_vars
  <2> SUFFICES ASSUME IInv, Next
               PROVE  \A f \in FactorReceipts : Selected(f.at)' = Selected(f.at)
    OBVIOUS
  <2>1. stored' = stored \/ \E p \in Clients : stored' = stored \cup txn[p].rows
    BY DEF Next, Proceed, Server, Collect, Seal, ReadSeries, Prepared, LockFence, PublishCollection,
           InsertVersion, MembersComplete, PublishFactorSet, ContentMatches, PublishReceipt,
           CollectionAvailable, FactorSetAvailable, SelectFactors, BuildSnapshot, CheckLineage,
           SessionRollsOver, DatabaseError, Crash, ServerCommit, ServerRollback
  <2>2. /\ stored \subseteq stored'
        /\ \A r \in stored' : r \in stored \/ \E p \in Clients : r \in txn[p].rows
    BY <2>1
  <2> QED  BY <2>2, Persists DEF IInv
<1> QED  BY <1>1, InvariantHolds, PTL DEF Spec
=============================================================================
