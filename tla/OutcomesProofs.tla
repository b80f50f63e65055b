---------------------------- MODULE OutcomesProofs ----------------------------
(***************************************************************************)
(* Proofs about Outcomes, for every lag, every set of bars and members and *)
(* every number of calls, finalizers and faults: its inductive invariant   *)
(* and the safety properties that the runs check.                          *)
(***************************************************************************)
EXTENDS Outcomes, TLAPS

InTxn     == {"r_clock", "r_read", "c_find", "c_insert", "c_link", "c_commit"}
Publishing == {"p_find", "c_lock", "c_find", "c_insert", "c_link", "c_commit", "c_wait",
               "c_read", "c_reconcile"}

Disputes == {"semantic_conflict", "write_conflict", "integrity", "evidence_missing",
             "not_member", "incomplete"}

\* Whoever has a transaction or uncommitted receipts holds the lane lock.
LaneInv ==
  /\ \A p \in Calls : txn[p].state # "none" => fence = p
  /\ \A w \in Finalizers : stamping[w] # {} => fence = w

\* Receipts, committed or not, are of committed versions, one for each.
ReceiptInv ==
  /\ \A b \in Bars : \A v \in versions[b] : Target(b) <= v
  /\ \A r \in receipts : r.rec \in versions[r.bar]
  /\ \A w \in Finalizers : \A r \in stamping[w] : r.rec \in versions[r.bar]
  /\ \A r, s \in receipts : r.bar = s.bar /\ r.rec = s.rec => r = s
  /\ \A w \in Finalizers : \A r, s \in stamping[w] : r.bar = s.bar /\ r.rec = s.rec => r = s
  /\ \A w \in Finalizers : \A r \in receipts, s \in stamping[w] : ~ (r.bar = s.bar /\ r.rec = s.rec)

SealInv == \A m \in Members : IsSealed(m) => sealed[m] < Target(Bar(Key(m)))

\* No receipt that is not committed yet can be visible at the cutoff of k.
Settled(k) ==
  /\ Cutoff(k) < clock
  /\ \A w \in Finalizers : \A r \in stamping[w] : Cutoff(k) < r.avail

\* A stored outcome, or one that its transaction may still commit, is right.
OutcomeRight(o) == Newest(o.key) = {o.ev} /\ Cutoff(o.key) <= o.at /\ o.at <= clock
LinkRight(l, rows) ==
  /\ Key(l.member) = l.key /\ IsSealed(l.member)
  /\ \E o \in rows : o.key = l.key /\ o.ev = l.ev /\ o.at <= l.at

TableInv ==
  /\ \A o \in outcomes : OutcomeRight(o) /\ Settled(o.key)
  /\ \A l \in publications : LinkRight(l, outcomes)

PendingInv(p) ==
  /\ txn[p].state = "none" \/ pc[p] \in {"r_clock", "r_read", "c_find", "c_insert"} =>
       txn[p].outcome = {} /\ txn[p].link = {}
  /\ \A o \in txn[p].outcome : OutcomeRight(o) /\ o.at <= txn[p].at
  /\ \A l \in txn[p].link : LinkRight(l, outcomes \cup txn[p].outcome)

\* The control state of a call and its transaction agree.
ControlInv(p) ==
  /\ pc[p] \in InTxn => txn[p].state = "open"
  /\ pc[p] \in {"r_wait", "c_wait"} => txn[p].state = "committing"
  /\ reply[p] # "none" => pc[p] = "done"
  /\ txn[p].at <= clock

\* What a resolution has read stays right until its transaction ends, and
\* after that as well.
ReadInv(p) ==
  /\ pc[p] \in {"r_read", "r_wait"} => Cutoff(KeyOf(p)) <= txn[p].at
  /\ pc[p] = "r_wait" =>
       Newest(KeyOf(p)) = IF got[p] = NoEvidence THEN {} ELSE {got[p]}
  /\ reply[p] = "source_unavailable" => Settled(KeyOf(p)) /\ Newest(KeyOf(p)) = {}

\* The rows a publication has written, so far or for good.
Rows(p) == {o \in outcomes \cup txn[p].outcome : o.key = KeyOf(p) /\ o.ev = got[p]}
Links(p) ==
  {l \in publications \cup txn[p].link : l.key = KeyOf(p) /\ l.ev = got[p] /\ l.member = member[p]}

WriteInv(p) ==
  /\ pc[p] \in {"c_link", "c_commit", "c_wait"} => Rows(p) # {}
  /\ pc[p] \in {"c_commit", "c_wait"} => Links(p) # {}
  /\ pc[p] = "c_read" \/ reply[p] = "ok" => SameContent(KeyOf(p), got[p]) # {} /\ Published(p) # {}

\* A collection publishes what its policy has settled, for a sealed member.
CollectorInv(p) ==
  p \in Collectors =>
    /\ pc[p] \notin {"start", "cohort", "done"} => IsSealed(member[p])
    /\ pc[p] \in Publishing => Settled(KeyOf(p)) /\ Newest(KeyOf(p)) = {got[p]}
    /\ pc[p] # "c_race"
    /\ reply[p] \notin Disputes

CallInv(p) == ControlInv(p) /\ PendingInv(p) /\ ReadInv(p) /\ WriteInv(p) /\ CollectorInv(p)

IInv ==
  /\ TypeOK
  /\ LaneInv /\ ReceiptInv /\ SealInv /\ TableInv
  /\ \A p \in Calls : CallInv(p)
-----------------------------------------------------------------------------
(* General facts.                                                          *)

\* The initial state satisfies the invariant.
LEMMA InitInv == Init => IInv
<1> SUFFICES ASSUME Init PROVE IInv  OBVIOUS
<1> USE KeyAssumption
<1>1. TypeOK
  BY DEF Init, TypeOK, Times, NoTime, NoTxn, NoEvidence, Evidence, TxnRecords, Kinds, Steps, Calls
<1>2. LaneInv /\ ReceiptInv /\ SealInv /\ TableInv
  BY DEF Init, LaneInv, ReceiptInv, SealInv, TableInv, NoTxn, NoTime, IsSealed
<1>3. ASSUME NEW p \in Calls PROVE CallInv(p)
  BY <1>3 DEF Init, CallInv, ControlInv, PendingInv, ReadInv, WriteInv, CollectorInv, NoTxn, NoTime, InTxn, Publishing, Disputes
<1> QED  BY <1>1, <1>2, <1>3 DEF IInv

\* A call is no finalizer, and has a key of its own.
LEMMA Names ==
  ASSUME TypeOK, NEW p \in Calls
  PROVE  /\ p \notin Finalizers /\ p # NoClient /\ NoClient \notin Finalizers
         /\ member[p] \in Members /\ KeyOf(p) \in Keys
         /\ Bar(KeyOf(p)) \in Bars /\ Cutoff(KeyOf(p)) \in Nat /\ Target(Bar(KeyOf(p))) \in Nat \ {0}
         /\ Target(Bar(KeyOf(p))) < Cutoff(KeyOf(p)) /\ Cutoff(KeyOf(p)) < MaxTime
BY KeyAssumption DEF TypeOK, KeyOf

\* The evidence the selection returns is of a stored receipt.
LEMMA NewestVisible ==
  ASSUME TypeOK, ReceiptInv, NEW k \in Keys, NEW e \in Newest(k)
  PROVE  /\ e \in Evidence /\ e # NoEvidence
         /\ [bar |-> Bar(k), rec |-> e.rec, avail |-> e.avail] \in receipts
         /\ e.rec \in versions[Bar(k)] /\ Target(Bar(k)) <= e.rec /\ e.avail <= Cutoff(k)
<1>1. PICK r \in Visible(k) : e = [rec |-> r.rec, avail |-> r.avail]
  BY DEF Newest
<1>2. /\ r \in receipts /\ r.bar = Bar(k) /\ r.rec \in versions[r.bar] /\ r.avail <= Cutoff(k)
      /\ r \in Receipt
  BY <1>1 DEF Visible, TypeOK
<1>3. r = [bar |-> Bar(k), rec |-> e.rec, avail |-> e.avail] /\ e \in Evidence
  BY <1>1, <1>2 DEF Receipt, Evidence
<1>4. Bar(k) \in Bars /\ Target(Bar(k)) \in Nat \ {0}
  BY KeyAssumption
<1>5. Target(Bar(k)) <= e.rec
  BY <1>1, <1>2, <1>4 DEF ReceiptInv
<1>6. e # NoEvidence
  BY <1>3, <1>4, <1>5 DEF NoEvidence, NoTime, Evidence
<1> QED  BY <1>1, <1>2, <1>3, <1>5, <1>6

\* The receipts of a bar differ in their version, so the newest is unique.
LEMMA NewestUnique ==
  ASSUME TypeOK, ReceiptInv, NEW k \in Keys, NEW e \in Newest(k)
  PROVE  Newest(k) = {e}
<1>1. ASSUME NEW d \in Newest(k) PROVE d = e
  <2>1. PICK r \in Visible(k) : (\A t \in Visible(k) : t.rec <= r.rec) /\ d = [rec |-> r.rec, avail |-> r.avail]
    BY <1>1 DEF Newest
  <2>2. PICK s \in Visible(k) : (\A t \in Visible(k) : t.rec <= s.rec) /\ e = [rec |-> s.rec, avail |-> s.avail]
    BY DEF Newest
  <2>3. r \in receipts /\ s \in receipts /\ r.bar = s.bar
    BY DEF Visible
  <2>4. r.rec \in Int /\ s.rec \in Int /\ r.rec <= s.rec /\ s.rec <= r.rec
    BY <2>1, <2>2, <2>3 DEF TypeOK, Receipt, Times
  <2>5. r = s  BY <2>3, <2>4 DEF ReceiptInv
  <2> QED  BY <2>1, <2>2, <2>5
<1> QED  BY <1>1

-----------------------------------------------------------------------------
(* Types.                                                                  *)

\* The initial transaction record, and the changes the steps make to one.
LEMMA NoTxnType == NoTxn \in TxnRecords
BY KeyAssumption DEF NoTxn, TxnRecords, Times, NoTime

LEMMA TxnTypes ==
  ASSUME TypeOK, NEW p \in Calls
  PROVE  /\ \A s \in {"none", "open", "committing", "doomed"} :
              [txn EXCEPT ![p].state = s] \in [Calls -> TxnRecords]
         /\ [txn EXCEPT ![p].at = clock] \in [Calls -> TxnRecords]
         /\ \A o \in SUBSET Outcome :
              [txn EXCEPT ![p].at = clock, ![p].outcome = o] \in [Calls -> TxnRecords]
         /\ \A l \in SUBSET Link : [txn EXCEPT ![p].link = l] \in [Calls -> TxnRecords]
<1> USE DEF TypeOK, TxnRecords
<1>1. \A s \in {"none", "open", "committing", "doomed"} :
        [txn EXCEPT ![p].state = s] \in [Calls -> TxnRecords]
  OBVIOUS
<1>2. [txn EXCEPT ![p].at = clock] \in [Calls -> TxnRecords]
  OBVIOUS
<1>3. ASSUME NEW o \in SUBSET Outcome
      PROVE  [txn EXCEPT ![p].at = clock, ![p].outcome = o] \in [Calls -> TxnRecords]
  <2>1. txn[p] \in TxnRecords  OBVIOUS
  <2>2. [txn[p] EXCEPT !.at = clock, !.outcome = o] \in TxnRecords
    BY <2>1
  <2>3. [txn EXCEPT ![p].at = clock, ![p].outcome = o]
          = [txn EXCEPT ![p] = [txn[p] EXCEPT !.at = clock, !.outcome = o]]
    OBVIOUS
  <2> QED  BY <2>2, <2>3
<1>4. \A l \in SUBSET Link : [txn EXCEPT ![p].link = l] \in [Calls -> TxnRecords]
  OBVIOUS
<1> QED  BY <1>1, <1>2, <1>3, <1>4

\* A refusal or an answer keeps the types.
LEMMA RefuseTypes ==
  ASSUME TypeOK, NEW p \in Calls, NEW kind \in Kinds, Refuse(p, kind)
  PROVE  pc' \in [Calls -> Steps] /\ reply' \in [Calls -> Kinds] /\ txn' \in [Calls -> TxnRecords]
BY DEF TypeOK, Refuse, Answer, Goto, Doomed, Steps, TxnRecords

\* The surroundings keep the types.
LEMMA SurroundingsTypes ==
  ASSUME TypeOK,
         \/ Tick
         \/ \E m \in Members : Seal(m)
         \/ \E b \in Bars : Revise(b)
         \/ \E w \in Finalizers : LockLane(w) \/ StampReceipt(w) \/ EndFinalize(w)
  PROVE  TypeOK'
<1> USE KeyAssumption DEF TypeOK, tables, bars, Times, NoTime
<1>1. CASE Tick  BY <1>1 DEF Tick
<1>2. ASSUME NEW m \in Members, Seal(m) PROVE TypeOK'  BY <1>2 DEF Seal
<1>3. ASSUME NEW b \in Bars, Revise(b) PROVE TypeOK'  BY <1>3 DEF Revise
<1>4. ASSUME NEW w \in Finalizers, LockLane(w) PROVE TypeOK'  BY <1>4 DEF LockLane
<1>5. ASSUME NEW w \in Finalizers, StampReceipt(w) PROVE TypeOK'
  <2>0. PICK b \in Bars : \E v \in versions[b] :
          stamping' = [stamping EXCEPT ![w] = @ \cup {[bar |-> b, rec |-> v, avail |-> clock]}]
    BY <1>5 DEF StampReceipt
  <2>1. PICK v \in versions[b] :
          stamping' = [stamping EXCEPT ![w] = @ \cup {[bar |-> b, rec |-> v, avail |-> clock]}]
    BY <2>0
  <2>2. [bar |-> b, rec |-> v, avail |-> clock] \in Receipt  BY DEF Receipt
  <2>3. stamping' \in [Finalizers -> SUBSET Receipt]  BY <2>1, <2>2
  <2> QED  BY <1>5, <2>3 DEF StampReceipt
<1>6. ASSUME NEW w \in Finalizers, EndFinalize(w) PROVE TypeOK'  BY <1>6 DEF EndFinalize
<1> QED  BY <1>1, <1>2, <1>3, <1>4, <1>5, <1>6

\* A step of one call.
CallAction(p) ==
  \/ Collect(p) /\ p \in Collectors
  \/ Submit(p) /\ p \in Publishers
  \/ TakeFence(p) \/ Step(p)
  \/ DatabaseError(p) \/ OutcomeUnknown(p) \/ ReconcileFails(p) \/ Crash(p)
  \/ ServerCommit(p) \/ ServerAbort(p)

Surroundings ==
  \/ Tick
  \/ \E m \in Members : Seal(m)
  \/ \E b \in Bars : Revise(b)
  \/ \E w \in Finalizers : LockLane(w) \/ StampReceipt(w) \/ EndFinalize(w)

\* Every step is one of the surroundings or of one call.
LEMMA StepKinds == Next => Surroundings \/ \E p \in Calls : CallAction(p)
BY DEF Next, Surroundings, CallAction, Calls

\* What the commit of an outcome adds has the type of the tables.
LEMMA CommitTypes ==
  ASSUME TypeOK, NEW p \in Calls, ServerCommit(p) \/ ServerAbort(p)
  PROVE  TypeOK'
<1> USE DEF TypeOK, tables, bars
<1>1. NoTxn \in TxnRecords
  BY NoTxnType
<1>2. CASE ServerCommit(p)
  <2>1. txn[p].outcome \subseteq Outcome /\ txn[p].link \subseteq Link
    BY DEF TxnRecords
  <2>2. pc' \in [Calls -> Steps] /\ reply' \in [Calls -> Kinds]
    BY <1>2 DEF ServerCommit, Acknowledged, Answer, Goto, Steps, Kinds
  <2> QED  BY <1>1, <1>2, <2>1, <2>2 DEF ServerCommit, ReleaseFence
<1>3. CASE ServerAbort(p)
  <2>1. pc' \in [Calls -> Steps] /\ reply' \in [Calls -> Kinds] /\ faults' \in 0..MaxFaults
    BY <1>3, KeyAssumption DEF ServerAbort, Answer, Goto, Fault, Steps, Kinds
  <2> QED  BY <1>1, <1>3, <2>1 DEF ServerAbort, ReleaseFence
<1> QED  BY <1>2, <1>3

\* Faults keep the types.
LEMMA FaultTypes ==
  ASSUME TypeOK, NEW p \in Calls,
         DatabaseError(p) \/ OutcomeUnknown(p) \/ ReconcileFails(p) \/ Crash(p)
  PROVE  TypeOK'
<1>1. faults' \in 0..MaxFaults
  BY KeyAssumption DEF TypeOK, DatabaseError, OutcomeUnknown, ReconcileFails, Crash, Fault
<1>2. CASE DatabaseError(p) \/ Crash(p)
  <2>1. pc' \in [Calls -> Steps] /\ reply' \in [Calls -> Kinds] /\ txn' \in [Calls -> TxnRecords]
    BY <1>2, RefuseTypes DEF DatabaseError, Crash, Kinds
  <2> QED  BY <1>1, <1>2, <2>1 DEF TypeOK, DatabaseError, Crash, bars, tables
<1>3. CASE OutcomeUnknown(p)
  BY <1>1, <1>3 DEF TypeOK, OutcomeUnknown, Doomed, Goto, Steps, TxnRecords, bars, tables
<1>4. CASE ReconcileFails(p)
  BY <1>1, <1>4 DEF TypeOK, ReconcileFails, Answer, Goto, Steps, Kinds, bars, tables
<1> QED  BY <1>2, <1>3, <1>4

\* Lookups, whose remaining branch keeps the types, keep them.
LEMMA LookupTypes ==
  ASSUME TypeOK, NEW p \in Calls, Preflight(p) \/ FindPrepared(p) \/ Reconcile(p)
  PROVE  TypeOK'
<1>1. ASSUME NEW kind \in Kinds, Refuse(p, kind)
      PROVE  pc' \in [Calls -> Steps] /\ reply' \in [Calls -> Kinds] /\ txn' \in [Calls -> TxnRecords]
  BY <1>1, RefuseTypes
<1>2. {"ok", "semantic_conflict", "write_conflict", "commit_unknown"} \subseteq Kinds
  BY DEF Kinds
<1>3. pc' \in [Calls -> Steps] /\ reply' \in [Calls -> Kinds] /\ txn' \in [Calls -> TxnRecords]
  <2>1. CASE Preflight(p)  BY <1>1, <1>2, <2>1 DEF TypeOK, Preflight, Lookup, Goto, Steps
  <2>2. CASE FindPrepared(p)  BY <1>1, <1>2, <2>2 DEF TypeOK, FindPrepared, Lookup, Goto, Steps
  <2>3. CASE Reconcile(p)  BY <1>1, <1>2, <2>3 DEF TypeOK, Reconcile, Lookup
  <2> QED  BY <2>1, <2>2, <2>3
<1> QED  BY <1>3 DEF TypeOK, Preflight, FindPrepared, Reconcile, bars, tables

\* The steps of a resolution keep the types.
LEMMA ResolveTypes ==
  ASSUME TypeOK, ReceiptInv, NEW p \in Calls,
         Collect(p) \/ Submit(p) \/ ReadCohort(p) \/ TakeFence(p) \/ ReadClock(p) \/ Resolve(p)
  PROVE  TypeOK'
<1>1. CASE Collect(p)  BY <1>1 DEF TypeOK, Collect, Goto, Steps, bars, tables
<1>2. CASE Submit(p)  BY <1>2 DEF TypeOK, Submit, Goto, Steps, bars, tables
<1>3. CASE ReadCohort(p)
  BY <1>3 DEF TypeOK, ReadCohort, Goto, Answer, Steps, Kinds, bars, tables
<1>4. CASE TakeFence(p)
  <2>1. [NoTxn EXCEPT !.state = "open"] \in TxnRecords
    BY NoTxnType DEF TxnRecords
  <2> QED  BY <1>4, <2>1 DEF TypeOK, TakeFence, Goto, Steps, bars, tables
<1>5. CASE ReadClock(p)
  <2>1. pc' \in [Calls -> Steps] /\ reply' \in [Calls -> Kinds] /\ txn' \in [Calls -> TxnRecords]
    <3>1. CASE clock < Cutoff(KeyOf(p))
      BY <1>5, <3>1, RefuseTypes DEF ReadClock, Kinds
    <3>2. CASE ~ (clock < Cutoff(KeyOf(p)))
      <4>1. txn' = [txn EXCEPT ![p].at = clock] /\ Goto(p, "r_read") /\ UNCHANGED reply
        BY <1>5, <3>2 DEF ReadClock
      <4>2. txn' \in [Calls -> TxnRecords]  BY <4>1, TxnTypes
      <4> QED  BY <4>1, <4>2 DEF TypeOK, Goto, Steps
    <3> QED  BY <3>1, <3>2
  <2> QED  BY <1>5, <2>1 DEF TypeOK, ReadClock, bars, tables
<1>6. CASE Resolve(p)
  <2>1. NoEvidence \in Evidence
    BY KeyAssumption DEF NoEvidence, Evidence, Times, NoTime
  <2>2. \A e \in Newest(KeyOf(p)) : e \in Evidence
    BY Names, NewestVisible
  <2>3. got' \in [Calls -> Evidence]
    <3>1. CASE Newest(KeyOf(p)) = {}  BY <1>6, <2>1, <3>1 DEF Resolve, TypeOK
    <3>2. CASE Newest(KeyOf(p)) # {}
      <4>1. (CHOOSE e \in Newest(KeyOf(p)) : TRUE) \in Newest(KeyOf(p))  BY <3>2
      <4> QED  BY <1>6, <2>2, <3>2, <4>1 DEF Resolve, TypeOK
    <3> QED  BY <3>1, <3>2
  <2>4. txn' \in [Calls -> TxnRecords]
    BY <1>6, TxnTypes DEF Resolve
  <2> QED  BY <1>6, <2>3, <2>4 DEF TypeOK, Resolve, Goto, Steps, bars, tables
<1> QED  BY <1>1, <1>2, <1>3, <1>4, <1>5, <1>6

\* The steps of a publication keep the types.
LEMMA PublishTypes ==
  ASSUME TypeOK, NEW p \in Calls,
         InsertOutcome(p) \/ LinkMember(p) \/ SendCommit(p) \/ ReadCommitted(p)
  PROVE  TypeOK'
<1>1. {"evidence_missing", "integrity", "not_member", "ok", "incomplete"} \subseteq Kinds
  BY DEF Kinds
<1>2. got[p] \in Evidence /\ KeyOf(p) \in Keys /\ member[p] \in Members /\ clock \in Times
  BY Names DEF TypeOK
<1>3. CASE InsertOutcome(p)
  <2>1. pc' \in [Calls -> Steps] /\ reply' \in [Calls -> Kinds] /\ txn' \in [Calls -> TxnRecords]
    <3>1. CASE \E kind \in Kinds : Refuse(p, kind)  BY <3>1, RefuseTypes
    <3>2. CASE Goto(p, "c_race") /\ txn' = Doomed(p) /\ UNCHANGED reply
      BY <3>2 DEF TypeOK, Goto, Doomed, Steps, TxnRecords
    <3>3. CASE /\ txn' = [txn EXCEPT ![p].at = clock,
                                ![p].outcome = IF SameContent(KeyOf(p), got[p]) # {} THEN {}
                                               ELSE {[key |-> KeyOf(p), ev |-> got[p], at |-> clock]}]
               /\ Goto(p, "c_link") /\ UNCHANGED reply
      <4>1. [key |-> KeyOf(p), ev |-> got[p], at |-> clock] \in Outcome  BY <1>2 DEF Outcome
      <4>2. txn' \in [Calls -> TxnRecords]
        <5> DEFINE new == IF SameContent(KeyOf(p), got[p]) # {} THEN {}
                           ELSE {[key |-> KeyOf(p), ev |-> got[p], at |-> clock]}
        <5>1. new \in SUBSET Outcome  BY <4>1
        <5>2. txn' = [txn EXCEPT ![p].at = clock, ![p].outcome = new]  BY <3>3
        <5> HIDE DEF new
        <5> QED  BY <5>1, <5>2, TxnTypes
      <4> QED  BY <3>3, <4>2 DEF TypeOK, Goto, Steps
    <3> QED  BY <1>1, <1>3, <3>1, <3>2, <3>3 DEF InsertOutcome
  <2> QED  BY <1>3, <2>1 DEF TypeOK, InsertOutcome, bars, tables
<1>4. CASE LinkMember(p)
  <2>1. pc' \in [Calls -> Steps] /\ reply' \in [Calls -> Kinds] /\ txn' \in [Calls -> TxnRecords]
    <3>1. CASE ~ IsSealed(member[p])
      BY <1>1, <1>4, <3>1, RefuseTypes DEF LinkMember
    <3>2. CASE IsSealed(member[p])
      <4>1. [key |-> KeyOf(p), ev |-> got[p], member |-> member[p], at |-> clock] \in Link
        BY <1>2 DEF Link
      <4>2. txn' \in [Calls -> TxnRecords]
        <5> DEFINE new == IF Published(p) # {} THEN {}
                           ELSE {[key |-> KeyOf(p), ev |-> got[p], member |-> member[p], at |-> clock]}
        <5>1. new \in SUBSET Link  BY <4>1
        <5>2. txn' = [txn EXCEPT ![p].link = new]  BY <1>4, <3>2 DEF LinkMember
        <5> HIDE DEF new
        <5> QED  BY <5>1, <5>2, TxnTypes
      <4> QED  BY <1>4, <3>2, <4>2 DEF TypeOK, LinkMember, Goto, Steps
    <3> QED  BY <3>1, <3>2
  <2> QED  BY <1>4, <2>1 DEF TypeOK, LinkMember, bars, tables
<1>5. CASE SendCommit(p)
  BY <1>5 DEF TypeOK, SendCommit, Goto, Steps, TxnRecords, bars, tables
<1>6. CASE ReadCommitted(p)
  BY <1>1, <1>6 DEF TypeOK, ReadCommitted, Answer, Goto, Steps, bars, tables
<1> QED  BY <1>3, <1>4, <1>5, <1>6

\* Every step keeps the types.
LEMMA NextTypes ==
  ASSUME TypeOK, ReceiptInv, [Next]_vars
  PROVE  TypeOK'
<1>1. CASE UNCHANGED vars  BY <1>1 DEF vars, bars, tables, TypeOK
<1>2. CASE Surroundings  BY <1>2, SurroundingsTypes DEF Surroundings
<1>3. ASSUME NEW p \in Calls, CallAction(p) PROVE TypeOK'
  BY <1>3, ResolveTypes, PublishTypes, LookupTypes, FaultTypes, CommitTypes DEF CallAction, Step
<1> QED  BY <1>1, <1>2, <1>3, StepKinds

-----------------------------------------------------------------------------
(* Who changes what.                                                       *)

\* Of all that belongs to a call, a step of p changes only p's.
OnlyBy(p) ==
  /\ UNCHANGED <<clock, bars, sealed, member>>
  /\ \A q \in Calls \ {p} :
       pc'[q] = pc[q] /\ reply'[q] = reply[q] /\ txn'[q] = txn[q] /\ got'[q] = got[q]

\* Steps that neither begin nor end a transaction.
Quiet(p) ==
  \/ Collect(p) \/ Submit(p) \/ Step(p)
  \/ DatabaseError(p) \/ OutcomeUnknown(p) \/ ReconcileFails(p) \/ Crash(p)

\* A refusal only dooms an open transaction.
LEMMA RefuseEffect ==
  ASSUME TypeOK, NEW p \in Calls, NEW kind \in Kinds, Refuse(p, kind)
  PROVE  /\ pc' = [pc EXCEPT ![p] = "done"] /\ reply' = [reply EXCEPT ![p] = kind]
         /\ txn'[p].state = "none" <=> txn[p].state = "none"
         /\ txn'[p].outcome = txn[p].outcome /\ txn'[p].link = txn[p].link /\ txn'[p].at = txn[p].at
         /\ \A q \in Calls \ {p} : txn'[q] = txn[q]
<1>1. pc' = [pc EXCEPT ![p] = "done"] /\ reply' = [reply EXCEPT ![p] = kind] /\ txn' = Doomed(p)
  BY DEF Refuse, Answer, Goto
<1>2. txn[p] \in TxnRecords /\ txn \in [Calls -> TxnRecords]  BY DEF TypeOK
<1>3. CASE txn[p].state = "open"
  <2>1. txn' = [txn EXCEPT ![p].state = "doomed"]  BY <1>1, <1>3 DEF Doomed
  <2> QED  BY <1>1, <1>2, <1>3, <2>1 DEF TxnRecords
<1>4. CASE txn[p].state # "open"
  BY <1>1, <1>4 DEF Doomed
<1> QED  BY <1>3, <1>4

\* A quiet step leaves the lane lock, the tables and everybody else alone.
LEMMA QuietEffect ==
  ASSUME TypeOK, NEW p \in Calls, ControlInv(p), Quiet(p)
  PROVE  /\ OnlyBy(p) /\ UNCHANGED <<fence, tables>>
         /\ txn'[p].state = "none" <=> txn[p].state = "none"
<1> USE DEF bars, tables
<1>1. txn[p] \in TxnRecords /\ txn \in [Calls -> TxnRecords] /\ pc \in [Calls -> Steps]
      /\ reply \in [Calls -> Kinds] /\ got \in [Calls -> Evidence]
  BY DEF TypeOK
<1>2. ASSUME NEW kind \in Kinds, Refuse(p, kind)
      PROVE  /\ txn'[p].state = "none" <=> txn[p].state = "none"
             /\ \A q \in Calls \ {p} : pc'[q] = pc[q] /\ reply'[q] = reply[q] /\ txn'[q] = txn[q]
  BY <1>1, <1>2, RefuseEffect
<1>3. {"ok", "semantic_conflict", "write_conflict", "commit_unknown", "not_ready", "not_member",
       "evidence_missing", "integrity", "unavailable", "lost"} \subseteq Kinds
  BY DEF Kinds
<1>4. CASE Collect(p) \/ Submit(p) \/ ReadCohort(p) \/ ReadCommitted(p)
  BY <1>1, <1>4 DEF Collect, Submit, ReadCohort, ReadCommitted, Goto, Answer, OnlyBy
<1>5. CASE Preflight(p)
  BY <1>1, <1>2, <1>3, <1>5 DEF Preflight, Lookup, Goto, OnlyBy
<1>6. CASE FindPrepared(p)
  BY <1>1, <1>2, <1>3, <1>6 DEF FindPrepared, Lookup, Goto, OnlyBy
<1>7. CASE Reconcile(p)
  BY <1>1, <1>2, <1>3, <1>7 DEF Reconcile, Lookup, OnlyBy
<1>8. CASE DatabaseError(p) \/ Crash(p)
  BY <1>1, <1>2, <1>3, <1>8 DEF DatabaseError, Crash, OnlyBy
<1>9. CASE ReconcileFails(p)
  BY <1>1, <1>9 DEF ReconcileFails, Answer, Goto, OnlyBy
<1>10. CASE OutcomeUnknown(p)
  BY <1>1, <1>10 DEF OutcomeUnknown, Doomed, Goto, OnlyBy, TxnRecords
<1>11. CASE ReadClock(p)
  <2>1. \/ Refuse(p, "not_ready")
        \/ txn' = [txn EXCEPT ![p].at = clock] /\ Goto(p, "r_read") /\ UNCHANGED reply
    BY <1>11 DEF ReadClock
  <2>2. CASE txn' = [txn EXCEPT ![p].at = clock] /\ Goto(p, "r_read") /\ UNCHANGED reply
    BY <1>1, <1>11, <2>2 DEF ReadClock, Goto, OnlyBy, TxnRecords
  <2> QED  BY <1>2, <1>3, <1>11, <2>1, <2>2 DEF ReadClock, OnlyBy
<1>12. CASE Resolve(p) \/ SendCommit(p)
  <2>1. txn[p].state = "open"  BY <1>12 DEF Resolve, SendCommit, ControlInv, InTxn
  <2>2. txn' = [txn EXCEPT ![p].state = "committing"]  BY <1>12 DEF Resolve, SendCommit
  <2>3. txn'[p].state # "none" /\ \A q \in Calls \ {p} : txn'[q] = txn[q]
    BY <1>1, <2>2 DEF TxnRecords
  <2> QED  BY <1>1, <1>12, <2>1, <2>3 DEF Resolve, SendCommit, Goto, OnlyBy
<1>13. CASE InsertOutcome(p)
  <2>1. \/ \E kind \in Kinds : Refuse(p, kind)
        \/ Goto(p, "c_race") /\ txn' = Doomed(p) /\ UNCHANGED reply
        \/ /\ \E o : txn' = [txn EXCEPT ![p].at = clock, ![p].outcome = o]
           /\ Goto(p, "c_link") /\ UNCHANGED reply
    BY <1>3, <1>13 DEF InsertOutcome
  <2>2. CASE \E kind \in Kinds : Refuse(p, kind)
    BY <1>2, <1>13, <2>2 DEF InsertOutcome, OnlyBy
  <2>3. CASE Goto(p, "c_race") /\ txn' = Doomed(p) /\ UNCHANGED reply
    BY <1>1, <1>13, <2>3 DEF InsertOutcome, Goto, Doomed, OnlyBy, TxnRecords
  <2>4. CASE /\ \E o : txn' = [txn EXCEPT ![p].at = clock, ![p].outcome = o]
             /\ Goto(p, "c_link") /\ UNCHANGED reply
    <3>1. PICK o : txn' = [txn EXCEPT ![p].at = clock, ![p].outcome = o]  BY <2>4
    <3>2. txn'[p].state = txn[p].state /\ \A q \in Calls \ {p} : txn'[q] = txn[q]
      BY <1>1, <3>1 DEF TxnRecords
    <3> QED  BY <1>1, <1>13, <2>4, <3>2 DEF InsertOutcome, Goto, OnlyBy
  <2> QED  BY <2>1, <2>2, <2>3, <2>4
<1>14. CASE LinkMember(p)
  <2>1. \/ Refuse(p, "not_member")
        \/ (\E l : txn' = [txn EXCEPT ![p].link = l]) /\ Goto(p, "c_commit") /\ UNCHANGED reply
    BY <1>14 DEF LinkMember
  <2>2. CASE (\E l : txn' = [txn EXCEPT ![p].link = l]) /\ Goto(p, "c_commit") /\ UNCHANGED reply
    <3>1. PICK l : txn' = [txn EXCEPT ![p].link = l]  BY <2>2
    <3>2. txn'[p].state = txn[p].state /\ \A q \in Calls \ {p} : txn'[q] = txn[q]
      BY <1>1, <3>1 DEF TxnRecords
    <3> QED  BY <1>1, <1>14, <2>2, <3>2 DEF LinkMember, Goto, OnlyBy
  <2> QED  BY <1>2, <1>3, <1>14, <2>1, <2>2 DEF LinkMember, OnlyBy
<1> QED  BY <1>4, <1>5, <1>6, <1>7, <1>8, <1>9, <1>10, <1>11, <1>12, <1>13, <1>14 DEF Quiet, Step

\* A transaction begins behind the lane lock, and gives it up when it ends.
LEMMA TransactionEffect ==
  ASSUME TypeOK, NEW p \in Calls, TakeFence(p) \/ ServerCommit(p) \/ ServerAbort(p)
  PROVE  /\ OnlyBy(p)
         /\ TakeFence(p) => txn[p].state = "none" /\ fence = NoClient /\ fence' = p
                            /\ txn'[p] = [NoTxn EXCEPT !.state = "open"]
         /\ ServerCommit(p) \/ ServerAbort(p) => txn[p].state # "none" /\ txn'[p] = NoTxn
                            /\ fence' = IF fence = p THEN NoClient ELSE fence
<1>1. txn \in [Calls -> TxnRecords] /\ pc \in [Calls -> Steps] /\ reply \in [Calls -> Kinds]
  BY DEF TypeOK
<1>2. CASE TakeFence(p)
  <2>1. pc[p] \in {"r_lock", "c_lock"} /\ txn[p].state = "none"  BY <1>2 DEF TakeFence
  <2>2. ~ ServerCommit(p) /\ ~ ServerAbort(p)  BY <2>1 DEF ServerCommit, ServerAbort
  <2> QED  BY <1>1, <1>2, <2>1, <2>2 DEF TakeFence, Goto, OnlyBy, bars
<1>3. CASE ServerCommit(p)
  <2>1. ~ TakeFence(p)  BY <1>3 DEF TakeFence, ServerCommit
  <2>2. \A q \in Calls \ {p} : pc'[q] = pc[q] /\ reply'[q] = reply[q]
    BY <1>1, <1>3 DEF ServerCommit, Acknowledged, Answer, Goto
  <2> QED  BY <1>1, <1>3, <2>1, <2>2 DEF ServerCommit, ReleaseFence, OnlyBy, bars
<1>4. CASE ServerAbort(p)
  <2>1. ~ TakeFence(p)  BY <1>4 DEF TakeFence, ServerAbort
  <2>2. \A q \in Calls \ {p} : pc'[q] = pc[q] /\ reply'[q] = reply[q]
    BY <1>1, <1>4 DEF ServerAbort, Answer, Goto
  <2> QED  BY <1>1, <1>4, <2>1, <2>2 DEF ServerAbort, ReleaseFence, OnlyBy, bars
<1> QED  BY <1>2, <1>3, <1>4

\* The lane lock keeps its meaning.
LEMMA LanePreserved ==
  ASSUME IInv, TypeOK', [Next]_vars
  PROVE  LaneInv'
<1> USE DEF LaneInv
<1>1. TypeOK /\ LaneInv  BY DEF IInv
<1>2. CASE UNCHANGED vars  BY <1>1, <1>2 DEF vars, bars
<1>3. ASSUME NEW w \in Finalizers, LockLane(w) \/ StampReceipt(w) \/ EndFinalize(w)
      PROVE  LaneInv'
  <2>1. \A p \in Calls : p # w /\ p # NoClient  BY KeyAssumption
  <2>2. CASE LockLane(w)  BY <1>1, <2>1, <2>2, KeyAssumption DEF LockLane, bars
  <2>3. CASE StampReceipt(w)
    <3>1. fence = w /\ UNCHANGED <<fence, txn>>  BY <2>3 DEF StampReceipt
    <3>2. \A v \in Finalizers \ {w} : stamping'[v] = stamping[v]
      BY <1>1, <2>3 DEF StampReceipt, TypeOK
    <3> QED  BY <1>1, <3>1, <3>2
  <2>4. CASE EndFinalize(w)
    <3>1. fence = w /\ UNCHANGED txn /\ fence' = NoClient  BY <2>4 DEF EndFinalize
    <3>2. \A v \in Finalizers \ {w} : stamping'[v] = stamping[v]
      BY <2>4, <1>1 DEF EndFinalize, TypeOK
    <3>3. stamping'[w] = {}  BY <2>4, <1>1 DEF EndFinalize, TypeOK
    <3> QED  BY <1>1, <2>1, <3>1, <3>2, <3>3
  <2> QED  BY <1>3, <2>2, <2>3, <2>4
<1>4. CASE Surroundings
  BY <1>1, <1>3, <1>4 DEF Surroundings, Tick, Seal, Revise, bars
<1>5. ASSUME NEW p \in Calls, CallAction(p) PROVE LaneInv'
  <2>1. CASE Quiet(p)
    BY <1>1, <2>1, QuietEffect DEF IInv, CallInv, OnlyBy, bars
  <2>2. CASE TakeFence(p)
    BY <1>1, <2>2, TransactionEffect, KeyAssumption DEF OnlyBy, bars
  <2>3. CASE ServerCommit(p) \/ ServerAbort(p)
    BY <1>1, <2>3, TransactionEffect, KeyAssumption DEF OnlyBy, bars, NoTxn
  <2> QED  BY <1>5, <2>1, <2>2, <2>3 DEF CallAction, Quiet
<1> QED  BY <1>2, <1>4, <1>5, StepKinds

-----------------------------------------------------------------------------
(* The world around the calls.                                             *)

\* What is visible at a cutoff decides what is newest.
LEMMA SameVisible ==
  ASSUME NEW k \in Keys, Visible(k)' = Visible(k)
  PROVE  Newest(k)' = Newest(k)
BY DEF Newest

\* What time, seals, versions and receipts may not undo.
Persistent ==
  /\ ReceiptInv' /\ SealInv' /\ clock <= clock'
  /\ \A m \in Members : IsSealed(m) => IsSealed(m)'
  /\ outcomes \subseteq outcomes' /\ publications \subseteq publications'
  /\ \A k \in Keys : Settled(k) => Settled(k)' /\ Newest(k)' = Newest(k)
  /\ \A p \in Calls : txn[p].state # "none" => \A k \in Keys : Newest(k)' = Newest(k)

\* The selection at a cutoff changes only before it has settled, and never
\* while a call has a transaction.
LEMMA Persistence ==
  ASSUME IInv, TypeOK', [Next]_vars
  PROVE  Persistent
<1>1. /\ TypeOK /\ LaneInv /\ ReceiptInv /\ SealInv /\ clock \in Int /\ clock' \in Int
      /\ \A k \in Keys : Cutoff(k) \in Nat /\ Bar(k) \in Bars
  BY KeyAssumption DEF IInv, TypeOK, Times
<1>2. ASSUME UNCHANGED <<bars, clock, sealed>>, outcomes \subseteq outcomes', publications \subseteq publications'
      PROVE  Persistent
  <2>1. \A k \in Keys : Visible(k)' = Visible(k) /\ (Settled(k) <=> Settled(k)')
    BY <1>2 DEF Visible, Settled, bars
  <2> QED  BY <1>1, <1>2, <2>1, SameVisible DEF Persistent, ReceiptInv, SealInv, IsSealed, bars
<1>3. CASE UNCHANGED vars
  BY <1>2, <1>3 DEF vars, tables
<1>4. ASSUME NEW p \in Calls, CallAction(p) PROVE Persistent
  <2>1. CASE Quiet(p)
    BY <1>1, <1>2, <2>1, QuietEffect DEF IInv, CallInv, OnlyBy, tables
  <2>2. CASE TakeFence(p) \/ ServerAbort(p)
    BY <1>1, <1>2, <2>2, TransactionEffect DEF OnlyBy, TakeFence, ServerAbort, tables
  <2>3. CASE ServerCommit(p)
    BY <1>1, <1>2, <2>3, TransactionEffect DEF OnlyBy, ServerCommit
  <2> QED  BY <1>4, <2>1, <2>2, <2>3 DEF CallAction, Quiet
<1>5. CASE Tick
  <2>1. clock' = clock + 1 /\ UNCHANGED <<bars, sealed, tables>>  BY <1>5 DEF Tick
  <2>2. \A k \in Keys : Visible(k)' = Visible(k)
    BY <2>1 DEF Visible, bars
  <2>3. \A k \in Keys : Settled(k) => Settled(k)'
    BY <1>1, <2>1 DEF Settled, bars
  <2> QED  BY <1>1, <2>1, <2>2, <2>3, SameVisible DEF Persistent, ReceiptInv, SealInv, IsSealed, bars, tables
<1>6. ASSUME NEW m \in Members, Seal(m) PROVE Persistent
  <2>1. PICK t \in Times \ {NoTime} : t < Target(Bar(Key(m))) /\ sealed' = [sealed EXCEPT ![m] = t]
    BY <1>6 DEF Seal
  <2>2. UNCHANGED <<clock, bars, tables>>  BY <1>6 DEF Seal
  <2>3. \A n \in Members : IsSealed(n) => IsSealed(n)'
    BY <1>1, <2>1 DEF IsSealed, TypeOK
  <2>4. SealInv'  BY <1>1, <2>1 DEF SealInv, IsSealed, TypeOK
  <2>5. \A k \in Keys : Visible(k)' = Visible(k) /\ (Settled(k) <=> Settled(k)')
    BY <2>2 DEF Visible, Settled, bars
  <2> QED  BY <1>1, <2>2, <2>3, <2>4, <2>5, SameVisible DEF Persistent, ReceiptInv, bars, tables
<1>7. ASSUME NEW b \in Bars, Revise(b) PROVE Persistent
  <2>1. PICK t \in Times : Target(b) <= t /\ versions' = [versions EXCEPT ![b] = @ \cup {t}]
    BY <1>7 DEF Revise
  <2>2. UNCHANGED <<clock, receipts, stamping, sealed, tables>>  BY <1>7 DEF Revise
  <2>3. \A c \in Bars : versions[c] \subseteq versions'[c] /\ \A v \in versions'[c] \ versions[c] : Target(c) <= v
    BY <1>1, <2>1 DEF TypeOK
  <2>4. \A r \in receipts : r.bar \in Bars /\ r.rec \in versions[r.bar]
    BY <1>1 DEF TypeOK, Receipt, ReceiptInv
  <2>5. \A w \in Finalizers : \A r \in stamping[w] : r.bar \in Bars /\ r.rec \in versions[r.bar]
    BY <1>1 DEF TypeOK, Receipt, ReceiptInv
  <2>6. ReceiptInv'
    BY <1>1, <2>2, <2>3, <2>4, <2>5 DEF ReceiptInv
  <2>7. \A k \in Keys : Visible(k)' = Visible(k) /\ (Settled(k) <=> Settled(k)')
    BY <2>2, <2>3, <2>4 DEF Visible, Settled
  <2> QED  BY <1>1, <2>2, <2>6, <2>7, SameVisible DEF Persistent, SealInv, IsSealed, tables
<1>8. ASSUME NEW w \in Finalizers, LockLane(w) PROVE Persistent
  BY <1>2, <1>8 DEF LockLane, tables
<1>9. ASSUME NEW w \in Finalizers, StampReceipt(w) PROVE Persistent
  <2>1. PICK b \in Bars : \E v \in versions[b] :
          /\ \A r \in receipts \cup stamping[w] : ~ (r.bar = b /\ r.rec = v)
          /\ stamping' = [stamping EXCEPT ![w] = @ \cup {[bar |-> b, rec |-> v, avail |-> clock]}]
    BY <1>9 DEF StampReceipt
  <2>2. PICK v \in versions[b] :
          /\ \A r \in receipts \cup stamping[w] : ~ (r.bar = b /\ r.rec = v)
          /\ stamping' = [stamping EXCEPT ![w] = @ \cup {[bar |-> b, rec |-> v, avail |-> clock]}]
    BY <2>1
  <2>3. fence = w /\ UNCHANGED <<clock, versions, receipts, sealed, tables>>  BY <1>9 DEF StampReceipt
  <2> DEFINE new == [bar |-> b, rec |-> v, avail |-> clock]
  <2>4. /\ stamping'[w] = stamping[w] \cup {new}
        /\ \A u \in Finalizers \ {w} : stamping'[u] = stamping[u]
    BY <1>1, <2>2 DEF TypeOK
  <2>5. new.bar = b /\ new.rec = v /\ new.avail = clock  OBVIOUS
  <2> HIDE DEF new
  <2>6. ReceiptInv'
    BY <1>1, <2>2, <2>3, <2>4, <2>5 DEF ReceiptInv
  <2>7. \A k \in Keys : Settled(k) => Settled(k)'
    BY <1>1, <2>3, <2>4, <2>5 DEF Settled
  <2>8. \A k \in Keys : Visible(k)' = Visible(k)
    BY <2>3 DEF Visible
  <2> QED  BY <1>1, <2>3, <2>6, <2>7, <2>8, SameVisible DEF Persistent, SealInv, IsSealed, tables
<1>10. ASSUME NEW w \in Finalizers, EndFinalize(w) PROVE Persistent
  <2>1. /\ fence = w /\ receipts' \in {receipts, receipts \cup stamping[w]}
        /\ UNCHANGED <<clock, versions, sealed, tables>>
    BY <1>10 DEF EndFinalize
  <2>2. stamping'[w] = {} /\ \A u \in Finalizers \ {w} : stamping'[u] = stamping[u]
    BY <1>1, <1>10 DEF EndFinalize, TypeOK
  <2>3. \A u \in Finalizers \ {w} : stamping[u] = {}
    BY <1>1, <2>1 DEF LaneInv
  <2>4. ReceiptInv'
    BY <1>1, <2>1, <2>2, <2>3 DEF ReceiptInv
  <2>5. \A k \in Keys : Settled(k) => Settled(k)'
    BY <2>1, <2>2 DEF Settled
  <2>6. ASSUME NEW k \in Keys, Settled(k) PROVE Visible(k)' = Visible(k)
    <3>1. \A r \in stamping[w] : Cutoff(k) < r.avail /\ r.avail \in Int
      BY <1>1, <2>6 DEF Settled, TypeOK, Receipt, Times
    <3>2. \A r \in stamping[w] : ~ (r.avail <= Cutoff(k))  BY <1>1, <3>1
    <3> QED  BY <2>1, <3>2 DEF Visible
  <2>7. \A p \in Calls : txn[p].state = "none"
    BY <1>1, <2>1, KeyAssumption DEF LaneInv
  <2> QED  BY <1>1, <2>1, <2>4, <2>5, <2>6, <2>7, SameVisible DEF Persistent, SealInv, IsSealed, tables
<1> QED  BY <1>3, <1>4, <1>5, <1>6, <1>7, <1>8, <1>9, <1>10, StepKinds DEF Surroundings

\* What persists makes outcomes, links and settled selections persist.
LEMMA RightStays ==
  ASSUME IInv, TypeOK', Persistent
  PROVE  /\ \A o \in Outcome : OutcomeRight(o) /\ Newest(o.key)' = Newest(o.key) => OutcomeRight(o)'
         /\ \A l \in Link : \A rows, more : LinkRight(l, rows) /\ rows \subseteq more => LinkRight(l, more)'
<1>1. clock \in Int /\ clock' \in Int /\ clock <= clock'
  BY KeyAssumption DEF IInv, TypeOK, Times, Persistent
<1>2. ASSUME NEW o \in Outcome, OutcomeRight(o), Newest(o.key)' = Newest(o.key)
      PROVE  OutcomeRight(o)'
  BY <1>1, <1>2, KeyAssumption DEF OutcomeRight, Outcome, Times
<1>3. ASSUME NEW l \in Link, NEW rows, NEW more, LinkRight(l, rows), rows \subseteq more
      PROVE  LinkRight(l, more)'
  BY <1>3 DEF LinkRight, Persistent, Link
<1> QED  BY <1>2, <1>3

\* A call that does not take the step keeps its invariant.
LEMMA Untouched ==
  ASSUME IInv, TypeOK', Persistent, NEW q \in Calls, member' = member,
         pc'[q] = pc[q], reply'[q] = reply[q], txn'[q] = txn[q], got'[q] = got[q]
  PROVE  CallInv(q)'
<1>1. CallInv(q) /\ KeyOf(q) \in Keys /\ KeyOf(q)' = KeyOf(q) /\ txn[q] \in TxnRecords
  BY Names DEF IInv, KeyOf, TypeOK
<1>2. clock \in Int /\ clock' \in Int /\ txn[q].at \in Int /\ clock <= clock'
  BY <1>1, KeyAssumption DEF IInv, TypeOK, Times, Persistent, TxnRecords
<1>3. ControlInv(q)'
  BY <1>1, <1>2 DEF CallInv, ControlInv
<1>4. PendingInv(q)'
  <2>1. ASSUME NEW o \in txn[q].outcome PROVE OutcomeRight(o)'
    <3>1. o \in Outcome /\ o.key \in Keys  BY <1>1 DEF TxnRecords, Outcome
    <3>2. Newest(o.key)' = Newest(o.key)
      BY <1>1, <3>1 DEF CallInv, PendingInv, Persistent
    <3> QED  BY <1>1, <3>1, <3>2, RightStays DEF CallInv, PendingInv
  <2>2. ASSUME NEW l \in txn[q].link PROVE LinkRight(l, outcomes \cup txn[q].outcome)'
    <3>1. l \in Link  BY <1>1 DEF TxnRecords
    <3>2. LinkRight(l, outcomes \cup txn[q].outcome)  BY <1>1 DEF CallInv, PendingInv
    <3>3. outcomes \cup txn[q].outcome \subseteq outcomes' \cup txn'[q].outcome  BY DEF Persistent
    <3> QED  BY <3>1, <3>2, <3>3, RightStays
  <2> QED  BY <1>1, <2>1, <2>2 DEF CallInv, PendingInv
<1>5. ReadInv(q)'
  <2>1. pc[q] = "r_wait" => Newest(KeyOf(q))' = Newest(KeyOf(q))
    BY <1>1 DEF CallInv, ControlInv, Persistent
  <2>2. Settled(KeyOf(q)) => Settled(KeyOf(q))' /\ Newest(KeyOf(q))' = Newest(KeyOf(q))
    BY <1>1 DEF Persistent
  <2> QED  BY <1>1, <2>1, <2>2 DEF CallInv, ReadInv
<1>6. WriteInv(q)'
  <2>1. /\ Rows(q) \subseteq Rows(q)' /\ Links(q) \subseteq Links(q)'
        /\ SameContent(KeyOf(q), got[q]) \subseteq SameContent(KeyOf(q), got[q])'
        /\ Published(q) \subseteq Published(q)'
    BY <1>1 DEF Rows, Links, SameContent, Published, Persistent
  <2> QED  BY <1>1, <2>1 DEF CallInv, WriteInv
<1>7. CollectorInv(q)'
  <2>1. Settled(KeyOf(q)) => Settled(KeyOf(q))' /\ Newest(KeyOf(q))' = Newest(KeyOf(q))
    BY <1>1 DEF Persistent
  <2>2. IsSealed(member[q]) => IsSealed(member[q])'
    BY Names DEF IInv, Persistent
  <2> QED  BY <1>1, <2>1, <2>2 DEF CallInv, CollectorInv
<1> QED  BY <1>3, <1>4, <1>5, <1>6, <1>7 DEF CallInv

\* When a transaction that has read its clock at the cutoff commits, the
\* cutoff has passed and no receipt is on its way.
LEMMA SettledAtCommit ==
  ASSUME IInv, NEW p \in Calls, ServerCommit(p), NEW k \in Keys, Cutoff(k) <= txn[p].at
  PROVE  Settled(k)
<1>1. clock \in Int /\ txn[p].at \in Int /\ Cutoff(k) \in Nat /\ Cutoff(k) < MaxTime /\ MaxTime \in Nat
  BY KeyAssumption DEF IInv, TypeOK, Times, TxnRecords
<1>2. Cutoff(k) < clock
  BY <1>1 DEF ServerCommit, Later
<1>3. fence = p  BY DEF IInv, LaneInv, ServerCommit
<1>4. \A w \in Finalizers : stamping[w] = {}
  BY <1>3, KeyAssumption DEF IInv, LaneInv
<1> QED  BY <1>2, <1>4 DEF Settled

\* The tables stay right.
LEMMA TablePreserved ==
  ASSUME IInv, TypeOK', Persistent, [Next]_vars
  PROVE  TableInv'
<1>1. TableInv /\ TypeOK /\ outcomes \subseteq Outcome /\ publications \subseteq Link
  BY DEF IInv, TypeOK
<1>2. ASSUME NEW o \in outcomes PROVE OutcomeRight(o)' /\ Settled(o.key)'
  <2>1. o \in Outcome /\ o.key \in Keys  BY <1>1 DEF Outcome
  <2> QED  BY <1>1, <2>1, RightStays DEF TableInv, Persistent
<1>3. ASSUME NEW l \in publications PROVE LinkRight(l, outcomes)'
  BY <1>1, RightStays DEF TableInv, Persistent
<1>4. CASE UNCHANGED tables
  BY <1>2, <1>3, <1>4 DEF TableInv, tables
<1>5. ASSUME NEW p \in Calls, ServerCommit(p) PROVE TableInv'
  <2>1. /\ outcomes' = outcomes \cup txn[p].outcome /\ publications' = publications \cup txn[p].link
        /\ txn[p] \in TxnRecords /\ PendingInv(p) /\ txn[p].state # "none"
    BY <1>5 DEF ServerCommit, IInv, CallInv, TypeOK
  <2>2. ASSUME NEW o \in txn[p].outcome PROVE OutcomeRight(o)' /\ Settled(o.key)'
    <3>1. o \in Outcome /\ o.key \in Keys  BY <2>1 DEF TxnRecords, Outcome
    <3>2. Cutoff(o.key) <= txn[p].at
      BY <2>1, <3>1, KeyAssumption DEF PendingInv, OutcomeRight, TxnRecords, Outcome, Times
    <3>3. Settled(o.key)  BY <1>5, <3>1, <3>2, SettledAtCommit
    <3> QED  BY <2>1, <3>1, <3>3, RightStays DEF PendingInv, Persistent
  <2>3. ASSUME NEW l \in txn[p].link PROVE LinkRight(l, outcomes)'
    <3>1. l \in Link /\ LinkRight(l, outcomes \cup txn[p].outcome)  BY <2>1 DEF TxnRecords, PendingInv
    <3> QED  BY <2>1, <3>1, RightStays
  <2> QED  BY <1>2, <1>3, <2>1, <2>2, <2>3 DEF TableInv
<1>6. ASSUME NEW p \in Calls, CallAction(p), ~ ServerCommit(p) PROVE UNCHANGED tables
  <2>1. CASE Quiet(p)
    BY <1>1, <2>1, QuietEffect DEF IInv, CallInv
  <2>2. CASE TakeFence(p) \/ ServerAbort(p)
    BY <2>2 DEF TakeFence, ServerAbort
  <2> QED  BY <1>6, <2>1, <2>2 DEF CallAction, Quiet
<1>7. CASE Surroundings
  BY <1>4, <1>7 DEF Surroundings, Tick, Seal, Revise, LockLane, StampReceipt, EndFinalize
<1>8. CASE UNCHANGED vars
  BY <1>4, <1>8 DEF vars
<1> QED  BY <1>4, <1>5, <1>6, <1>7, <1>8, StepKinds

-----------------------------------------------------------------------------
(* The steps of a call.                                                    *)

\* What the steps of p may rely on.
LEMMA Mine ==
  ASSUME IInv, NEW p \in Calls
  PROVE  /\ TypeOK /\ ReceiptInv /\ TableInv /\ CallInv(p)
         /\ ControlInv(p) /\ PendingInv(p) /\ ReadInv(p) /\ WriteInv(p) /\ CollectorInv(p)
         /\ txn \in [Calls -> TxnRecords] /\ txn[p] \in TxnRecords
         /\ pc \in [Calls -> Steps] /\ reply \in [Calls -> Kinds] /\ got \in [Calls -> Evidence]
         /\ clock \in Int /\ txn[p].at \in Int
         /\ KeyOf(p) \in Keys /\ member[p] \in Members /\ got[p] \in Evidence
BY Names DEF IInv, CallInv, TypeOK, TxnRecords, Times

\* The world, the tables and the question of p stay as they are.
Steady == UNCHANGED <<clock, bars, sealed, tables, member>>

LEMMA SteadyWorld ==
  ASSUME IInv, Steady, NEW p \in Calls
  PROVE  /\ KeyOf(p)' = KeyOf(p) /\ (IsSealed(member[p])' <=> IsSealed(member[p]))
         /\ \A k \in Keys : Newest(k)' = Newest(k) /\ (Settled(k)' <=> Settled(k))
         /\ \A o \in Outcome : OutcomeRight(o)' <=> OutcomeRight(o)
         /\ \A l \in Link : \A rows : LinkRight(l, rows)' <=> LinkRight(l, rows)
<1> USE DEF Steady, bars, tables
<1>1. \A k \in Keys : Visible(k)' = Visible(k)  BY DEF Visible
<1>2. \A k \in Keys : Newest(k)' = Newest(k)  BY <1>1, SameVisible
<1>3. \A k \in Keys : Settled(k)' <=> Settled(k)  BY DEF Settled
<1>4. \A o \in Outcome : OutcomeRight(o)' <=> OutcomeRight(o)
  BY <1>2 DEF OutcomeRight, Outcome
<1>5. \A l \in Link : \A rows : LinkRight(l, rows)' <=> LinkRight(l, rows)
  BY DEF LinkRight, IsSealed
<1> QED  BY <1>2, <1>3, <1>4, <1>5 DEF KeyOf, IsSealed

\* A step of p that inserts nothing keeps its insertions right.
LEMMA PendingSteady ==
  ASSUME IInv, Steady, NEW p \in Calls,
         txn'[p].outcome = txn[p].outcome, txn'[p].link = txn[p].link,
         txn'[p].at \in {txn[p].at, clock}, txn'[p].state = "none" => txn[p].state = "none",
         pc'[p] \in {"r_clock", "r_read", "c_find", "c_insert"} =>
           txn[p].state = "none" \/ pc[p] \in {"r_clock", "r_read", "c_find", "c_insert"}
  PROVE  PendingInv(p)' /\ txn'[p].at <= clock'
<1>1. PendingInv(p) /\ txn[p] \in TxnRecords /\ txn[p].at <= clock /\ clock \in Int /\ txn[p].at \in Int
  BY Mine DEF ControlInv
<1>2. txn[p].outcome \subseteq Outcome /\ txn[p].link \subseteq Link  BY <1>1 DEF TxnRecords
<1>3. \A o \in txn[p].outcome : o.at \in Int /\ o.at <= txn'[p].at
  BY <1>1, <1>2 DEF PendingInv, Outcome, Times
<1>4. \A l \in txn[p].link : LinkRight(l, outcomes \cup txn[p].outcome)'
  <2>1. ASSUME NEW l \in txn[p].link PROVE LinkRight(l, outcomes \cup txn[p].outcome)'
    <3>1. l \in Link /\ LinkRight(l, outcomes \cup txn[p].outcome)  BY <1>1, <1>2 DEF PendingInv
    <3> QED  BY <3>1 DEF LinkRight, IsSealed, Steady, tables
  <2> QED  BY <2>1
<1>5. \A o \in txn'[p].outcome : OutcomeRight(o)' /\ o.at <= txn'[p].at
  BY <1>1, <1>2, <1>3, SteadyWorld DEF PendingInv
<1>6. txn'[p].state = "none" \/ pc'[p] \in {"r_clock", "r_read", "c_find", "c_insert"} =>
        txn'[p].outcome = {} /\ txn'[p].link = {}
  BY <1>1 DEF PendingInv
<1>7. txn'[p].at <= clock'
  BY <1>1 DEF Steady
<1>8. \A l \in txn'[p].link : LinkRight(l, outcomes \cup txn[p].outcome)'
  <2>1. outcomes' \cup txn'[p].outcome = outcomes \cup txn[p].outcome  BY DEF Steady, tables
  <2> QED  BY <1>4, <2>1
<1> QED  BY <1>5, <1>6, <1>7, <1>8 DEF PendingInv

\* A refusal that is no dispute, and a success with its rows, are right.
LEMMA RefuseCall ==
  ASSUME IInv, Steady, got' = got, NEW p \in Calls, NEW kind \in Kinds, Refuse(p, kind),
         kind # "source_unavailable",
         kind = "ok" => SameContent(KeyOf(p), got[p]) # {} /\ Published(p) # {},
         p \in Collectors => kind \notin Disputes
  PROVE  CallInv(p)'
<1>1. pc'[p] = "done" /\ reply'[p] = kind
  BY Mine, RefuseEffect
<1>2. /\ txn'[p].state = "none" <=> txn[p].state = "none"
      /\ txn'[p].outcome = txn[p].outcome /\ txn'[p].link = txn[p].link /\ txn'[p].at = txn[p].at
  BY Mine, RefuseEffect
<1>3. PendingInv(p)' /\ txn'[p].at <= clock'
  BY <1>1, <1>2, PendingSteady
<1>4. ControlInv(p)' /\ ReadInv(p)' /\ CollectorInv(p)'
  BY <1>1, <1>3 DEF ControlInv, ReadInv, CollectorInv, InTxn, Publishing
<1>5. SameContent(KeyOf(p), got[p])' = SameContent(KeyOf(p), got[p]) /\ Published(p)' = Published(p)
  BY DEF SameContent, Published, KeyOf, Steady, tables
<1>6. WriteInv(p)'
  BY <1>1, <1>5 DEF WriteInv
<1> QED  BY <1>3, <1>4, <1>6 DEF CallInv

\* Answers outside any transaction are right under the same conditions.
LEMMA AnswerCall ==
  ASSUME IInv, Steady, got' = got, txn' = txn, NEW p \in Calls, NEW kind \in Kinds, Answer(p, kind),
         kind # "source_unavailable",
         kind = "ok" => SameContent(KeyOf(p), got[p]) # {} /\ Published(p) # {},
         p \in Collectors => kind \notin Disputes
  PROVE  CallInv(p)'
<1>1. pc'[p] = "done" /\ reply'[p] = kind
  BY Mine DEF Answer, Goto
<1>3. PendingInv(p)' /\ txn'[p].at <= clock'
  BY <1>1, PendingSteady
<1>4. ControlInv(p)' /\ ReadInv(p)' /\ CollectorInv(p)'
  BY <1>1, <1>3 DEF ControlInv, ReadInv, CollectorInv, InTxn, Publishing
<1>5. SameContent(KeyOf(p), got[p])' = SameContent(KeyOf(p), got[p]) /\ Published(p)' = Published(p)
  BY DEF SameContent, Published, KeyOf, Steady, tables
<1>6. WriteInv(p)'
  BY <1>1, <1>5 DEF WriteInv
<1> QED  BY <1>3, <1>4, <1>6 DEF CallInv

\* The first steps of a call, and a commit that is sent.
LEMMA BeginPreserves ==
  ASSUME IInv, NEW p \in Calls,
         \/ Collect(p) /\ p \in Collectors
         \/ Submit(p) /\ p \in Publishers
         \/ ReadCohort(p) \/ SendCommit(p)
  PROVE  CallInv(p)'
<1> USE Mine DEF Goto
<1>1. CASE Collect(p) /\ p \in Collectors
  <2>1. Steady /\ UNCHANGED <<txn, got, reply>> /\ pc[p] = "start" /\ pc'[p] = "cohort"
    BY <1>1 DEF Collect, Steady
  <2>2. PendingInv(p)' /\ txn'[p].at <= clock'  BY <2>1, PendingSteady
  <2>3. reply'[p] = "none"  BY <2>1 DEF ControlInv
  <2> QED  BY <2>1, <2>2, <2>3
           DEF CallInv, ControlInv, ReadInv, WriteInv, CollectorInv, InTxn, Publishing, Disputes
<1>2. CASE Submit(p) /\ p \in Publishers
  <2>1. Steady /\ UNCHANGED <<txn, reply>> /\ pc[p] = "start" /\ pc'[p] = "p_find"
    BY <1>2 DEF Submit, Steady
  <2>2. PendingInv(p)' /\ txn'[p].at <= clock'  BY <2>1, PendingSteady
  <2>3. reply'[p] = "none" /\ p \notin Collectors  BY <1>2, <2>1, KeyAssumption DEF ControlInv
  <2> QED  BY <2>1, <2>2, <2>3 DEF CallInv, ControlInv, ReadInv, WriteInv, CollectorInv, InTxn
<1>3. CASE ReadCohort(p)
  <2>1. Steady /\ UNCHANGED <<txn, got>> /\ pc[p] = "cohort"  BY <1>3 DEF ReadCohort, Steady
  <2>2. CASE IsSealed(member[p])
    <3>1. pc'[p] = "r_lock" /\ reply' = reply  BY <1>3, <2>2 DEF ReadCohort
    <3>2. PendingInv(p)' /\ txn'[p].at <= clock'  BY <2>1, <3>1, PendingSteady
    <3>3. reply'[p] = "none"  BY <2>1, <3>1 DEF ControlInv
    <3>4. IsSealed(member[p])'  BY <2>1, <2>2, SteadyWorld
    <3> QED  BY <3>1, <3>2, <3>3, <3>4
             DEF CallInv, ControlInv, ReadInv, WriteInv, CollectorInv, InTxn, Publishing, Disputes
  <2>3. CASE ~ IsSealed(member[p])
    <3>1. Answer(p, "no_cohort")  BY <1>3, <2>3 DEF ReadCohort
    <3> QED  BY <2>1, <3>1, AnswerCall DEF Kinds, Disputes
  <2> QED  BY <2>2, <2>3
<1>4. CASE SendCommit(p)
  <2>1. Steady /\ UNCHANGED <<reply, got>> /\ pc[p] = "c_commit" /\ pc'[p] = "c_wait"
        /\ txn' = [txn EXCEPT ![p].state = "committing"]
    BY <1>4 DEF SendCommit, Steady
  <2>2. txn'[p] = [txn[p] EXCEPT !.state = "committing"]  BY <2>1
  <2>3. /\ txn'[p].outcome = txn[p].outcome /\ txn'[p].link = txn[p].link /\ txn'[p].at = txn[p].at
        /\ txn'[p].state = "committing"
    BY <2>2 DEF TxnRecords
  <2>4. PendingInv(p)' /\ txn'[p].at <= clock'  BY <2>1, <2>3, PendingSteady
  <2>5. reply'[p] = "none"  BY <2>1 DEF ControlInv
  <2>6. Rows(p)' = Rows(p) /\ Links(p)' = Links(p)
    BY <2>1, <2>3 DEF Rows, Links, KeyOf, Steady, tables
  <2>7. CollectorInv(p)'
    BY <2>1, <2>5, SteadyWorld DEF CollectorInv, Publishing, Disputes
  <2> QED  BY <2>1, <2>3, <2>4, <2>5, <2>6, <2>7
           DEF CallInv, ControlInv, ReadInv, WriteInv, InTxn
<1> QED  BY <1>1, <1>2, <1>3, <1>4

\* A transaction begins empty.
LEMMA TakeFencePreserves ==
  ASSUME IInv, NEW p \in Calls, TakeFence(p)
  PROVE  CallInv(p)'
<1> USE Mine DEF Goto
<1>1. /\ Steady /\ UNCHANGED <<got, reply>> /\ pc[p] \in {"r_lock", "c_lock"}
      /\ pc'[p] = IF pc[p] = "r_lock" THEN "r_clock" ELSE "c_find"
  BY DEF TakeFence, Steady, bars, tables
<1>2. txn'[p].state = "open" /\ txn'[p].at = NoTime /\ txn'[p].outcome = {} /\ txn'[p].link = {}
  BY TransactionEffect DEF NoTxn
<1>3. clock > 0  BY KeyAssumption DEF TypeOK, Times, NoTime
<1>4. reply'[p] = "none"  BY <1>1 DEF ControlInv
<1>5. ControlInv(p)' /\ PendingInv(p)' /\ ReadInv(p)' /\ WriteInv(p)'
  <2>1. ControlInv(p)'  BY <1>1, <1>2, <1>3, <1>4 DEF ControlInv, InTxn, NoTime, Steady
  <2>2. PendingInv(p)'  BY <1>2 DEF PendingInv
  <2>3. ReadInv(p)' /\ WriteInv(p)'  BY <1>1, <1>4 DEF ReadInv, WriteInv
  <2> QED  BY <2>1, <2>2, <2>3
<1>6. CollectorInv(p)'
  BY <1>1, <1>4, SteadyWorld DEF CollectorInv, Publishing, Disputes
<1> QED  BY <1>5, <1>6 DEF CallInv

\* A resolution reads the clock and the newest visible version.
LEMMA ResolvePreserves ==
  ASSUME IInv, NEW p \in Calls, ReadClock(p) \/ Resolve(p)
  PROVE  CallInv(p)'
<1> USE Mine DEF Goto
<1>1. CASE ReadClock(p)
  <2>1. Steady /\ got' = got /\ pc[p] = "r_clock"  BY <1>1 DEF ReadClock, Steady
  <2>2. CASE clock < Cutoff(KeyOf(p))
    <3>1. Refuse(p, "not_ready")  BY <1>1, <2>2 DEF ReadClock
    <3> QED  BY <2>1, <3>1, RefuseCall DEF Kinds, Disputes
  <2>3. CASE ~ (clock < Cutoff(KeyOf(p)))
    <3>1. txn' = [txn EXCEPT ![p].at = clock] /\ pc'[p] = "r_read" /\ reply' = reply
      BY <1>1, <2>3 DEF ReadClock
    <3>2. txn'[p] = [txn[p] EXCEPT !.at = clock]  BY <3>1
    <3>3. /\ txn'[p].outcome = txn[p].outcome /\ txn'[p].link = txn[p].link /\ txn'[p].at = clock
          /\ txn'[p].state = txn[p].state
      BY <3>2 DEF TxnRecords
    <3>4. PendingInv(p)' /\ txn'[p].at <= clock'  BY <2>1, <3>1, <3>3, PendingSteady
    <3>5. reply'[p] = "none"  BY <2>1, <3>1 DEF ControlInv
    <3>6. Cutoff(KeyOf(p))' <= txn'[p].at
      BY <2>1, <2>3, <3>3, Names, SteadyWorld
    <3>7. CollectorInv(p)'
      BY <2>1, <3>1, <3>5, SteadyWorld DEF CollectorInv, Publishing, Disputes
    <3> QED  BY <2>1, <3>1, <3>3, <3>4, <3>5, <3>6, <3>7
             DEF CallInv, ControlInv, ReadInv, WriteInv, InTxn
  <2> QED  BY <2>2, <2>3
<1>2. CASE Resolve(p)
  <2>1. /\ Steady /\ reply' = reply /\ pc[p] = "r_read" /\ pc'[p] = "r_wait"
        /\ txn' = [txn EXCEPT ![p].state = "committing"]
    BY <1>2 DEF Resolve, Steady
  <2>2. txn'[p] = [txn[p] EXCEPT !.state = "committing"]  BY <2>1
  <2>3. /\ txn'[p].outcome = txn[p].outcome /\ txn'[p].link = txn[p].link /\ txn'[p].at = txn[p].at
        /\ txn'[p].state = "committing"
    BY <2>2 DEF TxnRecords
  <2>4. PendingInv(p)' /\ txn'[p].at <= clock'  BY <2>1, <2>3, PendingSteady
  <2>5. reply'[p] = "none"  BY <2>1 DEF ControlInv
  <2>6. CollectorInv(p)'
    BY <2>1, <2>5, SteadyWorld DEF CollectorInv, Publishing, Disputes
  <2>7. Newest(KeyOf(p)) = IF got'[p] = NoEvidence THEN {} ELSE {got'[p]}
    <3>1. got'[p] = IF Newest(KeyOf(p)) = {} THEN NoEvidence ELSE CHOOSE e \in Newest(KeyOf(p)) : TRUE
      BY <1>2 DEF Resolve
    <3>2. CASE Newest(KeyOf(p)) = {}  BY <3>1, <3>2
    <3>3. CASE Newest(KeyOf(p)) # {}
      <4>1. got'[p] \in Newest(KeyOf(p))  BY <3>1, <3>3
      <4>2. got'[p] # NoEvidence  BY <4>1, NewestVisible
      <4>3. Newest(KeyOf(p)) = {got'[p]}  BY <4>1, NewestUnique
      <4> QED  BY <4>2, <4>3
    <3> QED  BY <3>2, <3>3
  <2>8. ReadInv(p)'
    BY <2>1, <2>3, <2>5, <2>7, SteadyWorld DEF ReadInv
  <2> QED  BY <2>1, <2>3, <2>4, <2>5, <2>6, <2>8 DEF CallInv, ControlInv, WriteInv, InTxn
<1> QED  BY <1>1, <1>2

\* A selection that has settled on what a collector brings admits no other
\* outcome of its key.
LEMMA NoConflict ==
  ASSUME IInv, NEW p \in Calls, Newest(KeyOf(p)) = {got[p]}
  PROVE  ~ (SameContent(KeyOf(p), got[p]) = {} /\ SameKey(KeyOf(p)) # {})
<1>1. ASSUME NEW o \in outcomes, o.key = KeyOf(p) PROVE o.ev = got[p]
  <2>1. Newest(o.key) = {o.ev}  BY Mine DEF TableInv, OutcomeRight
  <2> QED  BY <1>1, <2>1
<1> QED  BY <1>1 DEF SameContent, SameKey

\* The lookups before, inside and after the publishing transaction.
LEMMA LookupPreserves ==
  ASSUME IInv, NEW p \in Calls, Preflight(p) \/ FindPrepared(p) \/ Reconcile(p)
  PROVE  CallInv(p)'
<1> USE Mine DEF Goto
<1>1. Steady /\ got' = got /\ pc[p] \in {"p_find", "c_find", "c_race", "c_reconcile"}
  BY DEF Preflight, FindPrepared, Reconcile, Steady
<1>2. p \in Collectors => Newest(KeyOf(p)) = {got[p]} /\ pc[p] # "c_race"
  BY <1>1 DEF CollectorInv, Publishing
<1>3. CASE SameContent(KeyOf(p), got[p]) # {} /\ Published(p) # {}
  <2>1. Refuse(p, "ok")  BY <1>3 DEF Preflight, FindPrepared, Reconcile, Lookup
  <2> QED  BY <1>1, <1>3, <2>1, RefuseCall DEF Kinds, Disputes
<1>4. CASE SameContent(KeyOf(p), got[p]) = {} /\ SameKey(KeyOf(p)) # {}
  <2>1. Refuse(p, "semantic_conflict")
    BY <1>4 DEF Preflight, FindPrepared, Reconcile, Lookup
  <2>2. p \notin Collectors  BY <1>2, <1>4, NoConflict
  <2> QED  BY <1>1, <2>1, <2>2, RefuseCall DEF Kinds
<1>5. CASE /\ ~ (SameContent(KeyOf(p), got[p]) # {} /\ Published(p) # {})
           /\ ~ (SameContent(KeyOf(p), got[p]) = {} /\ SameKey(KeyOf(p)) # {})
  <2>1. CASE Reconcile(p)
    <3>1. Refuse(p, IF pc[p] = "c_race" THEN "write_conflict" ELSE "commit_unknown")
      BY <1>5, <2>1 DEF Reconcile, Lookup
    <3>2. CASE pc[p] = "c_race"
      BY <1>1, <1>2, <3>1, <3>2, RefuseCall DEF Kinds
    <3>3. CASE pc[p] # "c_race"
      BY <1>1, <3>1, <3>3, RefuseCall DEF Kinds, Disputes
    <3> QED  BY <3>2, <3>3
  <2>2. CASE Preflight(p) \/ FindPrepared(p)
    <3>1. /\ UNCHANGED <<txn, reply>>
          /\ \/ pc[p] = "p_find" /\ pc'[p] = "c_lock"
             \/ pc[p] = "c_find" /\ pc'[p] = "c_insert"
      BY <1>5, <2>2 DEF Preflight, FindPrepared, Lookup
    <3>2. PendingInv(p)' /\ txn'[p].at <= clock'  BY <1>1, <3>1, PendingSteady
    <3>3. reply'[p] = "none"  BY <3>1 DEF ControlInv
    <3>4. ControlInv(p)' /\ ReadInv(p)' /\ WriteInv(p)'
      BY <3>1, <3>2, <3>3 DEF ControlInv, ReadInv, WriteInv, InTxn
    <3>5. CollectorInv(p)'
      BY <1>1, <3>1, <3>3, SteadyWorld DEF CollectorInv, Publishing, Disputes
    <3> QED  BY <3>2, <3>4, <3>5 DEF CallInv
  <2> QED  BY <2>1, <2>2
<1> QED  BY <1>3, <1>4, <1>5

\* The insertion of an outcome: the triggers admit what is right, and what a
\* collector brings.
LEMMA InsertPreserves ==
  ASSUME IInv, NEW p \in Calls, InsertOutcome(p)
  PROVE  CallInv(p)'
<1> USE Mine DEF Goto
<1>1. Steady /\ got' = got /\ pc[p] = "c_insert"  BY DEF InsertOutcome, Steady
<1>2. p \in Collectors => Newest(KeyOf(p)) = {got[p]} /\ Settled(KeyOf(p))
  BY <1>1 DEF CollectorInv, Publishing
<1>3. CASE ~ EvidenceStored(p)
  <2>1. Refuse(p, "evidence_missing")  BY <1>3 DEF InsertOutcome
  <2>2. p \notin Collectors
    <3>1. SUFFICES ASSUME p \in Collectors PROVE FALSE  OBVIOUS
    <3>2. got[p] \in Newest(KeyOf(p))  BY <1>2, <3>1
    <3> QED  BY <1>3, <3>2, NewestVisible DEF EvidenceStored
  <2> QED  BY <1>1, <2>1, <2>2, RefuseCall DEF Kinds
<1>4. CASE EvidenceStored(p) /\ ~ PolicyHolds(p)
  <2>1. Refuse(p, "integrity")  BY <1>4 DEF InsertOutcome
  <2>2. p \notin Collectors
    <3>1. Settled(KeyOf(p)) => clock >= Cutoff(KeyOf(p))  BY Names DEF Settled
    <3> QED  BY <1>2, <1>4, <3>1 DEF PolicyHolds
  <2> QED  BY <1>1, <2>1, <2>2, RefuseCall DEF Kinds
<1>5. CASE /\ EvidenceStored(p) /\ PolicyHolds(p)
           /\ SameContent(KeyOf(p), got[p]) = {} /\ SameKey(KeyOf(p)) # {}
  \* Excluded by what the tables hold already.
  BY <1>5, NoConflict DEF PolicyHolds
<1>6. CASE /\ EvidenceStored(p) /\ PolicyHolds(p)
           /\ ~ (SameContent(KeyOf(p), got[p]) = {} /\ SameKey(KeyOf(p)) # {})
  <2> DEFINE new == IF SameContent(KeyOf(p), got[p]) # {} THEN {}
                    ELSE {[key |-> KeyOf(p), ev |-> got[p], at |-> clock]}
  <2>1. txn' = [txn EXCEPT ![p].at = clock, ![p].outcome = new] /\ pc'[p] = "c_link" /\ reply' = reply
    BY <1>6 DEF InsertOutcome
  <2>2. \A o \in new : o \in Outcome /\ o.key = KeyOf(p) /\ o.ev = got[p] /\ o.at = clock
    BY DEF Outcome, TypeOK
  <2>3. \A o \in new : OutcomeRight(o)
    <3>1. Cutoff(KeyOf(p)) <= clock  BY <1>6, Names DEF PolicyHolds
    <3> QED  BY <1>6, <2>2, <3>1 DEF OutcomeRight, PolicyHolds
  <2>4. {o \in outcomes \cup new : o.key = KeyOf(p) /\ o.ev = got[p]} # {}
    <3>1. CASE SameContent(KeyOf(p), got[p]) # {}  BY <3>1 DEF SameContent
    <3>2. CASE SameContent(KeyOf(p), got[p]) = {}
      <4>1. [key |-> KeyOf(p), ev |-> got[p], at |-> clock] \in new  BY <3>2
      <4> QED  BY <2>2, <4>1
    <3> QED  BY <3>1, <3>2
  <2> HIDE DEF new
  <2>5. txn'[p] = [txn[p] EXCEPT !.at = clock, !.outcome = new]  BY <2>1
  <2>6. /\ txn'[p].outcome = new /\ txn'[p].link = txn[p].link /\ txn'[p].at = clock
        /\ txn'[p].state = txn[p].state
    BY <2>5 DEF TxnRecords
  <2>7. txn[p].link = {} /\ txn[p].state = "open"  BY <1>1 DEF PendingInv, ControlInv, InTxn
  <2>8. PendingInv(p)'
    <3>1. \A o \in new : OutcomeRight(o)'  BY <1>1, <2>2, <2>3, SteadyWorld
    <3>2. \A o \in txn'[p].outcome : OutcomeRight(o)' /\ o.at <= txn'[p].at
      BY <2>2, <2>6, <3>1
    <3>3. txn'[p].state # "none" /\ pc'[p] = "c_link" /\ txn'[p].link = {}
      BY <2>1, <2>6, <2>7
    <3> QED  BY <3>2, <3>3 DEF PendingInv
  <2>9. reply'[p] = "none"  BY <1>1, <2>1 DEF ControlInv
  <2>10. Rows(p)' # {}
    BY <1>1, <2>4, <2>6, SteadyWorld DEF Rows, Steady, tables
  <2>11. CollectorInv(p)'
    BY <1>1, <2>1, <2>9, SteadyWorld DEF CollectorInv, Publishing, Disputes
  <2>12. ControlInv(p)'
    BY <1>1, <2>1, <2>6, <2>7, <2>9 DEF ControlInv, InTxn, Steady
  <2> QED  BY <2>1, <2>8, <2>9, <2>10, <2>11, <2>12 DEF CallInv, ReadInv, WriteInv
<1> QED  BY <1>3, <1>4, <1>5, <1>6

\* The link is inserted for a sealed member, next to its outcome.
LEMMA LinkPreserves ==
  ASSUME IInv, NEW p \in Calls, LinkMember(p)
  PROVE  CallInv(p)'
<1> USE Mine DEF Goto
<1>1. Steady /\ got' = got /\ pc[p] = "c_link"  BY DEF LinkMember, Steady
<1>2. CASE ~ IsSealed(member[p])
  <2>1. Refuse(p, "not_member")  BY <1>2 DEF LinkMember
  <2>2. p \notin Collectors  BY <1>1, <1>2 DEF CollectorInv
  <2> QED  BY <1>1, <2>1, <2>2, RefuseCall DEF Kinds
<1>3. CASE IsSealed(member[p])
  <2> DEFINE new == IF Published(p) # {} THEN {}
                    ELSE {[key |-> KeyOf(p), ev |-> got[p], member |-> member[p], at |-> clock]}
  <2>1. txn' = [txn EXCEPT ![p].link = new] /\ pc'[p] = "c_commit" /\ reply' = reply
    BY <1>3 DEF LinkMember
  <2>2. \A l \in new : /\ l \in Link /\ l.key = KeyOf(p) /\ l.ev = got[p]
                       /\ l.member = member[p] /\ l.at = clock
    BY DEF Link, TypeOK
  <2>3. {l \in publications \cup new : l.key = KeyOf(p) /\ l.ev = got[p] /\ l.member = member[p]} # {}
    <3>1. CASE Published(p) # {}  BY <3>1 DEF Published
    <3>2. CASE Published(p) = {}
      <4>1. [key |-> KeyOf(p), ev |-> got[p], member |-> member[p], at |-> clock] \in new  BY <3>2
      <4> QED  BY <2>2, <4>1
    <3> QED  BY <3>1, <3>2
  <2> HIDE DEF new
  <2>4. txn'[p] = [txn[p] EXCEPT !.link = new]  BY <2>1
  <2>5. /\ txn'[p].link = new /\ txn'[p].outcome = txn[p].outcome /\ txn'[p].at = txn[p].at
        /\ txn'[p].state = txn[p].state /\ txn[p].state = "open"
    BY <1>1, <2>4 DEF TxnRecords, ControlInv, InTxn
  <2>6. PICK o \in outcomes \cup txn[p].outcome : o.key = KeyOf(p) /\ o.ev = got[p]
    BY <1>1 DEF WriteInv, Rows
  <2>7. o.at <= clock
    BY <2>6 DEF TableInv, PendingInv, OutcomeRight
  <2>8. \A l \in new : LinkRight(l, outcomes \cup txn[p].outcome)
    BY <1>3, <2>2, <2>6, <2>7 DEF LinkRight, KeyOf
  <2>9. PendingInv(p)'
    <3>1. \A l \in txn'[p].link : LinkRight(l, outcomes \cup txn[p].outcome)'
      BY <1>1, <2>2, <2>5, <2>8 DEF LinkRight, IsSealed, Steady, tables
    <3>2. \A x \in txn'[p].outcome : OutcomeRight(x)' /\ x.at <= txn'[p].at
      <4>1. \A x \in txn[p].outcome : x \in Outcome  BY DEF TxnRecords
      <4> QED  BY <1>1, <2>5, <4>1, SteadyWorld DEF PendingInv
    <3>3. txn'[p].state # "none" /\ pc'[p] = "c_commit"
      BY <2>1, <2>5
    <3>4. outcomes' \cup txn'[p].outcome = outcomes \cup txn[p].outcome
      BY <1>1, <2>5 DEF Steady, tables
    <3> QED  BY <2>5, <3>1, <3>2, <3>3, <3>4 DEF PendingInv
  <2>10. reply'[p] = "none"  BY <1>1, <2>1 DEF ControlInv
  <2>11. Rows(p)' # {} /\ Links(p)' # {}
    <3>1. Rows(p)' = Rows(p)  BY <1>1, <2>5 DEF Rows, KeyOf, Steady, tables
    <3>2. Links(p)' # {}
      BY <1>1, <2>3, <2>5 DEF Links, KeyOf, Steady, tables
    <3> QED  BY <1>1, <3>1, <3>2 DEF WriteInv
  <2>12. CollectorInv(p)'
    BY <1>1, <2>1, <2>10, SteadyWorld DEF CollectorInv, Publishing, Disputes
  <2>13. ControlInv(p)'
    BY <1>1, <2>1, <2>5, <2>10 DEF ControlInv, InTxn, Steady
  <2> QED  BY <2>1, <2>9, <2>10, <2>11, <2>12, <2>13 DEF CallInv, ReadInv, WriteInv
<1> QED  BY <1>2, <1>3

\* The read of the committed proof, and the faults of a call.
LEMMA FaultPreserves ==
  ASSUME IInv, NEW p \in Calls,
         \/ ReadCommitted(p)
         \/ DatabaseError(p) \/ OutcomeUnknown(p) \/ ReconcileFails(p) \/ Crash(p)
  PROVE  CallInv(p)'
<1> USE Mine DEF Goto
<1>1. Steady /\ got' = got
  BY DEF ReadCommitted, DatabaseError, OutcomeUnknown, ReconcileFails, Crash, Steady
<1>2. CASE ReadCommitted(p)
  <2>1. SameContent(KeyOf(p), got[p]) # {} /\ Published(p) # {}
    BY <1>2 DEF ReadCommitted, WriteInv
  <2>2. Answer(p, "ok") /\ txn' = txn  BY <1>2, <2>1 DEF ReadCommitted
  <2> QED  BY <1>1, <2>1, <2>2, AnswerCall DEF Kinds, Disputes
<1>3. CASE DatabaseError(p)
  BY <1>1, <1>3, RefuseCall DEF DatabaseError, Kinds, Disputes
<1>4. CASE Crash(p)
  BY <1>1, <1>4, RefuseCall DEF Crash, Kinds, Disputes
<1>5. CASE ReconcileFails(p)
  <2>1. CASE pc[p] = "c_race"
    BY <1>1, <1>5, <2>1, AnswerCall DEF ReconcileFails, CollectorInv, Kinds
  <2>2. CASE pc[p] # "c_race"
    BY <1>1, <1>5, <2>2, AnswerCall DEF ReconcileFails, Kinds, Disputes
  <2> QED  BY <2>1, <2>2
<1>6. CASE OutcomeUnknown(p)
  <2>1. /\ pc[p] \in {"c_find", "c_insert", "c_link", "c_commit", "c_wait"} /\ pc'[p] = "c_reconcile"
        /\ reply' = reply /\ txn' = Doomed(p)
    BY <1>6 DEF OutcomeUnknown
  <2>2. /\ txn'[p].state = "none" <=> txn[p].state = "none"
        /\ txn'[p].outcome = txn[p].outcome /\ txn'[p].link = txn[p].link /\ txn'[p].at = txn[p].at
    <3>1. CASE txn[p].state = "open"
      <4>1. txn'[p] = [txn[p] EXCEPT !.state = "doomed"]  BY <2>1, <3>1 DEF Doomed
      <4> QED  BY <3>1, <4>1 DEF TxnRecords
    <3>2. CASE txn[p].state # "open"  BY <2>1, <3>2 DEF Doomed
    <3> QED  BY <3>1, <3>2
  <2>3. PendingInv(p)' /\ txn'[p].at <= clock'  BY <1>1, <2>1, <2>2, PendingSteady
  <2>4. reply'[p] = "none"  BY <2>1 DEF ControlInv
  <2>5. ControlInv(p)' /\ ReadInv(p)' /\ WriteInv(p)'
    BY <2>1, <2>3, <2>4 DEF ControlInv, ReadInv, WriteInv, InTxn
  <2>6. CollectorInv(p)'
    BY <1>1, <2>1, <2>4, SteadyWorld DEF CollectorInv, Publishing, Disputes
  <2> QED  BY <2>3, <2>5, <2>6 DEF CallInv
<1> QED  BY <1>2, <1>3, <1>4, <1>5, <1>6

\* The end of a transaction, reported to the client that waits for it or to
\* nobody.  What it read and wrote has settled when it commits.
LEMMA CommitPreserves ==
  ASSUME IInv, TypeOK', Persistent, NEW p \in Calls, ServerCommit(p) \/ ServerAbort(p)
  PROVE  CallInv(p)'
<1> USE Mine DEF Goto
<1>1. /\ txn'[p] = NoTxn /\ txn[p].state # "none" /\ got' = got /\ member' = member
      /\ KeyOf(p)' = KeyOf(p)
  <2>1. txn'[p] = NoTxn /\ txn[p].state # "none"  BY TransactionEffect
  <2>2. got' = got /\ member' = member  BY DEF ServerCommit, ServerAbort
  <2> QED  BY <2>1, <2>2 DEF KeyOf
<1>2. PendingInv(p)' /\ txn'[p].at <= clock'
  <2>1. NoTime <= clock'  BY KeyAssumption DEF TypeOK, Times, NoTime
  <2>2. txn'[p].at = NoTime /\ txn'[p].outcome = {} /\ txn'[p].link = {}  BY <1>1 DEF NoTxn
  <2> QED  BY <2>1, <2>2 DEF PendingInv
<1>3. /\ Settled(KeyOf(p)) => Settled(KeyOf(p))' /\ Newest(KeyOf(p))' = Newest(KeyOf(p))
      /\ IsSealed(member[p]) => IsSealed(member[p])'
      /\ Newest(KeyOf(p))' = Newest(KeyOf(p))
  BY <1>1 DEF Persistent
<1>4. /\ SameContent(KeyOf(p), got[p]) \subseteq SameContent(KeyOf(p), got[p])'
      /\ Published(p) \subseteq Published(p)'
  BY <1>1 DEF SameContent, Published, Persistent
<1>5. pc[p] \notin InTxn
  BY DEF ServerCommit, ServerAbort, ControlInv
<1>6. CASE pc'[p] = pc[p] /\ reply'[p] = reply[p] /\ pc[p] \notin {"r_wait", "c_wait"}
  <2>1. ControlInv(p)'  BY <1>2, <1>5, <1>6 DEF ControlInv
  <2>2. ReadInv(p)'  BY <1>1, <1>3, <1>5, <1>6 DEF ReadInv, InTxn
  <2>3. WriteInv(p)'  BY <1>1, <1>4, <1>5, <1>6 DEF WriteInv, InTxn
  <2>4. CollectorInv(p)'  BY <1>1, <1>3, <1>6 DEF CollectorInv
  <2> QED  BY <1>2, <2>1, <2>2, <2>3, <2>4 DEF CallInv
<1>7. CASE ServerAbort(p)
  <2>1. CASE pc[p] \in {"r_wait", "c_wait"}
    <3>1. Answer(p, "unavailable")  BY <1>7, <2>1 DEF ServerAbort, ControlInv
    <3>2. pc'[p] = "done" /\ reply'[p] = "unavailable"  BY <3>1 DEF Answer
    <3>3. CollectorInv(p)'  BY <3>2 DEF CollectorInv, Publishing, Disputes
    <3> QED  BY <1>2, <3>2, <3>3 DEF CallInv, ControlInv, ReadInv, WriteInv, InTxn
  <2>2. CASE pc[p] \notin {"r_wait", "c_wait"}
    BY <1>6, <1>7, <2>2 DEF ServerAbort
  <2> QED  BY <2>1, <2>2
<1>8. CASE ServerCommit(p)
  <2>1. CASE pc[p] = "r_wait"
    <3>1. Settled(KeyOf(p))' /\ Newest(KeyOf(p))' = Newest(KeyOf(p))
      BY <1>3, <1>8, <2>1, SettledAtCommit DEF ReadInv
    <3>2. reply[p] = "none"  BY <2>1 DEF ControlInv
    <3>3. CASE got[p] = NoEvidence
      <4>1. Answer(p, "source_unavailable")  BY <1>8, <2>1, <3>3 DEF ServerCommit, Acknowledged
      <4>2. pc'[p] = "done" /\ reply'[p] = "source_unavailable"  BY <4>1 DEF Answer
      <4>3. Newest(KeyOf(p))' = {}  BY <2>1, <3>1, <3>3 DEF ReadInv
      <4>4. CollectorInv(p)'  BY <4>2 DEF CollectorInv, Publishing, Disputes
      <4> QED  BY <1>1, <1>2, <3>1, <4>2, <4>3, <4>4
               DEF CallInv, ControlInv, ReadInv, WriteInv, InTxn
    <3>4. CASE got[p] # NoEvidence
      <4>1. pc'[p] = "p_find" /\ reply'[p] = reply[p]
        BY <1>8, <2>1, <3>4 DEF ServerCommit, Acknowledged
      <4>2. Newest(KeyOf(p))' = {got[p]}  BY <2>1, <3>1, <3>4 DEF ReadInv
      <4>3. CollectorInv(p)'
        BY <1>1, <1>3, <2>1, <3>1, <3>2, <4>1, <4>2 DEF CollectorInv, Disputes
      <4> QED  BY <1>2, <3>2, <4>1, <4>3 DEF CallInv, ControlInv, ReadInv, WriteInv, InTxn
    <3> QED  BY <3>3, <3>4
  <2>2. CASE pc[p] = "c_wait"
    <3>1. pc'[p] = "c_read" /\ reply'[p] = reply[p]
      BY <1>8, <2>2 DEF ServerCommit, Acknowledged
    <3>2. reply[p] = "none"  BY <2>2 DEF ControlInv
    <3>3. outcomes' = outcomes \cup txn[p].outcome /\ publications' = publications \cup txn[p].link
      BY <1>8 DEF ServerCommit
    <3>4. SameContent(KeyOf(p), got[p])' = Rows(p) /\ Published(p)' = Links(p)
      BY <1>1, <3>3 DEF SameContent, Published, Rows, Links
    <3>5. WriteInv(p)'
      BY <1>1, <2>2, <3>1, <3>4 DEF WriteInv
    <3>6. CollectorInv(p)'
      BY <1>1, <1>3, <2>2, <3>1, <3>2 DEF CollectorInv, Publishing, Disputes
    <3> QED  BY <1>2, <3>1, <3>2, <3>5, <3>6 DEF CallInv, ControlInv, ReadInv, InTxn
  <2>3. CASE pc[p] \notin {"r_wait", "c_wait"}
    BY <1>6, <1>8, <2>3 DEF ServerCommit, Acknowledged
  <2> QED  BY <2>1, <2>2, <2>3
<1> QED  BY <1>7, <1>8

\* Every step preserves the invariant.
LEMMA NextPreserves == IInv /\ [Next]_vars => IInv'
<1> SUFFICES ASSUME IInv, [Next]_vars PROVE IInv'  OBVIOUS
<1>1. TypeOK /\ ReceiptInv /\ TypeOK'
  BY NextTypes DEF IInv
<1>2. Persistent  BY <1>1, Persistence
<1>3. ReceiptInv' /\ SealInv'  BY <1>2 DEF Persistent
<1>4. LaneInv' /\ TableInv'  BY <1>1, <1>2, LanePreserved, TablePreserved
<1>5. ASSUME NEW q \in Calls PROVE CallInv(q)'
  <2>1. CASE UNCHANGED vars
    BY <1>1, <1>2, <2>1, Untouched DEF vars
  <2>2. CASE Surroundings
    <3>1. UNCHANGED <<txn, pc, member, got, reply>>
      BY <2>2 DEF Surroundings, Tick, Seal, Revise, LockLane, StampReceipt, EndFinalize
    <3> QED  BY <1>1, <1>2, <3>1, Untouched
  <2>3. ASSUME NEW p \in Calls, CallAction(p) PROVE CallInv(q)'
    <3>1. CASE p = q
      BY <1>1, <1>2, <2>3, <3>1, BeginPreserves, TakeFencePreserves, ResolvePreserves,
         LookupPreserves, InsertPreserves, LinkPreserves, FaultPreserves, CommitPreserves
         DEF CallAction, Step
    <3>2. CASE p # q
      <4>1. ControlInv(p)  BY DEF IInv, CallInv
      <4>2. OnlyBy(p)
        BY <1>1, <2>3, <4>1, QuietEffect, TransactionEffect DEF CallAction, Quiet
      <4> QED  BY <1>1, <1>2, <3>2, <4>2, Untouched DEF OnlyBy
    <3> QED  BY <3>1, <3>2
  <2> QED  BY <2>1, <2>2, <2>3, StepKinds
<1> QED  BY <1>1, <1>3, <1>4, <1>5 DEF IInv

-----------------------------------------------------------------------------
(* The theorems.                                                           *)

\* The invariant holds in every reachable state: the lane lock orders clock
\* reads, receipts and outcomes, so that what a committed transaction has read
\* of a passed cutoff is settled.
THEOREM InvariantHolds == Spec => []IInv
BY InitInv, NextPreserves, PTL DEF Spec

\* Every variable keeps its type, for any number of calls and finalizers.
THEOREM TypeCorrect == Spec => []TypeOK
<1>1. IInv => TypeOK  BY DEF IInv
<1> QED  BY InvariantHolds, <1>1, PTL

\* A published outcome remains the one that the policy selects from the
\* tables, whatever versions and receipts are committed later.
THEOREM OutcomesStayTrue == Spec => []TruthIsStable
<1>1. IInv => TruthIsStable
  BY DEF IInv, TableInv, OutcomeRight, TruthIsStable
<1> QED  BY InvariantHolds, <1>1, PTL

\* Once a resolution has answered that no version was available at the cutoff,
\* none ever is, and no caller publishes an outcome of that key.
THEOREM UnavailabilityIsFinal == Spec => []UnavailableIsFinal
<1>1. ASSUME IInv PROVE UnavailableIsFinal
  <2>1. ASSUME NEW p \in Calls, reply[p] = "source_unavailable"
        PROVE  Newest(KeyOf(p)) = {} /\ SameKey(KeyOf(p)) = {}
    <3>1. Newest(KeyOf(p)) = {}  BY <1>1, <2>1, Mine DEF ReadInv
    <3>2. ASSUME NEW o \in outcomes, o.key = KeyOf(p) PROVE FALSE
      <4>1. Newest(o.key) = {o.ev}  BY <1>1, Mine DEF TableInv, OutcomeRight
      <4> QED  BY <3>1, <3>2, <4>1
    <3> QED  BY <3>1, <3>2 DEF SameKey
  <2> QED  BY <2>1 DEF UnavailableIsFinal
<1> QED  BY InvariantHolds, <1>1, PTL

\* What a resolution found after the cutoff is final, a version or none.
THEOREM ResolutionIsFinal == Spec => []CutoffIsFinal
BY OutcomesStayTrue, UnavailabilityIsFinal, PTL DEF CutoffIsFinal

\* No collection, first or retried, is ever told that another outcome exists,
\* that its evidence is wrong or missing, or that its member is not sealed.
THEOREM CollectionsNeverDisputed == Spec => []NeverDisputed
<1>1. ASSUME IInv PROVE NeverDisputed
  <2>1. ASSUME NEW p \in Collectors PROVE reply[p] \notin Disputes
    BY <1>1, Mine DEF CollectorInv, Calls
  <2> QED  BY <2>1 DEF NeverDisputed, Disputes
<1> QED  BY InvariantHolds, <1>1, PTL

\* A returned proof names rows that are committed.
THEOREM ProofsHold == Spec => []ProofHolds
<1>1. ASSUME IInv PROVE ProofHolds
  BY <1>1, Mine DEF WriteInv, ProofHolds
<1> QED  BY InvariantHolds, <1>1, PTL

\* Every link is backed by a seal before the target, a version recorded after
\* it and an outcome that was sealed between its cutoff and the link.
THEOREM LinksAreJustified == Spec => []LinksJustified
<1>1. ASSUME IInv PROVE LinksJustified
  <2>0. TypeOK /\ ReceiptInv /\ SealInv /\ TableInv /\ outcomes \subseteq Outcome
        /\ publications \subseteq Link
    BY <1>1 DEF IInv, TypeOK
  <2>1. ASSUME NEW l \in publications
        PROVE  /\ Key(l.member) = l.key
               /\ sealed[l.member] \in 1..(Target(Bar(l.key)) - 1) /\ Target(Bar(l.key)) <= l.ev.rec
               /\ \E o \in outcomes : /\ o.key = l.key /\ o.ev = l.ev
                                      /\ l.ev.avail <= Cutoff(l.key) /\ Cutoff(l.key) <= o.at /\ o.at <= l.at
    <3>1. l \in Link /\ LinkRight(l, outcomes)  BY <2>0 DEF TableInv
    <3>2. PICK o \in outcomes : o.key = l.key /\ o.ev = l.ev /\ o.at <= l.at
      BY <3>1 DEF LinkRight
    <3>3. Newest(l.key) = {l.ev} /\ Cutoff(l.key) <= o.at
      BY <2>0, <3>2 DEF TableInv, OutcomeRight
    <3>4. l.key \in Keys /\ l.member \in Members  BY <3>1 DEF Link
    <3>5. l.ev \in Newest(l.key)  BY <3>3
    <3>6. Target(Bar(l.key)) <= l.ev.rec /\ l.ev.avail <= Cutoff(l.key)
      BY <2>0, <3>4, <3>5, NewestVisible
    <3>7. Key(l.member) = l.key /\ IsSealed(l.member) /\ sealed[l.member] < Target(Bar(l.key))
      BY <2>0, <3>1, <3>4 DEF LinkRight, SealInv
    <3>8. sealed[l.member] \in 1..(Target(Bar(l.key)) - 1)
      BY <2>0, <3>4, <3>7, KeyAssumption DEF TypeOK, Times, IsSealed, NoTime
    <3> QED  BY <3>2, <3>3, <3>6, <3>7, <3>8
  <2> QED  BY <2>1 DEF LinksJustified
<1> QED  BY InvariantHolds, <1>1, PTL

\* Proofs name committed rows, and the rows evidence that was there in time.
THEOREM EvidenceIsJustified == Spec => []EvidenceJustified
BY ProofsHold, LinksAreJustified, PTL DEF EvidenceJustified
=============================================================================
