---------------------------- MODULE CohortsProofs ----------------------------
(***************************************************************************)
(* Proofs about Cohorts, for every set of manifests and every number of    *)
(* publications and faults: its inductive invariant and the safety         *)
(* properties of the committed evidence that the runs check.               *)
(***************************************************************************)
EXTENDS Cohorts, TLAPS

SealSteps == {"s_read", "s_stamp", "s_insert", "s_commit", "s_wait", "s_lookup",
              "s_reconcile", "proof"}

\* The control state of a publication and its transaction agree.
Shape(p) ==
  /\ txn[p].state = "none" => txn[p] = NoTxn
  /\ txn[p].state = "open" <=> pc[p] \in Open \ {"m_read", "s_read"}
  /\ pc[p] \in {"start", "m_read"} => txn[p].state = "none"
  /\ txn[p].rows \in {{}, {"manifest"}, {"seal"}}
  /\ txn[p].rows # {"manifest"} => txn[p].slots = {}
  /\ txn[p].slots \subseteq manifest[p].slots
  /\ pc[p] \in {"m_stamp", "m_validate", "m_insert", "s_stamp", "s_insert"} => txn[p].rows = {}
  /\ pc[p] = "m_members" => txn[p].rows = {"manifest"} /\ Remaining(p) # {}
  /\ pc[p] \in {"m_commit", "m_wait"} => txn[p].rows = {"manifest"}
  /\ pc[p] \in {"s_commit", "s_wait"} => txn[p].rows = {"seal"}
  /\ pc[p] \in {"m_wait", "s_wait"} => txn[p].state = "committing"
  /\ txn[p].state = "committing" => txn[p].rows # {}
  /\ pc[p] = "m_commit" \/ (txn[p].state = "committing" /\ txn[p].rows = {"manifest"})
       => txn[p].slots = manifest[p].slots

\* What has been checked for a manifest that is, or is about to be, inserted.
Recordable(m, t) ==
  /\ t \in 1..clock
  /\ registered[m.policy] \in 1..clock
  /\ \A s \in m.slots : archived[s.opp] \in 1..clock

Sealable(m, t) ==
  /\ IsCommitted(m)
  /\ committed[m] <= t /\ t \in 1..clock /\ BeforeTargets(t, m)

\* The rows of a transaction would be right if it committed.
Evidence(p) ==
  /\ pc[p] = "m_validate" => txn[p].recorded \in 1..clock
  /\ pc[p] = "m_insert" \/ "manifest" \in txn[p].rows => Recordable(manifest[p], txn[p].recorded)
  /\ pc[p] = "s_insert" \/ "seal" \in txn[p].rows => Sealable(manifest[p], txn[p].sealed)
  /\ "manifest" \in txn[p].rows => ~ IsCommitted(manifest[p])
  /\ "seal" \in txn[p].rows => ~ IsSealed(manifest[p])
  /\ pc[p] \in SealSteps => IsCommitted(manifest[p])
  /\ pc[p] = "proof" => IsSealed(manifest[p])

\* Members still to be committed do not clash with committed ones.
Compatible(p) ==
  \A s \in txn[p].slots, n \in Manifests : \A t \in members[n] : ~ Clash(manifest[p], s, n, t)

\* A refused cohort stays in the way of what has taken its member.
Taken(m) ==
  \E s \in m.slots, n \in Manifests \ {m} : \E t \in members[n] : Clash(m, s, n, t)

AnswerRight(p) ==
  /\ reply[p].kind = "ok" =>
       /\ IsSealed(manifest[p])
       /\ reply[p].recorded = recorded[manifest[p]] /\ reply[p].sealed = sealed[manifest[p]]
  /\ reply[p].kind = "taken" => Taken(manifest[p])
  /\ reply[p].kind # "incomplete"

Single(p) == Shape(p) /\ Evidence(p) /\ Compatible(p) /\ AnswerRight(p)

\* Two transactions hold neither the same row nor members that clash.
Pair(p, q) ==
  /\ manifest[p] = manifest[q] => txn[p].rows \cap txn[q].rows = {}
  /\ \A s \in txn[p].slots, t \in txn[q].slots : ~ Clash(manifest[p], s, manifest[q], t)

\* The committed rows of a cohort.
Table(m) ==
  /\ ~ IsCommitted(m) => members[m] = {} /\ ~ IsSealed(m)
  /\ IsCommitted(m) =>
       /\ members[m] = m.slots
       /\ committed[m] <= clock /\ recorded[m] <= committed[m]
       /\ registered[m.policy] \in 1..committed[m]
       /\ \A s \in m.slots : archived[s.opp] \in 1..committed[m]
  /\ IsSealed(m) => committed[m] <= sealed[m] /\ BeforeTargets(sealed[m], m)

\* Nothing is committed in the future.
PastTimes ==
  /\ \A o \in Opportunities : archived[o] <= clock
  /\ \A q \in Policies : registered[q] <= clock

IInv ==
  /\ TypeOK
  /\ PastTimes
  /\ \A p \in Publications : Single(p)
  /\ \A p, q \in Publications : p # q => Pair(p, q)
  /\ \A m \in Manifests : Table(m)
  /\ ForecastUsedOnce
-----------------------------------------------------------------------------
(* General facts.                                                          *)

\* Being in each other's way is symmetric.
LEMMA ClashSymmetric ==
  ASSUME NEW m, NEW s, NEW n, NEW t
  PROVE  Clash(m, s, n, t) <=> Clash(n, t, m, s)
BY DEF Clash

\* The initial state satisfies the invariant.
LEMMA InitInv == Init => IInv
<1> SUFFICES ASSUME Init PROVE IInv  OBVIOUS
<1>1. TypeOK
  BY ManifestAssumption DEF Init, TypeOK, Times, NoTime, NoTxn, NoReply, TxnRecords, Kinds, Steps, Open
<1>2. PastTimes
  BY DEF Init, PastTimes, NoTime
<1>3. \A p \in Publications : Single(p)
  BY DEF Init, Single, Shape, Evidence, Compatible, AnswerRight, NoTxn, NoReply, Open, SealSteps
<1>4. \A p, q \in Publications : p # q => Pair(p, q)
  BY DEF Init, Pair, NoTxn
<1>5. \A m \in Manifests : Table(m)
  BY DEF Init, Table, IsCommitted, IsSealed, NoTime
<1>6. ForecastUsedOnce
  BY DEF Init, ForecastUsedOnce
<1> QED  BY <1>1, <1>2, <1>3, <1>4, <1>5, <1>6 DEF IInv

\* Only publication p is affected by the step.
OnlyBy(p) ==
  /\ UNCHANGED <<clock, tables, manifest>> /\ faults' \in 0..MaxFaults
  /\ txn' = [txn EXCEPT ![p] = txn'[p]]
  /\ pc' = [pc EXCEPT ![p] = pc'[p]]
  /\ reply' = [reply EXCEPT ![p] = reply'[p]]

Answers == [kind: Kinds, recorded: Times, sealed: Times]

\* The part of the state that belongs to p has its type.
Typed(p) == txn[p] \in TxnRecords /\ pc[p] \in Steps /\ reply[p] \in Answers

\* The types the steps of p rely on.
LEMMA Typing ==
  ASSUME IInv, NEW p \in Publications
  PROVE  /\ txn \in [Publications -> TxnRecords] /\ pc \in [Publications -> Steps]
         /\ reply \in [Publications -> Answers] /\ manifest[p] \in Manifests
         /\ clock \in Times \ {NoTime} /\ faults \in 0..MaxFaults
         /\ Typed(p) /\ Single(p) /\ Table(manifest[p])
BY DEF IInv, TypeOK, Typed, Answers

\* A time that has been set lies between 1 and the clock.
LEMMA EarlierTimes ==
  ASSUME IInv
  PROVE  /\ \A o \in Opportunities : archived[o] # NoTime => archived[o] \in 1..clock
         /\ \A q \in Policies : registered[q] # NoTime => registered[q] \in 1..clock
BY ManifestAssumption DEF IInv, PastTimes, TypeOK, Times, NoTime

\* The others keep their part of the invariant when p takes a step of its own.
LEMMA Frame ==
  ASSUME IInv, NEW p \in Publications, OnlyBy(p), Typed(p)',
         Single(p)', \A q \in Others(p) : Pair(p, q)'
  PROVE  IInv'
<1>0. \A q \in Others(p) : txn'[q] = txn[q] /\ pc'[q] = pc[q] /\ reply'[q] = reply[q]
  BY DEF OnlyBy, IInv, TypeOK, Others
<1>1. TypeOK'
  BY DEF OnlyBy, tables, IInv, TypeOK, Typed, Answers
<1>2. ASSUME NEW q \in Publications  PROVE Single(q)'
  <2>1. CASE q = p
    BY <2>1
  <2>2. CASE q # p
    BY <1>0, <2>2 DEF IInv, OnlyBy, tables, Others, Single, Shape, Evidence, Compatible, AnswerRight,
                Remaining, Taken, Recordable, Sealable, IsCommitted, IsSealed
  <2> QED  BY <2>1, <2>2
<1>3. ASSUME NEW q \in Publications, NEW r \in Publications, q # r  PROVE Pair(q, r)'
  <2>1. CASE q = p
    BY <2>1, <1>3 DEF Others
  <2>2. CASE r = p
    <3>1. Pair(p, q)'
      BY <2>2, <1>3 DEF Others
    <3> QED  BY <3>1, <2>2 DEF Pair, Clash
  <2>3. CASE q # p /\ r # p
    BY <1>0, <2>3, <1>3 DEF IInv, OnlyBy, Others, Pair
  <2> QED  BY <2>1, <2>2, <2>3
<1>4. \A m \in Manifests : Table(m)'
  BY DEF IInv, OnlyBy, tables, Table, IsCommitted, IsSealed
<1>5. ForecastUsedOnce'
  BY DEF IInv, OnlyBy, tables, ForecastUsedOnce
<1>6. PastTimes'
  BY DEF IInv, OnlyBy, tables, PastTimes
<1> QED  BY <1>1, <1>2, <1>3, <1>4, <1>5, <1>6 DEF IInv

\* A step of p that inserts no row.
LEMMA NoInsert ==
  ASSUME IInv, NEW p \in Publications, OnlyBy(p), Typed(p)',
         txn'[p].rows = txn[p].rows, txn'[p].slots = txn[p].slots,
         Shape(p)', Evidence(p)', AnswerRight(p)'
  PROVE  IInv'
<1>1. Compatible(p)'
  BY DEF IInv, Single, Compatible, OnlyBy, tables
<1>2. \A q \in Others(p) : Pair(p, q)'
  <2> TAKE q \in Others(p)
  <2>1. Pair(p, q)
    BY DEF IInv, Others
  <2>2. txn'[q] = txn[q]
    BY DEF OnlyBy, IInv, TypeOK, Others
  <2> QED  BY <2>1, <2>2 DEF Pair, OnlyBy
<1> QED  BY <1>1, <1>2, Frame DEF Single

\* Answers that promise nothing about the tables.
Plain == Kinds \ {"ok", "taken", "incomplete"}

\* A refusal dooms the transaction and promises nothing, or says what has taken
\* a member.
LEMMA RefusePreserves ==
  ASSUME IInv, NEW p \in Publications, NEW kind \in Plain \cup {"taken"}, Refuse(p, kind),
         kind = "taken" => Taken(manifest[p]),
         UNCHANGED <<clock, tables, manifest>>, faults' \in 0..MaxFaults
  PROVE  IInv'
<1>0. Typed(p) /\ Single(p)
  BY Typing
<1>1. /\ OnlyBy(p) /\ pc'[p] = "done" /\ reply'[p] = [NoReply EXCEPT !.kind = kind]
      /\ \/ txn[p].state = "open" /\ txn'[p] = [txn[p] EXCEPT !.state = "doomed"]
         \/ txn[p].state # "open" /\ txn'[p] = txn[p]
  BY Typing DEF OnlyBy, Refuse, Answer, Reply, Goto, Doomed
<1>2. Typed(p)' /\ txn'[p].rows = txn[p].rows /\ txn'[p].slots = txn[p].slots
  BY <1>0, <1>1, ManifestAssumption
     DEF Typed, TxnRecords, Steps, Answers, NoReply, Plain, Times, NoTime, Kinds
<1>3. Shape(p)'
  BY <1>0, <1>1 DEF Typed, TxnRecords, OnlyBy, Single, Shape, Open
<1>4. Evidence(p)'
  BY <1>0, <1>1 DEF Typed, TxnRecords, OnlyBy, tables, Single, Evidence,
                    Recordable, Sealable, IsCommitted, IsSealed, SealSteps
<1>5. AnswerRight(p)'
  BY <1>1 DEF AnswerRight, NoReply, Plain, Taken, OnlyBy, tables
<1> QED  BY <1>1, <1>2, <1>3, <1>4, <1>5, NoInsert

\* The answer of a publication without an open transaction.
LEMMA AnswerPreserves ==
  ASSUME IInv, NEW p \in Publications, NEW kind \in Plain, Answer(p, kind),
         UNCHANGED <<clock, tables, manifest, txn>>, faults' \in 0..MaxFaults,
         txn[p].state # "open"
  PROVE  IInv'
<1>1. Refuse(p, kind)
  BY DEF Refuse, Doomed
<1> QED  BY <1>1, RefusePreserves DEF Plain

\* A step of p that leaves its answer open: what is left to check.
LEMMA StepPreserves ==
  ASSUME IInv, NEW p \in Publications, OnlyBy(p), UNCHANGED reply,
         pc'[p] \in Steps, txn'[p] \in TxnRecords,
         txn'[p].rows = txn[p].rows, txn'[p].slots = txn[p].slots,
         Shape(p)', Evidence(p)'
  PROVE  IInv'
<1>1. Typed(p)'
  BY Typing DEF Typed
<1>2. AnswerRight(p)'
  BY Typing DEF Single, AnswerRight, Taken, OnlyBy, tables, IsSealed
<1> QED  BY <1>1, <1>2, NoInsert

\* A step that only moves the control state, between transactions.
LEMMA GotoPreserves ==
  ASSUME IInv, NEW p \in Publications, NEW step \in Steps, Goto(p, step),
         UNCHANGED <<clock, tables, manifest, txn, reply, faults>>,
         txn[p].state # "open", step \in {"m_read", "s_read", "proof"},
         step = "m_read" => txn[p].state = "none",
         step \in {"s_read", "proof"} => IsCommitted(manifest[p]),
         step = "proof" => IsSealed(manifest[p])
  PROVE  IInv'
<1>0. Typed(p) /\ Single(p)
  BY Typing
<1>1. OnlyBy(p) /\ pc'[p] = step /\ txn'[p] = txn[p]
  BY Typing DEF OnlyBy, Goto
<1>2. Shape(p)'
  BY <1>0, <1>1 DEF OnlyBy, Single, Shape, Open
<1>3. Evidence(p)'
  BY <1>0, <1>1 DEF OnlyBy, tables, Single, Evidence,
                    Recordable, Sealable, IsCommitted, IsSealed, SealSteps
<1> QED  BY <1>0, <1>1, <1>2, <1>3, StepPreserves DEF Typed

-----------------------------------------------------------------------------
(* Steps of a publication that insert no row.                              *)

\* A call arrives.
LEMMA PublishPreserves ==
  ASSUME IInv, NEW p \in Publications, Publish(p)
  PROVE  IInv'
<1>1. txn[p].state = "none"
  BY Typing DEF Publish, Single, Shape
<1> QED  BY <1>1, GotoPreserves DEF Publish, Steps, Open, tables

\* Either the cohort is there, or a transaction begins.
LEMMA ReadManifestPreserves ==
  ASSUME IInv, NEW p \in Publications, ReadManifest(p)
  PROVE  IInv'
<1>0. Typed(p) /\ Single(p) /\ pc[p] = "m_read" /\ txn[p].state = "none"
  BY Typing DEF ReadManifest, Single, Shape
<1>1. CASE IsCommitted(manifest[p])
  BY <1>0, <1>1, GotoPreserves DEF ReadManifest, Steps, Open, tables
<1>2. CASE ~ IsCommitted(manifest[p])
  <2>1. /\ OnlyBy(p) /\ pc'[p] = "m_stamp" /\ UNCHANGED reply
        /\ txn'[p] = [txn[p] EXCEPT !.state = "open"]
    BY <1>2, Typing DEF OnlyBy, ReadManifest, Goto
  <2>2. txn[p] = NoTxn
    BY <1>0 DEF Single, Shape
  <2>3. Shape(p)'
    BY <2>1, <2>2 DEF Shape, NoTxn, Open
  <2>4. Evidence(p)'
    BY <2>1, <2>2 DEF Evidence, NoTxn, SealSteps
  <2> QED  BY <1>0, <2>1, <2>2, <2>3, <2>4, StepPreserves DEF Typed, TxnRecords, Steps, Open, NoTxn
<1> QED  BY <1>1, <1>2

\* The recording time is the clock.
LEMMA StampManifestPreserves ==
  ASSUME IInv, NEW p \in Publications, StampManifest(p)
  PROVE  IInv'
<1>0. /\ Typed(p) /\ Single(p) /\ pc[p] = "m_stamp" /\ clock \in Times \ {NoTime}
      /\ txn[p].state = "open" /\ txn[p].rows = {} /\ txn[p].slots = {}
  BY Typing DEF StampManifest, Single, Shape, Open
<1>1. /\ OnlyBy(p) /\ pc'[p] = "m_validate" /\ UNCHANGED reply
      /\ txn'[p] = [txn[p] EXCEPT !.recorded = clock]
  BY Typing DEF OnlyBy, StampManifest, Goto
<1>2. Shape(p)'
  BY <1>0, <1>1 DEF Typed, TxnRecords, Shape, Open
<1>3. Evidence(p)'
  BY <1>0, <1>1, ManifestAssumption
     DEF Typed, TxnRecords, Evidence, SealSteps, OnlyBy, tables, Times, NoTime
<1> QED  BY <1>0, <1>1, <1>2, <1>3, StepPreserves DEF Typed, TxnRecords, Steps, Open

\* A manifest that passes the validation may be recorded.
LEMMA ValidateManifestPreserves ==
  ASSUME IInv, NEW p \in Publications, ValidateManifest(p)
  PROVE  IInv'
<1>0. /\ Typed(p) /\ Single(p) /\ pc[p] = "m_validate" /\ clock \in Times \ {NoTime}
      /\ txn[p].state = "open" /\ txn[p].rows = {} /\ txn[p].slots = {}
      /\ txn[p].recorded \in 1..clock
  BY Typing DEF ValidateManifest, Single, Shape, Evidence, Open
<1> DEFINE Passes == /\ registered[manifest[p].policy] # NoTime /\ RunsArchived(manifest[p])
                     /\ Goto(p, "m_insert") /\ UNCHANGED <<txn, reply>>
<1>1. Passes \/ \E kind \in {"source_unavailable", "integrity", "deadline"} : Refuse(p, kind)
  BY DEF ValidateManifest
<1>2. UNCHANGED <<clock, tables, manifest, faults>> /\ faults \in 0..MaxFaults
  BY Typing DEF ValidateManifest
<1>3. CASE \E kind \in {"source_unavailable", "integrity", "deadline"} : Refuse(p, kind)
  BY <1>2, <1>3, RefusePreserves DEF Plain, Kinds
<1>4. CASE Passes
  <2>1. OnlyBy(p) /\ pc'[p] = "m_insert" /\ txn'[p] = txn[p] /\ UNCHANGED reply
    BY <1>2, <1>4, Typing DEF OnlyBy, Goto
  <2>2. Shape(p)'
    BY <1>0, <2>1 DEF Shape, Open, Single, OnlyBy
  <2>3. Recordable(manifest[p], txn[p].recorded)
    BY <1>0, <1>4, EarlierTimes, Typing, ManifestAssumption DEF Recordable, RunsArchived
  <2>4. Evidence(p)'
    BY <1>0, <2>1, <2>3 DEF Evidence, Recordable, SealSteps, OnlyBy, tables
  <2> QED  BY <1>0, <2>1, <2>2, <2>4, StepPreserves DEF Typed, Steps, Open
<1> QED  BY <1>1, <1>3, <1>4

\* The transaction that creates a manifest never seals it.
LEMMA SealAtOncePreserves ==
  ASSUME IInv, NEW p \in Publications, SealAtOnce(p)
  PROVE  IInv'
<1>1. "manifest" \in txn[p].rows
  BY Typing DEF SealAtOnce, Single, Shape
<1>2. Refuse(p, "integrity") /\ UNCHANGED <<clock, tables, manifest>> /\ faults' \in 0..MaxFaults
  BY <1>1, Typing DEF SealAtOnce, SealRefused
<1> QED  BY <1>2, RefusePreserves DEF Plain, Kinds

\* Everything a COMMIT is sent for has been inserted.
LEMMA SendCommitPreserves ==
  ASSUME IInv, NEW p \in Publications, SendCommit(p)
  PROVE  IInv'
<1>0. /\ Typed(p) /\ Single(p) /\ pc[p] \in {"m_commit", "s_commit"} /\ txn[p].state = "open"
      /\ pc[p] = "m_commit" => txn[p].rows = {"manifest"} /\ txn[p].slots = manifest[p].slots
      /\ pc[p] = "s_commit" => txn[p].rows = {"seal"}
  BY Typing DEF SendCommit, Single, Shape, Open
<1>1. /\ OnlyBy(p) /\ UNCHANGED reply
      /\ pc'[p] = IF pc[p] = "m_commit" THEN "m_wait" ELSE "s_wait"
      /\ txn'[p] = [txn[p] EXCEPT !.state = "committing"]
  BY Typing DEF OnlyBy, SendCommit, Goto
<1>2. Shape(p)'
  BY <1>0, <1>1 DEF Typed, TxnRecords, Shape, Open, OnlyBy, Single
<1>3. Evidence(p)'
  BY <1>0, <1>1 DEF Typed, TxnRecords, Single, Evidence, SealSteps, OnlyBy, tables,
                    Recordable, Sealable, IsCommitted, IsSealed
<1> QED  BY <1>0, <1>1, <1>2, <1>3, StepPreserves DEF Typed, TxnRecords, Steps

\* Only a committed manifest leads on to the seal.
LEMMA TryRecordPreserves ==
  ASSUME IInv, NEW p \in Publications, TryRecord(p)
  PROVE  IInv'
<1>0. txn[p].state # "open" /\ faults \in 0..MaxFaults
  BY Typing DEF TryRecord, Single, Shape, Open
<1>1. CASE IsCommitted(manifest[p])
  BY <1>0, <1>1, GotoPreserves DEF TryRecord, Steps, Open, tables
<1>2. CASE ~ IsCommitted(manifest[p])
  <2>1. \E kind \in {"write_conflict", "commit_unknown"} : Answer(p, kind)
    BY <1>2 DEF TryRecord
  <2> QED  BY <1>0, <2>1, AnswerPreserves DEF TryRecord, Plain, Kinds
<1> QED  BY <1>1, <1>2

\* The manifest a seal is for has been committed.
LEMMA ReadSealPreserves ==
  ASSUME IInv, NEW p \in Publications, ReadSeal(p)
  PROVE  IInv'
<1>0. Typed(p) /\ Single(p) /\ pc[p] = "s_read" /\ txn[p] = NoTxn /\ IsCommitted(manifest[p])
  BY Typing DEF ReadSeal, Single, Shape, Evidence, SealSteps
<1>1. CASE IsSealed(manifest[p])
  BY <1>0, <1>1, GotoPreserves DEF ReadSeal, Steps, Open, NoTxn, tables
<1>2. CASE ~ IsSealed(manifest[p])
  <2>1. /\ OnlyBy(p) /\ pc'[p] = "s_stamp" /\ UNCHANGED reply
        /\ txn'[p] = [txn[p] EXCEPT !.state = "open"]
    BY <1>2, Typing DEF OnlyBy, ReadSeal, Goto
  <2>2. Shape(p)'
    BY <1>0, <2>1 DEF Shape, NoTxn, Open
  <2>3. Evidence(p)'
    BY <1>0, <2>1 DEF Evidence, NoTxn, SealSteps, OnlyBy, tables, IsCommitted
  <2> QED  BY <1>0, <2>1, <2>2, <2>3, StepPreserves DEF Typed, TxnRecords, Steps, Open, NoTxn
<1> QED  BY <1>1, <1>2

\* A stamped seal is later than the manifest and precedes the targets.
LEMMA StampSealPreserves ==
  ASSUME IInv, NEW p \in Publications, StampSeal(p)
  PROVE  IInv'
<1>0. /\ Typed(p) /\ Single(p) /\ pc[p] = "s_stamp" /\ IsCommitted(manifest[p])
      /\ txn[p].state = "open" /\ txn[p].rows = {} /\ txn[p].slots = {}
      /\ clock \in Times \ {NoTime} /\ committed[manifest[p]] <= clock
      /\ faults \in 0..MaxFaults
  BY Typing DEF StampSeal, Single, Shape, Evidence, SealSteps, Open, Table
<1>1. CASE SealRefused(p)
  BY <1>0, <1>1, RefusePreserves DEF StampSeal, Plain, Kinds
<1>2. CASE ~ SealRefused(p)
  <2>1. /\ OnlyBy(p) /\ pc'[p] = "s_insert" /\ UNCHANGED reply
        /\ txn'[p] = [txn[p] EXCEPT !.sealed = clock]
    BY <1>2, Typing DEF OnlyBy, StampSeal, Goto
  <2>2. Shape(p)'
    BY <1>0, <2>1 DEF Typed, TxnRecords, Shape, Open
  <2>3. Sealable(manifest[p], clock)
    BY <1>0, <1>2, ManifestAssumption DEF Sealable, SealRefused, Times, NoTime
  <2>4. Evidence(p)'
    BY <1>0, <2>1, <2>3
       DEF Typed, TxnRecords, Evidence, SealSteps, OnlyBy, tables, Sealable, IsCommitted, BeforeTargets
  <2> QED  BY <1>0, <2>1, <2>2, <2>4, StepPreserves DEF Typed, TxnRecords, Steps, Open
<1> QED  BY <1>1, <1>2

\* Only a committed seal leads on to the proof.
LEMMA TrySealPreserves ==
  ASSUME IInv, NEW p \in Publications, TrySeal(p)
  PROVE  IInv'
<1>0. txn[p].state # "open" /\ IsCommitted(manifest[p]) /\ faults \in 0..MaxFaults
  BY Typing DEF TrySeal, Single, Shape, Evidence, SealSteps, Open
<1>1. CASE IsSealed(manifest[p])
  BY <1>0, <1>1, GotoPreserves DEF TrySeal, Steps, tables
<1>2. CASE ~ IsSealed(manifest[p])
  <2>1. \E kind \in {"write_conflict", "commit_unknown"} : Answer(p, kind)
    BY <1>2 DEF TrySeal
  <2> QED  BY <1>0, <2>1, AnswerPreserves DEF TrySeal, Plain, Kinds
<1> QED  BY <1>1, <1>2

\* The proof is read from the tables, and nothing is missing there.
LEMMA ReadProofPreserves ==
  ASSUME IInv, NEW p \in Publications, ReadProof(p)
  PROVE  IInv'
<1>0. /\ Typed(p) /\ Single(p) /\ pc[p] = "proof" /\ txn[p].state # "open"
      /\ IsCommitted(manifest[p]) /\ IsSealed(manifest[p])
      /\ members[manifest[p]] = manifest[p].slots
  BY Typing DEF ReadProof, Single, Shape, Evidence, SealSteps, Open, Table
<1>1. /\ OnlyBy(p) /\ pc'[p] = "done" /\ txn'[p] = txn[p]
      /\ reply'[p] = [kind |-> "ok", recorded |-> recorded[manifest[p]],
                      sealed |-> sealed[manifest[p]]]
  BY <1>0, Typing DEF OnlyBy, ReadProof, Reply, Goto
<1>2. Typed(p)'
  <2>1. recorded[manifest[p]] \in Times /\ sealed[manifest[p]] \in Times
    BY Typing DEF IInv, TypeOK
  <2> QED  BY <1>0, <1>1, <2>1 DEF Typed, Answers, Kinds, Steps
<1>3. Shape(p)'
  BY <1>0, <1>1 DEF Shape, Open, OnlyBy, Single
<1>4. Evidence(p)'
  BY <1>0, <1>1 DEF Single, Evidence, SealSteps, OnlyBy, tables,
                    Recordable, Sealable, IsCommitted, IsSealed
<1>5. AnswerRight(p)'
  BY <1>0, <1>1 DEF AnswerRight, OnlyBy, tables, IsSealed
<1> QED  BY <1>1, <1>2, <1>3, <1>4, <1>5, NoInsert

-----------------------------------------------------------------------------
(* Faults.                                                                 *)

\* An error dooms an open transaction.
LEMMA DatabaseErrorPreserves ==
  ASSUME IInv, NEW p \in Publications, DatabaseError(p)
  PROVE  IInv'
BY Typing, RefusePreserves, ManifestAssumption DEF DatabaseError, Fault, Plain, Kinds

\* A dead client dooms its open transaction.
LEMMA CrashPreserves ==
  ASSUME IInv, NEW p \in Publications, Crash(p)
  PROVE  IInv'
BY Typing, RefusePreserves, ManifestAssumption DEF Crash, Fault, Plain, Kinds

\* A lookup that fails is answered.
LEMMA LookupFailsPreserves ==
  ASSUME IInv, NEW p \in Publications, LookupFails(p)
  PROVE  IInv'
<1>1. txn[p].state # "open" /\ faults' \in 0..MaxFaults
  BY Typing, ManifestAssumption DEF LookupFails, Fault, Single, Shape, Open
<1>2. \E kind \in {"write_conflict", "commit_unknown"} : Answer(p, kind)
  BY DEF LookupFails
<1> QED  BY <1>1, <1>2, AnswerPreserves DEF LookupFails, Plain, Kinds

\* An unknown outcome leads to a lookup, which keeps what the stage knows.
LEMMA OutcomeUnknownPreserves ==
  ASSUME IInv, NEW p \in Publications, OutcomeUnknown(p)
  PROVE  IInv'
<1>0. Typed(p) /\ Single(p)
  BY Typing
<1>1. /\ OnlyBy(p) /\ UNCHANGED reply /\ pc[p] \in Open \cup {"m_wait", "s_wait"}
      /\ pc'[p] \in {"m_reconcile", "s_reconcile"}
      /\ pc'[p] = "s_reconcile" => pc[p] \in SealSteps
      /\ \/ txn[p].state = "open" /\ txn'[p] = [txn[p] EXCEPT !.state = "doomed"]
         \/ txn[p].state # "open" /\ txn'[p] = txn[p]
  <2> DEFINE next == IF pc[p] \in {"s_read", "s_stamp", "s_insert", "s_commit", "s_wait"}
                     THEN "s_reconcile" ELSE "m_reconcile"
  <2>1. pc' = [pc EXCEPT ![p] = next] /\ next \in {"m_reconcile", "s_reconcile"}
    BY Zenon DEF OutcomeUnknown, Goto
  <2>2. next = "s_reconcile" => pc[p] \in SealSteps
    BY DEF SealSteps
  <2> HIDE DEF next
  <2>3. pc'[p] = next
    BY <2>1, Typing
  <2>4. txn' = [txn EXCEPT ![p] = txn'[p]]
    BY Typing DEF OutcomeUnknown, Doomed
  <2>5. reply' = [reply EXCEPT ![p] = reply'[p]] /\ faults' \in 0..MaxFaults
    BY Typing, ManifestAssumption DEF OutcomeUnknown, Fault
  <2>6. OnlyBy(p)
    BY <2>1, <2>3, <2>4, <2>5 DEF OnlyBy, OutcomeUnknown
  <2>7. \/ txn[p].state = "open" /\ txn'[p] = [txn[p] EXCEPT !.state = "doomed"]
        \/ txn[p].state # "open" /\ txn'[p] = txn[p]
    BY Typing DEF OutcomeUnknown, Doomed
  <2> QED  BY <2>1, <2>2, <2>3, <2>6, <2>7 DEF OutcomeUnknown
<1>2. Shape(p)'
  BY <1>0, <1>1 DEF Typed, TxnRecords, Shape, Open, OnlyBy, Single
<1>3. Evidence(p)'
  BY <1>0, <1>1 DEF Typed, TxnRecords, Single, Evidence, SealSteps, OnlyBy, tables,
                    Recordable, Sealable, IsCommitted, IsSealed
<1> QED  BY <1>0, <1>1, <1>2, <1>3, StepPreserves DEF Typed, TxnRecords, Steps

\* An aborted transaction leaves nothing behind.
LEMMA ServerAbortPreserves ==
  ASSUME IInv, NEW p \in Publications, ServerAbort(p)
  PROVE  IInv'
<1>0. Typed(p) /\ Single(p) /\ txn[p].state \in {"doomed", "committing"}
  BY Typing DEF ServerAbort
<1>1. /\ OnlyBy(p) /\ txn'[p] = NoTxn
      /\ \/ pc'[p] = pc[p] /\ reply'[p] = reply[p] /\ pc[p] \notin {"m_wait", "s_wait"}
         \/ pc'[p] = "done" /\ reply'[p] = [NoReply EXCEPT !.kind = "unavailable"]
  <2>1. /\ txn' = [txn EXCEPT ![p] = NoTxn] /\ UNCHANGED <<clock, tables, manifest>>
        /\ faults' \in 0..MaxFaults
        /\ \/ UNCHANGED <<pc, reply>> /\ pc[p] \notin {"m_wait", "s_wait"}
           \/ Answer(p, "unavailable")
    BY <1>0, Typing, ManifestAssumption DEF ServerAbort, Fault, Single, Shape
  <2>2. txn'[p] = NoTxn /\ txn' = [txn EXCEPT ![p] = txn'[p]]
    BY <2>1, Typing
  <2>3. CASE UNCHANGED <<pc, reply>> /\ pc[p] \notin {"m_wait", "s_wait"}
    BY <2>1, <2>2, <2>3, Typing DEF OnlyBy
  <2>4. CASE Answer(p, "unavailable")
    BY <2>1, <2>2, <2>4, Typing DEF OnlyBy, Answer, Reply, Goto
  <2> QED  BY <2>1, <2>3, <2>4
<1>2. Typed(p)'
  BY <1>0, <1>1, ManifestAssumption
     DEF Typed, TxnRecords, NoTxn, NoReply, Answers, Kinds, Steps, Times, NoTime
<1>3. Shape(p)'
  BY <1>0, <1>1 DEF Shape, NoTxn, Open, Single
<1>4. Evidence(p)'
  BY <1>0, <1>1 DEF Single, Shape, Evidence, NoTxn, SealSteps, Open, OnlyBy, tables, IsCommitted, IsSealed
<1>5. AnswerRight(p)'
  BY <1>0, <1>1 DEF Single, AnswerRight, NoReply, Taken, OnlyBy, tables, IsSealed
<1>6. Compatible(p)' /\ \A q \in Others(p) : Pair(p, q)'
  BY <1>1 DEF Compatible, Pair, NoTxn
<1> QED  BY <1>1, <1>2, <1>3, <1>4, <1>5, <1>6, Frame DEF Single

-----------------------------------------------------------------------------
(* Steps that insert a row.                                                *)

\* Rows of an unfinished transaction of another publication are held.
LEMMA HeldRows ==
  ASSUME IInv, NEW p \in Publications, NEW q \in Others(p), NEW row,
         HeldRow(p, row) = {}, manifest[q] = manifest[p]
  PROVE  row \notin txn[q].rows
BY Typing DEF Others, HeldRow, Holds, Single, Shape, NoTxn

\* A manifest is inserted when nobody else has, or is about to have, its row.
LEMMA InsertManifestPreserves ==
  ASSUME IInv, NEW p \in Publications, InsertManifest(p)
  PROVE  IInv'
<1>0. /\ Typed(p) /\ Single(p) /\ pc[p] = "m_insert" /\ txn[p].state = "open"
      /\ txn[p].rows = {} /\ txn[p].slots = {} /\ Recordable(manifest[p], txn[p].recorded)
  BY Typing DEF InsertManifest, Single, Shape, Evidence, Open
<1>1. CASE IsCommitted(manifest[p])
  <2>1. /\ OnlyBy(p) /\ pc'[p] = "m_lookup" /\ UNCHANGED reply
        /\ txn'[p] = [txn[p] EXCEPT !.state = "doomed"]
    BY <1>0, <1>1, Typing DEF OnlyBy, InsertManifest, Goto, Doomed
  <2>2. Shape(p)'
    BY <1>0, <2>1 DEF Typed, TxnRecords, Shape, Open
  <2>3. Evidence(p)'
    BY <1>0, <2>1 DEF Typed, TxnRecords, Evidence, SealSteps
  <2> QED  BY <1>0, <2>1, <2>2, <2>3, StepPreserves DEF Typed, TxnRecords, Steps
<1>2. CASE ~ IsCommitted(manifest[p])
  <2>1. /\ OnlyBy(p) /\ pc'[p] = "m_members" /\ UNCHANGED reply
        /\ txn'[p] = [txn[p] EXCEPT !.rows = {"manifest"}]
    BY <1>0, <1>2, Typing DEF OnlyBy, InsertManifest, Goto
  <2>2. Typed(p)' /\ txn'[p].rows = {"manifest"} /\ txn'[p].slots = {}
        /\ txn'[p].recorded = txn[p].recorded /\ txn'[p].state = "open"
    BY <1>0, <2>1, Typing DEF Typed, TxnRecords, Steps, Open
  <2>3. Shape(p)'
    BY <2>1, <2>2, Typing, ManifestAssumption DEF Shape, Open, Remaining, OnlyBy
  <2>4. Evidence(p)'
    BY <1>0, <1>2, <2>1, <2>2 DEF Evidence, SealSteps, OnlyBy, tables, Recordable, IsCommitted
  <2>5. AnswerRight(p)'
    BY <1>0, <2>1 DEF Single, AnswerRight, Taken, OnlyBy, tables, IsSealed
  <2>6. Compatible(p)'
    BY <2>2 DEF Compatible
  <2>7. \A q \in Others(p) : Pair(p, q)'
    <3> TAKE q \in Others(p)
    <3>1. txn'[q] = txn[q] /\ manifest' = manifest
      BY <2>1, Typing DEF OnlyBy, Others
    <3>2. manifest[p] = manifest[q] => "manifest" \notin txn[q].rows
      BY HeldRows DEF InsertManifest
    <3> QED  BY <2>2, <3>1, <3>2 DEF Pair
  <2> QED  BY <2>1, <2>2, <2>3, <2>4, <2>5, <2>6, <2>7, Frame DEF Single
<1> QED  BY <1>1, <1>2

\* A seal is inserted when nobody else has, or is about to have, its row.
LEMMA InsertSealPreserves ==
  ASSUME IInv, NEW p \in Publications, InsertSeal(p)
  PROVE  IInv'
<1>0. /\ Typed(p) /\ Single(p) /\ pc[p] = "s_insert" /\ txn[p].state = "open"
      /\ txn[p].rows = {} /\ txn[p].slots = {} /\ Sealable(manifest[p], txn[p].sealed)
  BY Typing DEF InsertSeal, Single, Shape, Evidence, Open
<1>1. CASE IsSealed(manifest[p])
  <2>1. /\ OnlyBy(p) /\ pc'[p] = "s_lookup" /\ UNCHANGED reply
        /\ txn'[p] = [txn[p] EXCEPT !.state = "doomed"]
    BY <1>0, <1>1, Typing DEF OnlyBy, InsertSeal, Goto, Doomed
  <2>2. Shape(p)'
    BY <1>0, <2>1 DEF Typed, TxnRecords, Shape, Open
  <2>3. Evidence(p)'
    BY <1>0, <2>1 DEF Typed, TxnRecords, Evidence, SealSteps, Sealable, OnlyBy, tables, IsCommitted
  <2> QED  BY <1>0, <2>1, <2>2, <2>3, StepPreserves DEF Typed, TxnRecords, Steps
<1>2. CASE ~ IsSealed(manifest[p])
  <2>1. /\ OnlyBy(p) /\ pc'[p] = "s_commit" /\ UNCHANGED reply
        /\ txn'[p] = [txn[p] EXCEPT !.rows = {"seal"}]
    BY <1>0, <1>2, Typing DEF OnlyBy, InsertSeal, Goto
  <2>2. Typed(p)' /\ txn'[p].rows = {"seal"} /\ txn'[p].slots = {}
        /\ txn'[p].sealed = txn[p].sealed /\ txn'[p].state = "open"
    BY <1>0, <2>1, Typing DEF Typed, TxnRecords, Steps, Open
  <2>3. Shape(p)'
    BY <2>1, <2>2 DEF Shape, Open
  <2>4. Evidence(p)'
    BY <1>0, <1>2, <2>1, <2>2
       DEF Evidence, SealSteps, OnlyBy, tables, Sealable, IsCommitted, IsSealed
  <2>5. AnswerRight(p)'
    BY <1>0, <2>1 DEF Single, AnswerRight, Taken, OnlyBy, tables, IsSealed
  <2>6. Compatible(p)'
    BY <2>2 DEF Compatible
  <2>7. \A q \in Others(p) : Pair(p, q)'
    <3> TAKE q \in Others(p)
    <3>1. txn'[q] = txn[q] /\ manifest' = manifest
      BY <2>1, Typing DEF OnlyBy, Others
    <3>2. manifest[p] = manifest[q] => "seal" \notin txn[q].rows
      BY HeldRows DEF InsertSeal
    <3> QED  BY <2>2, <3>1, <3>2 DEF Pair
  <2> QED  BY <2>1, <2>2, <2>3, <2>4, <2>5, <2>6, <2>7, Frame DEF Single
<1> QED  BY <1>1, <1>2

\* A member is inserted only when neither a committed member nor one of an
\* unfinished transaction clashes with it.
LEMMA InsertMemberPreserves ==
  ASSUME IInv, NEW p \in Publications, InsertMember(p)
  PROVE  IInv'
<1>0. /\ Typed(p) /\ Single(p) /\ pc[p] = "m_members" /\ txn[p].state = "open"
      /\ txn[p].rows = {"manifest"} /\ manifest[p] \in Manifests
      /\ ~ IsCommitted(manifest[p]) /\ faults \in 0..MaxFaults
  BY Typing DEF InsertMember, Single, Shape, Evidence, Open
<1>1. PICK s \in NextSlot(p) :
        /\ HeldSlot(p, s) = {}
        /\ IF \E n \in Manifests : \E t \in members[n] : Clash(manifest[p], s, n, t)
           THEN Refuse(p, "taken")
           ELSE /\ txn' = [txn EXCEPT ![p].slots = @ \cup {s}]
                /\ Goto(p, IF Remaining(p) = {s} THEN "m_commit" ELSE "m_members")
                /\ UNCHANGED reply
  BY DEF InsertMember
<1>2. s \in manifest[p].slots /\ s \in Remaining(p) /\ s \in Slots
  BY <1>0 DEF NextSlot, Remaining, Slots
<1>3. UNCHANGED <<clock, tables, manifest, faults>>
  BY DEF InsertMember
<1>4. CASE \E n \in Manifests : \E t \in members[n] : Clash(manifest[p], s, n, t)
  <2>1. members[manifest[p]] = {}
    BY <1>0, Typing DEF Table
  <2>2. Taken(manifest[p])
    BY <1>2, <1>4, <2>1 DEF Taken
  <2> QED  BY <1>0, <1>1, <1>3, <1>4, <2>2, RefusePreserves DEF Plain
<1>5. CASE ~ \E n \in Manifests : \E t \in members[n] : Clash(manifest[p], s, n, t)
  <2> DEFINE next == IF Remaining(p) = {s} THEN "m_commit" ELSE "m_members"
  <2>1. /\ OnlyBy(p) /\ pc'[p] = next /\ UNCHANGED reply
        /\ txn'[p] = [txn[p] EXCEPT !.slots = txn[p].slots \cup {s}]
    BY <1>0, <1>1, <1>3, <1>5, Typing DEF OnlyBy, Goto
  <2>2. /\ Typed(p)' /\ txn'[p].rows = {"manifest"} /\ txn'[p].slots = txn[p].slots \cup {s}
        /\ txn'[p].recorded = txn[p].recorded /\ txn'[p].state = "open"
    BY <1>0, <1>2, <2>1, Typing DEF Typed, TxnRecords, Steps, Open
  <2>3. Shape(p)'
    <3>1. txn'[p].slots \subseteq manifest[p].slots /\ manifest' = manifest
      BY <1>0, <1>2, <1>3, <2>2 DEF Single, Shape
    <3>2. CASE Remaining(p) = {s}
      <4>1. txn'[p].slots = manifest[p].slots /\ pc'[p] = "m_commit"
        BY <2>1, <2>2, <3>1, <3>2 DEF Remaining
      <4> QED  BY <2>2, <3>1, <4>1 DEF Shape, Open
    <3>3. CASE Remaining(p) # {s}
      <4>1. Remaining(p)' # {} /\ pc'[p] = "m_members"
        BY <1>2, <2>1, <2>2, <3>1, <3>3 DEF Remaining
      <4> QED  BY <2>2, <3>1, <4>1 DEF Shape, Open
    <3> QED  BY <3>2, <3>3
  <2>4. Evidence(p)'
    BY <1>0, <2>1, <2>2 DEF Single, Evidence, SealSteps, OnlyBy, tables, Recordable, IsCommitted
  <2>5. AnswerRight(p)'
    BY <1>0, <2>1 DEF Single, AnswerRight, Taken, OnlyBy, tables, IsSealed
  <2>6. Compatible(p)'
    BY <1>0, <1>3, <1>5, <2>2 DEF Single, Compatible, tables
  <2>7. \A q \in Others(p) : Pair(p, q)'
    <3> TAKE q \in Others(p)
    <3>1. txn'[q] = txn[q] /\ manifest' = manifest
      BY <1>3, <2>1, Typing DEF OnlyBy, Others
    <3>2. \A t \in txn[q].slots : ~ Clash(manifest[p], s, manifest[q], t)
      <4>1. txn[q].state = "none" => txn[q].slots = {}
        BY Typing DEF Others, Single, Shape, NoTxn
      <4> QED  BY <1>1, <4>1 DEF HeldSlot
    <3>3. Pair(p, q)
      BY DEF IInv, Others
    <3> QED  BY <1>0, <2>2, <3>1, <3>2, <3>3 DEF Pair
  <2> QED  BY <2>1, <2>2, <2>3, <2>4, <2>5, <2>6, <2>7, Frame DEF Single
<1> QED  BY <1>4, <1>5

-----------------------------------------------------------------------------
(* A COMMIT takes effect.                                                  *)

\* What the commit of p does to the tables.
CommitsManifest(p) ==
  /\ "manifest" \in txn[p].rows
  /\ recorded' = [recorded EXCEPT ![manifest[p]] = txn[p].recorded]
  /\ committed' = [committed EXCEPT ![manifest[p]] = clock]
  /\ members' = [members EXCEPT ![manifest[p]] = manifest[p].slots]
  /\ sealed' = sealed

CommitsSeal(p) ==
  /\ "seal" \in txn[p].rows
  /\ sealed' = [sealed EXCEPT ![manifest[p]] = txn[p].sealed]
  /\ UNCHANGED <<recorded, committed, members>>

\* A commit stores a manifest with all its members, or a seal.
LEMMA CommitEffect ==
  ASSUME IInv, NEW p \in Publications, ServerCommit(p)
  PROVE  /\ txn[p].state = "committing" /\ txn[p].slots \subseteq manifest[p].slots
         /\ txn' = [txn EXCEPT ![p] = NoTxn] /\ reply' = reply
         /\ UNCHANGED <<clock, archived, registered, manifest, faults>>
         /\ CommitsManifest(p) \/ CommitsSeal(p)
         /\ \/ pc' = pc /\ pc[p] \notin {"m_wait", "s_wait"}
            \/ pc[p] = "m_wait" /\ pc' = [pc EXCEPT ![p] = "s_read"] /\ CommitsManifest(p)
            \/ pc[p] = "s_wait" /\ pc' = [pc EXCEPT ![p] = "proof"] /\ CommitsSeal(p)
<1>0. Single(p) /\ txn[p].state = "committing" /\ txn \in [Publications -> TxnRecords]
  BY Typing DEF ServerCommit
<1>1. txn[p].rows = {"manifest"} \/ txn[p].rows = {"seal"}
  BY <1>0 DEF Single, Shape
<1>2. CASE txn[p].rows = {"manifest"}
  <2>1. CommitsManifest(p)
    BY <1>0, <1>2 DEF CommitsManifest, ServerCommit, Single, Shape
  <2>2. pc[p] # "s_wait"
    BY <1>0, <1>2 DEF Single, Shape
  <2> QED  BY <1>0, <2>1, <2>2 DEF ServerCommit, Acknowledged, Goto, Single, Shape
<1>3. CASE txn[p].rows = {"seal"}
  <2>1. CommitsSeal(p)
    BY <1>3 DEF CommitsSeal, ServerCommit
  <2>2. pc[p] # "m_wait"
    BY <1>0, <1>3 DEF Single, Shape
  <2> QED  BY <1>0, <2>1, <2>2 DEF ServerCommit, Acknowledged, Goto, Single, Shape
<1> QED  BY <1>1, <1>2, <1>3

\* The commit of a manifest: its members clash with no other, committed or
\* about to be.
LEMMA ManifestCommitPreserves ==
  ASSUME IInv, NEW p \in Publications, ServerCommit(p), CommitsManifest(p)
  PROVE  IInv'
<1> DEFINE m == manifest[p]
<1>0. /\ Typed(p) /\ Single(p) /\ m \in Manifests /\ clock \in Times \ {NoTime}
      /\ txn[p].state = "committing" /\ txn[p].rows = {"manifest"} /\ txn[p].slots = m.slots
      /\ ~ IsCommitted(m) /\ ~ IsSealed(m) /\ members[m] = {} /\ Recordable(m, txn[p].recorded)
  <2>1. /\ Typed(p) /\ Single(p) /\ m \in Manifests /\ clock \in Times \ {NoTime} /\ Table(m)
        /\ txn[p].state = "committing" /\ "manifest" \in txn[p].rows
    BY Typing DEF ServerCommit, CommitsManifest
  <2>2. txn[p].rows = {"manifest"} /\ txn[p].slots = m.slots
    BY <2>1 DEF Single, Shape
  <2>3. ~ IsCommitted(m) /\ Recordable(m, txn[p].recorded)
    BY <2>1 DEF Single, Evidence
  <2>4. ~ IsSealed(m) /\ members[m] = {}
    BY <2>1, <2>3 DEF Table
  <2> QED  BY <2>1, <2>2, <2>3, <2>4
<1>1. /\ UNCHANGED <<clock, archived, registered, manifest, reply, faults, sealed>>
      /\ txn' = [txn EXCEPT ![p] = NoTxn]
      /\ \/ pc' = pc /\ pc[p] \notin {"m_wait", "s_wait"}
         \/ pc[p] = "m_wait" /\ pc' = [pc EXCEPT ![p] = "s_read"]
  BY <1>0, CommitEffect DEF CommitsManifest, CommitsSeal
<1>2. /\ \A n \in Manifests \ {m} : /\ recorded'[n] = recorded[n] /\ committed'[n] = committed[n]
                                    /\ members'[n] = members[n]
      /\ recorded'[m] = txn[p].recorded /\ committed'[m] = clock /\ members'[m] = m.slots
  BY <1>0 DEF CommitsManifest, IInv, TypeOK
<1>3. \A n \in Manifests : IsCommitted(n) => n # m /\ IsCommitted(n)'
  BY <1>0, <1>2 DEF IsCommitted
<1>4. IsCommitted(m)' /\ \A n \in Manifests : IsSealed(n)' <=> IsSealed(n)
  BY <1>0, <1>1, <1>2 DEF IsCommitted, IsSealed
<1>5. \A q \in Others(p) : /\ txn'[q] = txn[q] /\ pc'[q] = pc[q] /\ q \in Publications
                           /\ q # p /\ Pair(p, q) /\ manifest[q] \in Manifests
  BY <1>1, Typing DEF Others, IInv
<1>6. txn'[p] = NoTxn /\ pc'[p] \in Steps \ (Open \ {"s_read"})
      /\ pc'[p] \notin {"start", "m_wait", "s_wait"} /\ (pc'[p] = pc[p] \/ pc'[p] = "s_read")
  <2>1. txn'[p] = NoTxn
    BY <1>1, Typing
  <2>2. pc[p] \in Steps \ (Open \ {"m_read", "s_read"}) /\ pc[p] \notin {"start", "m_read"}
    BY <1>0 DEF Typed, Single, Shape
  <2>3. \/ pc'[p] = pc[p] /\ pc[p] \notin {"m_wait", "s_wait"}
       \/ pc'[p] = "s_read"
    BY <1>1, Typing
  <2> QED  BY <2>1, <2>2, <2>3 DEF Steps, Open
<1>7. TypeOK'
  <2>1. members' \in [Manifests -> SUBSET Slots]
    BY <1>0 DEF CommitsManifest, IInv, TypeOK, Slots
  <2>2. recorded' \in [Manifests -> Times] /\ committed' \in [Manifests -> Times]
    BY <1>0 DEF CommitsManifest, IInv, TypeOK, Typed, TxnRecords
  <2>3. NoTxn \in TxnRecords
    BY ManifestAssumption DEF NoTxn, TxnRecords, Times, NoTime
  <2>4. txn' \in [Publications -> TxnRecords] /\ pc' \in [Publications -> Steps]
    BY <1>1, <2>3, Typing DEF Steps, Open
  <2> QED  BY <1>1, <2>1, <2>2, <2>4 DEF IInv, TypeOK
<1>8. ASSUME NEW q \in Publications  PROVE Shape(q)'
  <2>1. CASE q = p
    BY <1>6, <2>1 DEF Shape, NoTxn, Open
  <2>2. CASE q # p
    BY <1>1, <1>5, <2>2 DEF IInv, Single, Shape, Remaining, Others
  <2> QED  BY <2>1, <2>2
<1>9. ASSUME NEW q \in Publications  PROVE Evidence(q)'
  <2>1. CASE q = p
    <3>1. pc'[q] = "proof" => IsSealed(m)
      BY <1>0, <1>6, <2>1 DEF Single, Evidence
    <3>2. IsCommitted(manifest[q])' /\ (pc'[q] = "proof" => IsSealed(manifest[q])')
      BY <1>1, <1>2, <1>4, <2>1, <3>1, <1>0 DEF IsCommitted, IsSealed
    <3> QED  BY <1>6, <2>1, <3>2 DEF Evidence, NoTxn, Open
  <2>2. CASE q # p
    <3>1. "manifest" \in txn[q].rows => manifest[q] # m
      BY <1>0, <1>5, <2>2 DEF Pair, Others
    <3>2. Evidence(q) /\ manifest[q] \in Manifests /\ q \in Others(p)
      BY <2>2, Typing DEF Single, Others
    <3>3. Recordable(manifest[q], txn[q].recorded) => Recordable(manifest[q], txn[q].recorded)'
      BY <1>1, <1>5, <3>2 DEF Recordable
    <3>4. Sealable(manifest[q], txn[q].sealed) => Sealable(manifest[q], txn[q].sealed)'
      BY <1>1, <1>2, <1>3, <1>5, <3>2 DEF Sealable, BeforeTargets
    <3>5. IsCommitted(manifest[q])' => manifest[q] = m \/ IsCommitted(manifest[q])
      BY <1>1, <1>2, <3>2 DEF IsCommitted
    <3>6. IsSealed(manifest[q])' <=> IsSealed(manifest[q])
      BY <1>1 DEF IsSealed
    <3>7. IsCommitted(manifest[q]) => IsCommitted(manifest[q])'
      BY <1>1, <1>3, <3>2 DEF IsCommitted
    <3> QED  BY <1>1, <1>5, <3>1, <3>2, <3>3, <3>4, <3>5, <3>6, <3>7 DEF Evidence
  <2> QED  BY <2>1, <2>2
<1>10. ASSUME NEW q \in Publications  PROVE Compatible(q)'
  <2>1. CASE q = p
    BY <1>6, <2>1 DEF Compatible, NoTxn
  <2>2. CASE q # p
    <3> SUFFICES ASSUME NEW s \in txn[q].slots, NEW n \in Manifests, NEW t \in members'[n]
                 PROVE  ~ Clash(manifest[q], s, n, t)
      BY <1>1, <1>5, <2>2 DEF Compatible, Others
    <3>1. CASE n = m
      BY <1>0, <1>2, <1>5, <2>2, <3>1 DEF Pair, Clash, Others
    <3>2. CASE n # m
      BY <1>2, <3>2 DEF IInv, Single, Compatible
    <3> QED  BY <3>1, <3>2
  <2> QED  BY <2>1, <2>2
<1>11. ASSUME NEW q \in Publications  PROVE AnswerRight(q)'
  <2>1. AnswerRight(q) /\ manifest[q] \in Manifests
    BY Typing DEF Single
  <2>2. IsSealed(manifest[q]) => manifest[q] # m
    BY <1>0
  <2>3. ASSUME Taken(manifest[q])  PROVE Taken(manifest[q])'
    <3>1. PICK s \in manifest[q].slots, n \in Manifests \ {manifest[q]} :
            \E t \in members[n] : Clash(manifest[q], s, n, t)
      BY <2>3 DEF Taken
    <3>2. n # m /\ members'[n] = members[n] /\ manifest' = manifest
      BY <1>0, <1>1, <1>2, <3>1
    <3> QED  BY <3>1, <3>2 DEF Taken
  <2> QED  BY <1>1, <1>2, <2>1, <2>2, <2>3 DEF AnswerRight, IsSealed
<1>12. ASSUME NEW q \in Publications, NEW r \in Publications, q # r  PROVE Pair(q, r)'
  <2>1. Pair(q, r)
    BY <1>12 DEF IInv
  <2>2. /\ txn'[q].rows \subseteq txn[q].rows /\ txn'[q].slots \subseteq txn[q].slots
        /\ txn'[r].rows \subseteq txn[r].rows /\ txn'[r].slots \subseteq txn[r].slots
    BY <1>5, <1>6 DEF NoTxn, Others
  <2> QED  BY <1>1, <2>1, <2>2 DEF Pair
<1>13. ASSUME NEW n \in Manifests  PROVE Table(n)'
  <2>1. CASE n = m
    <3>1. txn[p].recorded <= clock /\ clock \in Nat
      BY <1>0, ManifestAssumption DEF Recordable, Times
    <3>2. ~ IsSealed(n)' /\ IsCommitted(n)'
      BY <1>0, <1>1, <1>4, <2>1 DEF IsCommitted, IsSealed
    <3>3. /\ members'[n] = n.slots /\ committed'[n] = clock /\ clock' = clock
          /\ recorded'[n] = txn[p].recorded
      BY <1>1, <1>2, <2>1
    <3>4. /\ registered'[n.policy] \in 1..clock
          /\ \A s \in n.slots : archived'[s.opp] \in 1..clock
      BY <1>0, <1>1, <2>1 DEF Recordable
    <3> QED  BY <3>1, <3>2, <3>3, <3>4 DEF Table
  <2>2. CASE n # m
    BY <1>1, <1>2, <2>2 DEF IInv, Table, IsCommitted, IsSealed
  <2> QED  BY <2>1, <2>2
<1>14. ForecastUsedOnce'
  <2> SUFFICES ASSUME NEW k \in Manifests, NEW n \in Manifests, k # n,
                      NEW s \in members'[k], NEW t \in members'[n]
               PROVE  ~ Clash(k, s, n, t)
    BY DEF ForecastUsedOnce, Clash
  <2>1. CASE k = m
    BY <1>0, <1>2, <2>1 DEF Single, Compatible
  <2>2. CASE n = m
    BY <1>0, <1>2, <2>2 DEF Single, Compatible, Clash
  <2>3. CASE k # m /\ n # m
    BY <1>2, <2>3 DEF IInv, ForecastUsedOnce, Clash
  <2> QED  BY <2>1, <2>2, <2>3
<1>15. PastTimes'
  BY <1>1 DEF IInv, PastTimes
<1> QED  BY <1>7, <1>8, <1>9, <1>10, <1>11, <1>12, <1>13, <1>14, <1>15 DEF IInv, Single

\* The commit of a seal: it was stamped after the manifest was committed and
\* before the first target.
LEMMA SealCommitPreserves ==
  ASSUME IInv, NEW p \in Publications, ServerCommit(p), CommitsSeal(p)
  PROVE  IInv'
<1> DEFINE m == manifest[p]
<1>0. /\ Typed(p) /\ Single(p) /\ m \in Manifests /\ clock \in Times \ {NoTime}
      /\ txn[p].state = "committing" /\ txn[p].rows = {"seal"}
      /\ IsCommitted(m) /\ ~ IsSealed(m) /\ Sealable(m, txn[p].sealed)
  <2>1. /\ Typed(p) /\ Single(p) /\ m \in Manifests /\ clock \in Times \ {NoTime}
        /\ txn[p].state = "committing" /\ "seal" \in txn[p].rows
    BY Typing DEF ServerCommit, CommitsSeal
  <2>2. txn[p].rows = {"seal"}
    BY <2>1 DEF Single, Shape
  <2>3. ~ IsSealed(m) /\ Sealable(m, txn[p].sealed)
    BY <2>1 DEF Single, Evidence
  <2> QED  BY <2>1, <2>2, <2>3 DEF Sealable
<1>1. /\ UNCHANGED <<clock, archived, registered, recorded, committed, members>>
      /\ UNCHANGED <<manifest, reply, faults>>
      /\ txn' = [txn EXCEPT ![p] = NoTxn]
      /\ \/ pc' = pc /\ pc[p] \notin {"m_wait", "s_wait"}
         \/ pc[p] = "s_wait" /\ pc' = [pc EXCEPT ![p] = "proof"]
  BY <1>0, CommitEffect DEF CommitsManifest, CommitsSeal
<1>2. /\ \A n \in Manifests \ {m} : sealed'[n] = sealed[n]
      /\ sealed'[m] = txn[p].sealed
  BY <1>0 DEF CommitsSeal, IInv, TypeOK
<1>3. \A n \in Manifests : IsCommitted(n)' <=> IsCommitted(n)
  BY <1>1 DEF IsCommitted
<1>4. IsSealed(m)' /\ \A n \in Manifests : n # m => (IsSealed(n)' <=> IsSealed(n))
  <2>1. txn[p].sealed # NoTime
    BY <1>0, ManifestAssumption DEF Sealable, Times, NoTime
  <2> QED  BY <1>1, <1>2, <2>1 DEF IsSealed
<1>5. \A q \in Others(p) : /\ txn'[q] = txn[q] /\ pc'[q] = pc[q] /\ q \in Publications
                           /\ q # p /\ Pair(p, q) /\ manifest[q] \in Manifests
  BY <1>1, Typing DEF Others, IInv
<1>6. txn'[p] = NoTxn /\ pc'[p] \in Steps \ (Open \ {"s_read"})
      /\ pc'[p] \notin {"start", "m_wait", "s_wait"} /\ (pc'[p] = pc[p] \/ pc'[p] = "proof")
  <2>1. txn'[p] = NoTxn
    BY <1>1, Typing
  <2>2. pc[p] \in Steps \ (Open \ {"m_read", "s_read"}) /\ pc[p] \notin {"start", "m_read"}
    BY <1>0 DEF Typed, Single, Shape
  <2>3. \/ pc'[p] = pc[p] /\ pc[p] \notin {"m_wait", "s_wait"}
       \/ pc'[p] = "proof"
    BY <1>1, Typing
  <2> QED  BY <2>1, <2>2, <2>3 DEF Steps, Open
<1>7. TypeOK'
  <2>1. sealed' \in [Manifests -> Times]
    BY <1>0 DEF CommitsSeal, IInv, TypeOK, Typed, TxnRecords
  <2>2. NoTxn \in TxnRecords
    BY ManifestAssumption DEF NoTxn, TxnRecords, Times, NoTime
  <2>3. txn' \in [Publications -> TxnRecords] /\ pc' \in [Publications -> Steps]
    BY <1>1, <2>2, Typing DEF Steps, Open
  <2> QED  BY <1>1, <2>1, <2>3 DEF IInv, TypeOK
<1>8. ASSUME NEW q \in Publications  PROVE Shape(q)'
  <2>1. CASE q = p
    BY <1>6, <2>1 DEF Shape, NoTxn, Open
  <2>2. CASE q # p
    BY <1>1, <1>5, <2>2 DEF IInv, Single, Shape, Remaining, Others
  <2> QED  BY <2>1, <2>2
<1>9. ASSUME NEW q \in Publications  PROVE Evidence(q)'
  <2>1. CASE q = p
    <3>1. IsCommitted(manifest[q])' /\ IsSealed(manifest[q])'
      <4>1. IsCommitted(m)' /\ manifest'[p] = m
        BY <1>0, <1>1, <1>3
      <4> QED  BY <1>1, <1>4, <2>1, <4>1 DEF IsCommitted, IsSealed
    <3> QED  BY <1>6, <2>1, <3>1 DEF Evidence, NoTxn, Open
  <2>2. CASE q # p
    <3>1. "seal" \in txn[q].rows => manifest[q] # m
      BY <1>0, <1>5, <2>2 DEF Pair, Others
    <3>2. Evidence(q) /\ manifest[q] \in Manifests /\ q \in Others(p)
      BY <2>2, Typing DEF Single, Others
    <3>3. Recordable(manifest[q], txn[q].recorded) => Recordable(manifest[q], txn[q].recorded)'
      BY <1>1, <1>5, <3>2 DEF Recordable
    <3>4. Sealable(manifest[q], txn[q].sealed) => Sealable(manifest[q], txn[q].sealed)'
      BY <1>1, <1>5, <3>2 DEF Sealable, BeforeTargets, IsCommitted
    <3>5. IsSealed(manifest[q])' => manifest[q] = m \/ IsSealed(manifest[q])
      BY <1>1, <1>2, <3>2 DEF IsSealed
    <3>6. IsCommitted(manifest[q])' <=> IsCommitted(manifest[q])
      BY <1>1 DEF IsCommitted
    <3>7. IsSealed(manifest[q]) => IsSealed(manifest[q])'
      BY <1>0, <1>1, <1>2, <3>2 DEF IsSealed
    <3> QED  BY <1>1, <1>5, <3>1, <3>2, <3>3, <3>4, <3>5, <3>6, <3>7 DEF Evidence
  <2> QED  BY <2>1, <2>2
<1>10. ASSUME NEW q \in Publications  PROVE Compatible(q)'
  <2>1. CASE q = p
    BY <1>6, <2>1 DEF Compatible, NoTxn
  <2>2. CASE q # p
    BY <1>1, <1>5, <2>2 DEF IInv, Single, Compatible, Others
  <2> QED  BY <2>1, <2>2
<1>11. ASSUME NEW q \in Publications  PROVE AnswerRight(q)'
  <2>1. AnswerRight(q) /\ manifest[q] \in Manifests
    BY Typing DEF Single
  <2>2. IsSealed(manifest[q]) => manifest[q] # m
    BY <1>0
  <2>3. Taken(manifest[q])' <=> Taken(manifest[q])
    BY <1>1 DEF Taken
  <2> QED  BY <1>1, <1>2, <2>1, <2>2, <2>3 DEF AnswerRight, IsSealed
<1>12. ASSUME NEW q \in Publications, NEW r \in Publications, q # r  PROVE Pair(q, r)'
  <2>1. Pair(q, r)
    BY <1>12 DEF IInv
  <2>2. /\ txn'[q].rows \subseteq txn[q].rows /\ txn'[q].slots \subseteq txn[q].slots
        /\ txn'[r].rows \subseteq txn[r].rows /\ txn'[r].slots \subseteq txn[r].slots
    BY <1>5, <1>6 DEF NoTxn, Others
  <2> QED  BY <1>1, <2>1, <2>2 DEF Pair
<1>13. ASSUME NEW n \in Manifests  PROVE Table(n)'
  <2>1. Table(n)
    BY DEF IInv
  <2>2. CASE n = m
    <3>1. committed[n] <= txn[p].sealed /\ BeforeTargets(txn[p].sealed, n) /\ IsCommitted(n)
      BY <1>0, <2>2 DEF Sealable
    <3> QED  BY <1>1, <1>2, <2>1, <2>2, <3>1 DEF Table, IsCommitted, IsSealed, BeforeTargets
  <2>3. CASE n # m
    BY <1>1, <1>2, <2>1, <2>3 DEF Table, IsCommitted, IsSealed
  <2> QED  BY <2>2, <2>3
<1>14. ForecastUsedOnce'
  BY <1>1 DEF IInv, ForecastUsedOnce
<1>15. PastTimes'
  BY <1>1 DEF IInv, PastTimes
<1> QED  BY <1>7, <1>8, <1>9, <1>10, <1>11, <1>12, <1>13, <1>14, <1>15 DEF IInv, Single

\* The server commits.
LEMMA ServerCommitPreserves ==
  ASSUME IInv, NEW p \in Publications, ServerCommit(p)
  PROVE  IInv'
BY CommitEffect, ManifestCommitPreserves, SealCommitPreserves

-----------------------------------------------------------------------------
(* The surroundings.                                                       *)

\* A step of the surroundings only moves the clock, or sets a time that was
\* not set, to the clock.
LEMMA SurroundingsPreserve ==
  ASSUME IInv, UNCHANGED <<recorded, committed, members, sealed, txn, client, faults>>,
         clock' \in Times, clock <= clock',
         archived' \in [Opportunities -> Times], registered' \in [Policies -> Times],
         \A o \in Opportunities : archived'[o] <= clock'
           /\ (archived[o] # NoTime => archived'[o] = archived[o]),
         \A q \in Policies : registered'[q] <= clock'
           /\ (registered[q] # NoTime => registered'[q] = registered[q])
  PROVE  IInv'
<1>0. clock \in Times \ {NoTime} /\ TypeOK /\ \A t \in Times : t \in Int
  BY ManifestAssumption DEF IInv, TypeOK, Times, NoTime
<1>1. TypeOK'
  BY <1>0, ManifestAssumption DEF TypeOK, client, Times, NoTime
<1>2. PastTimes'
  BY DEF PastTimes
<1>3. \A m \in Manifests : IsCommitted(m)' = IsCommitted(m) /\ IsSealed(m)' = IsSealed(m)
  BY DEF IsCommitted, IsSealed
<1>4. ASSUME NEW m \in Manifests, NEW t \in Times, Recordable(m, t)
      PROVE  /\ t \in 1..clock' /\ registered'[m.policy] \in 1..clock'
             /\ \A s \in m.slots : archived'[s.opp] \in 1..clock'
  <2>1. m.policy \in Policies /\ \A s \in m.slots : s.opp \in Opportunities
    BY ManifestAssumption
  <2>2. registered'[m.policy] = registered[m.policy] /\ registered[m.policy] \in 1..clock
    BY <1>4, <2>1 DEF Recordable, NoTime
  <2>3. \A s \in m.slots : archived'[s.opp] = archived[s.opp] /\ archived[s.opp] \in 1..clock
    BY <1>4, <2>1 DEF Recordable, NoTime
  <2>4. clock \in Int /\ clock' \in Int /\ t \in 1..clock
    BY <1>0, <1>4 DEF Recordable
  <2> QED  BY <2>2, <2>3, <2>4
<1>5. ASSUME NEW p \in Publications  PROVE Single(p)'
  <2>1. /\ Single(p) /\ manifest[p] \in Manifests
        /\ txn[p].recorded \in Times /\ txn[p].sealed \in Times
    BY Typing DEF Typed, TxnRecords
  <2>2. Shape(p)'
    BY <2>1 DEF Single, Shape, Remaining, client
  <2>3. Evidence(p)'
    <3>1. txn[p].recorded \in 1..clock => txn[p].recorded \in 1..clock'
      BY <1>0
    <3>2. Evidence(p) /\ manifest'[p] = manifest[p] /\ pc' = pc
      BY <2>1 DEF Single, client
    <3>3. Recordable(manifest[p], txn[p].recorded) => Recordable(manifest[p], txn[p].recorded)'
      BY <1>4, <2>1, <3>2 DEF Recordable
    <3>4. Sealable(manifest[p], txn[p].sealed) => Sealable(manifest[p], txn[p].sealed)'
      BY <1>0, <2>1, <3>2 DEF Sealable, IsCommitted, BeforeTargets
    <3>5. /\ IsCommitted(manifest[p])' = IsCommitted(manifest[p])
          /\ IsSealed(manifest[p])' = IsSealed(manifest[p])
      BY <3>2 DEF IsCommitted, IsSealed
    <3> QED  BY <3>1, <3>2, <3>3, <3>4, <3>5 DEF Evidence
  <2>4. Compatible(p)' /\ AnswerRight(p)'
    BY <2>1 DEF Single, Compatible, AnswerRight, Taken, IsSealed, client
  <2> QED  BY <2>2, <2>3, <2>4 DEF Single
<1>6. \A p, q \in Publications : p # q => Pair(p, q)'
  BY DEF IInv, Pair, client
<1>7. ASSUME NEW m \in Manifests  PROVE Table(m)'
  <2>1. Table(m) /\ committed[m] \in Times
    BY DEF IInv, TypeOK
  <2>2. m.policy \in Policies /\ \A s \in m.slots : s.opp \in Opportunities
    BY ManifestAssumption
  <2>3. CASE IsCommitted(m)
    <3>1. /\ registered[m.policy] # NoTime
          /\ \A s \in m.slots : archived[s.opp] # NoTime
      BY <1>0, <2>1, <2>3 DEF Table, NoTime
    <3>2. /\ registered'[m.policy] \in 1..committed[m]
          /\ \A s \in m.slots : archived'[s.opp] \in 1..committed[m]
      BY <2>1, <2>2, <2>3, <3>1 DEF Table
    <3>3. committed[m] <= clock'
      BY <1>0, <2>1, <2>3 DEF Table
    <3> QED  BY <2>1, <2>3, <3>2, <3>3 DEF Table, IsCommitted, IsSealed, BeforeTargets
  <2>4. CASE ~ IsCommitted(m)
    BY <2>1, <2>4 DEF Table, IsCommitted, IsSealed
  <2> QED  BY <2>3, <2>4
<1>8. ForecastUsedOnce'
  BY DEF IInv, ForecastUsedOnce
<1> QED  BY <1>1, <1>2, <1>5, <1>6, <1>7, <1>8 DEF IInv

\* Time passes, a run is archived, a policy is registered.
LEMMA EnvironmentPreserves ==
  ASSUME IInv, \/ Tick
               \/ \E o \in Opportunities : ArchiveRun(o)
               \/ \E q \in Policies : RegisterPolicy(q)
  PROVE  IInv'
<1>0. /\ TypeOK /\ PastTimes /\ clock \in Times \ {NoTime} /\ MaxTime \in Nat
      /\ \A t \in Times : t \in Int
  BY ManifestAssumption DEF IInv, TypeOK, Times, NoTime
<1>1. CASE Tick
  <2>1. clock' \in Times /\ clock <= clock' /\ clock \in Int /\ clock' \in Int
    BY <1>0, <1>1 DEF Tick, Times
  <2>2. /\ archived' = archived /\ registered' = registered
        /\ UNCHANGED <<recorded, committed, members, sealed, txn, client, faults>>
    BY <1>1 DEF Tick, tables
  <2>3. archived \in [Opportunities -> Times] /\ registered \in [Policies -> Times]
    BY <1>0 DEF TypeOK
  <2>4. \A t \in Times : t <= clock => t <= clock'
    BY <1>0, <2>1
  <2>5. /\ \A o \in Opportunities : archived[o] <= clock'
        /\ \A q \in Policies : registered[q] <= clock'
    BY <1>0, <2>3, <2>4 DEF PastTimes
  <2> QED  BY <2>1, <2>2, <2>3, <2>5, SurroundingsPreserve
<1>2. CASE \E o \in Opportunities : ArchiveRun(o)
  BY <1>0, <1>2, SurroundingsPreserve DEF ArchiveRun, TypeOK, PastTimes
<1>3. CASE \E q \in Policies : RegisterPolicy(q)
  BY <1>0, <1>3, SurroundingsPreserve DEF RegisterPolicy, TypeOK, PastTimes
<1> QED  BY <1>1, <1>2, <1>3

\* A step that changes nothing.
LEMMA StutterPreserves ==
  ASSUME IInv, UNCHANGED vars
  PROVE  IInv'
<1>1. TypeOK /\ PastTimes /\ clock \in Times
  BY DEF IInv, TypeOK
<1>2. /\ UNCHANGED <<recorded, committed, members, sealed, txn, client, faults>>
      /\ clock' = clock /\ archived' = archived /\ registered' = registered
  BY DEF vars, tables
<1>3. clock <= clock'
  BY <1>1, <1>2, ManifestAssumption DEF Times
<1> QED  BY <1>1, <1>2, <1>3, SurroundingsPreserve DEF TypeOK, PastTimes

-----------------------------------------------------------------------------
(* Theorems.                                                               *)

\* The invariant is inductive.
LEMMA NextPreserves ==
  ASSUME IInv, [Next]_vars
  PROVE  IInv'
<1>1. CASE \E p \in Publications : Step(p)
  BY <1>1, ReadManifestPreserves, StampManifestPreserves, ValidateManifestPreserves,
     InsertManifestPreserves, InsertMemberPreserves, SendCommitPreserves, TryRecordPreserves,
     ReadSealPreserves, StampSealPreserves, InsertSealPreserves, TrySealPreserves,
     ReadProofPreserves DEF Step
<1>2. CASE \E p \in Publications :
             \/ Publish(p) \/ SealAtOnce(p)
             \/ DatabaseError(p) \/ OutcomeUnknown(p) \/ LookupFails(p) \/ Crash(p)
             \/ ServerCommit(p) \/ ServerAbort(p)
  BY <1>2, PublishPreserves, SealAtOncePreserves, DatabaseErrorPreserves,
     OutcomeUnknownPreserves, LookupFailsPreserves, CrashPreserves,
     ServerCommitPreserves, ServerAbortPreserves
<1>3. CASE Tick \/ (\E o \in Opportunities : ArchiveRun(o)) \/ \E q \in Policies : RegisterPolicy(q)
  BY <1>3, EnvironmentPreserves
<1>4. CASE UNCHANGED vars
  BY <1>4, StutterPreserves
<1> QED  BY <1>1, <1>2, <1>3, <1>4 DEF Next

\* The inductive invariant holds in every behaviour.
THEOREM InvariantHolds == Spec => []IInv
<1>1. Init => IInv
  BY InitInv
<1>2. IInv /\ [Next]_vars => IInv'
  BY NextPreserves
<1> QED  BY <1>1, <1>2, PTL DEF Spec

\* Every variable keeps its type.
THEOREM TypeCorrect == Spec => []TypeOK
<1>1. IInv => TypeOK
  BY DEF IInv
<1> QED  BY <1>1, InvariantHolds, PTL

\* Whatever order publications, the archive and the registry commit in, a sealed
\* cohort was public, with all that it refers to, before its first target.
THEOREM EvidencePrecedesTargets == Spec => []SealedInTime
<1>1. IInv => SealedInTime
  <2> SUFFICES ASSUME IInv, NEW m \in Manifests, IsSealed(m)
               PROVE  /\ members[m] = m.slots
                      /\ registered[m.policy] \in 1..committed[m]
                      /\ \A s \in m.slots : archived[s.opp] \in 1..committed[m]
                      /\ recorded[m] <= committed[m]
                      /\ committed[m] \in 1..sealed[m] /\ BeforeTargets(sealed[m], m)
    BY DEF SealedInTime
  <2>1. Table(m) /\ committed[m] \in Times /\ sealed[m] \in Times
    BY DEF IInv, TypeOK
  <2>2. IsCommitted(m)
    BY <2>1 DEF Table
  <2>3. committed[m] >= 1
    BY <2>1, <2>2, ManifestAssumption DEF IsCommitted, Times, NoTime
  <2> QED  BY <2>1, <2>2, <2>3, ManifestAssumption DEF Table, Times
<1> QED  BY <1>1, InvariantHolds, PTL

\* No forecast step is evaluated twice under a policy, and no opportunity serves
\* two purposes.
THEOREM NoReuse == Spec => []ForecastUsedOnce
<1>1. IInv => ForecastUsedOnce
  BY DEF IInv
<1> QED  BY <1>1, InvariantHolds, PTL

\* A proof that was returned stays true.
THEOREM ProofsStay == Spec => []ProofHolds
<1>1. IInv => ProofHolds
  BY DEF IInv, Single, AnswerRight, ProofHolds
<1> QED  BY <1>1, InvariantHolds, PTL

\* publish() never reports incomplete or corrupt evidence.
THEOREM ProofAlwaysFound == Spec => []EvidenceIsComplete
<1>1. IInv => EvidenceIsComplete
  BY DEF IInv, Single, AnswerRight, EvidenceIsComplete
<1> QED  BY <1>1, InvariantHolds, PTL

\* A cohort whose member is taken is never recorded.
THEOREM TakenStays == Spec => []TakenIsFinal
<1>1. IInv => TakenIsFinal
  <2> SUFFICES ASSUME IInv, NEW p \in Publications, reply[p].kind = "taken",
                      IsCommitted(manifest[p])
               PROVE  FALSE
    BY DEF TakenIsFinal
  <2>1. manifest[p] \in Manifests /\ Taken(manifest[p]) /\ Table(manifest[p])
    BY Typing DEF Single, AnswerRight
  <2>2. members[manifest[p]] = manifest[p].slots
    BY <2>1 DEF Table
  <2> QED  BY <2>1, <2>2 DEF Taken, IInv, ForecastUsedOnce, Clash
<1> QED  BY <1>1, InvariantHolds, PTL

\* Proofs and refusals of publish() hold for ever.
THEOREM AnswersStay == Spec => []AnswersHold
BY ProofsStay, ProofAlwaysFound, TakenStays, PTL DEF AnswersHold
=============================================================================
