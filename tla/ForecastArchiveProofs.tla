------------------------ MODULE ForecastArchiveProofs ------------------------
(***************************************************************************)
(* Proofs about ForecastArchive, for every number of attempts, faults,     *)
(* keys and requests: its inductive invariant, the safety properties the   *)
(* runs check, and that it implements IdempotentArchive.                   *)
(***************************************************************************)
EXTENDS ForecastArchive, TLAPS

\* The client's control state and its transaction's state agree.
PhaseInv ==
  \A i \in Attempts :
    /\ pc[i] = "start" <=> call[i] = NoCall
    /\ pc[i] = "done" <=> reply[i].kind # "none"
    /\ pc[i] \in {"start", "preflight", "produce", "candidate"} => txn[i] = "none"
    /\ pc[i] \in {"preflight", "check"} => Keyed(call[i])
    /\ txn[i] = "open" => pc[i] \in {"check", "flush"}
    /\ txn[i] = "inserted" <=> pc[i] = "flushed"
    /\ txn[i] = "committing" => pc[i] \in {"committing", "reconcile", "replay", "done"}
    /\ i \in runs => txn[i] = "none" /\ pc[i] \in {"committing", "reconcile", "replay", "done"}

\* A row that is in the table or may still get there.
Held(i) == i \in runs \/ txn[i] \in {"inserted", "committing"}

\* No two such rows share a key or a scheduled opportunity.
UniqueInv ==
  \A i, j \in Attempts : i # j /\ Held(i) /\ Held(j) => ~ Clash(call[i], call[j])

\* What a lookup found is a committed row for the attempt's key or opportunity,
\* or the attempt's own; the loser of an INSERT has a winner to find.
LookupInv ==
  \A i \in Attempts :
    /\ pc[i] = "replay" =>
         found[i] \in runs /\ (found[i] = i \/ Clash(call[i], call[found[i]]))
    /\ pc[i] = "lookup" =>
         /\ txn[i] \in {"none", "doomed"}
         /\ \E j \in runs : Clash(call[i], call[j])

\* Answers and table agree.
ReplyInv ==
  \A i \in Attempts :
    /\ reply[i].kind \in Definite => i \notin runs /\ txn[i] # "committing"
    /\ reply[i].kind = "ok" => reply[i].run \in runs /\ call[reply[i].run] = call[i]

IInv == TypeOK /\ PhaseInv /\ UniqueInv /\ LookupInv /\ ReplyInv
-----------------------------------------------------------------------------
(* Facts about calls.                                                      *)

\* Being in each other's way is symmetric.
LEMMA ClashSymmetric ==
  ASSUME NEW p, NEW q
  PROVE  Clash(p, q) <=> Clash(q, p)
BY DEF Clash, Keyed, Scheduled

\* Two calls that clash and ask for the same are the same call: a keyed call
\* comes from the API, a scheduled one carries no key.
LEMMA SameRequestSameCall ==
  ASSUME NEW p \in Call, NEW q \in Call, Clash(p, q), p.req = q.req
  PROVE  p = q
<1>1. p.key = q.key /\ p.origin = q.origin
  BY BoundsAssumption DEF Clash, Keyed, Scheduled, Call
<1> QED  BY <1>1 DEF Call

\* The initial state satisfies the invariant.
LEMMA InitInv == Init => IInv
BY BoundsAssumption
   DEF Init, IInv, TypeOK, PhaseInv, UniqueInv, LookupInv, ReplyInv, Held,
       Replies, Kinds, Definite, Steps, TxnStates, NoReply

-----------------------------------------------------------------------------
(* The invariant is inductive: one lemma per action.                        *)

\* An attempt is only asked for calls the archive takes.
LEMMA AskedIsCall ==
  ASSUME NEW i \in Attempts
  PROVE  Asked(i) \subseteq Call
  BY BoundsAssumption

\* A new call: nothing is stored, locked or answered for it yet.
LEMMA ExecutePreserves ==
  ASSUME IInv, NEW i \in Attempts, Execute(i)
  PROVE  IInv'
<1> USE DEF IInv
<1>1. TypeOK'
  BY AskedIsCall DEF Execute, Goto, TypeOK, Replies, Kinds, Definite, Steps, TxnStates
<1>2. PhaseInv'
  BY BoundsAssumption DEF Execute, Goto, TypeOK, Replies, Kinds, Definite,
         PhaseInv, NoReply
<1>3. UniqueInv'
  BY DEF Execute, Goto, TypeOK, PhaseInv, UniqueInv, Held
<1>4. LookupInv'
  BY DEF Execute, Goto, TypeOK, PhaseInv, LookupInv
<1>5. ReplyInv'
  BY DEF Execute, Goto, TypeOK, PhaseInv, ReplyInv, Definite
<1> QED  BY <1>1, <1>2, <1>3, <1>4, <1>5

\* The lookup before the forecast: what it finds has the attempt's key.
LEMMA PreflightPreserves ==
  ASSUME IInv, NEW i \in Attempts, Preflight(i)
  PROVE  IInv'
<1> USE DEF IInv
<1>1. TypeOK'
  BY DEF Preflight, Goto, Found, FindRetry, TypeOK, Replies, Kinds, Definite,
         Steps, TxnStates
<1>2. PhaseInv'
  BY DEF Preflight, Goto, Found, FindRetry, TypeOK, Replies, Kinds, Definite,
         PhaseInv, NoReply
<1>3. UniqueInv'
  BY DEF Preflight, Goto, Found, FindRetry, TypeOK, PhaseInv, UniqueInv, Held
<1>4. LookupInv'
  BY DEF Preflight, Goto, Found, FindRetry, Clash, Keyed, Scheduled, TypeOK,
         PhaseInv, LookupInv
<1>5. ReplyInv'
  BY DEF Preflight, Goto, Found, FindRetry, TypeOK, PhaseInv, ReplyInv,
         Definite
<1> QED  BY <1>1, <1>2, <1>3, <1>4, <1>5

\* The forecast is computed without any transaction.
LEMMA ProducePreserves ==
  ASSUME IInv, NEW i \in Attempts, Produce(i)
  PROVE  IInv'
<1> USE DEF IInv
<1>1. TypeOK'
  BY DEF Produce, Goto, TypeOK, Replies, Kinds, Definite, Steps, TxnStates
<1>2. PhaseInv'
  BY DEF Produce, Goto, TypeOK, Replies, Kinds, Definite, PhaseInv, NoReply
<1>3. UniqueInv'
  BY DEF Produce, Goto, TypeOK, PhaseInv, UniqueInv, Held
<1>4. LookupInv'
  BY DEF Produce, Goto, TypeOK, PhaseInv, LookupInv
<1>5. ReplyInv'
  BY DEF Produce, Goto, TypeOK, PhaseInv, ReplyInv, Definite
<1> QED  BY <1>1, <1>2, <1>3, <1>4, <1>5

\* A refused forecast was never inserted.
LEMMA ProduceFailsPreserves ==
  ASSUME IInv, NEW i \in Attempts, ProduceFails(i)
  PROVE  IInv'
<1> USE DEF IInv
<1>1. TypeOK'
  BY DEF ProduceFails, Goto, Answer, TypeOK, Replies, Kinds, Definite, Steps,
         TxnStates
<1>2. PhaseInv'
  BY DEF ProduceFails, Goto, Answer, TypeOK, Replies, Kinds, Definite,
         PhaseInv, NoReply
<1>3. UniqueInv'
  BY DEF ProduceFails, Goto, Answer, TypeOK, PhaseInv, UniqueInv, Held
<1>4. LookupInv'
  BY DEF ProduceFails, Goto, Answer, TypeOK, PhaseInv, LookupInv
<1>5. ReplyInv'
  BY DEF ProduceFails, Goto, Answer, TypeOK, PhaseInv, ReplyInv, Definite
<1> QED  BY <1>1, <1>2, <1>3, <1>4, <1>5

\* The transaction begins, with nothing inserted.
LEMMA LockRetryPreserves ==
  ASSUME IInv, NEW i \in Attempts, LockRetry(i)
  PROVE  IInv'
<1> USE DEF IInv
<1>1. TypeOK'
  BY DEF LockRetry, Goto, TypeOK, Replies, Kinds, Definite, Steps, TxnStates
<1>2. PhaseInv'
  BY DEF LockRetry, Goto, TypeOK, Replies, Kinds, Definite, PhaseInv, NoReply
<1>3. UniqueInv'
  BY DEF LockRetry, Goto, TypeOK, PhaseInv, UniqueInv, Held
<1>4. LookupInv'
  BY DEF LockRetry, Goto, TypeOK, PhaseInv, LookupInv
<1>5. ReplyInv'
  BY DEF LockRetry, Goto, TypeOK, PhaseInv, ReplyInv, Definite
<1> QED  BY <1>1, <1>2, <1>3, <1>4, <1>5

\* An attempt refused by the lock has no transaction.
LEMMA LockRefusedPreserves ==
  ASSUME IInv, NEW i \in Attempts, LockRefused(i)
  PROVE  IInv'
<1> USE DEF IInv
<1>1. TypeOK'
  BY DEF LockRefused, Goto, Answer, TypeOK, Replies, Kinds, Definite, Steps,
         TxnStates
<1>2. PhaseInv'
  BY DEF LockRefused, Goto, Answer, TypeOK, Replies, Kinds, Definite,
         PhaseInv, NoReply
<1>3. UniqueInv'
  BY DEF LockRefused, Goto, Answer, TypeOK, PhaseInv, UniqueInv, Held
<1>4. LookupInv'
  BY DEF LockRefused, Goto, Answer, TypeOK, PhaseInv, LookupInv
<1>5. ReplyInv'
  BY DEF LockRefused, Goto, Answer, TypeOK, PhaseInv, ReplyInv, Definite
<1> QED  BY <1>1, <1>2, <1>3, <1>4, <1>5

\* The lookup under the lock: what it finds has the attempt's key.
LEMMA CheckRetryPreserves ==
  ASSUME IInv, NEW i \in Attempts, CheckRetry(i)
  PROVE  IInv'
<1> USE DEF IInv
<1>1. TypeOK'
  BY DEF CheckRetry, Goto, Found, FindRetry, TypeOK, Replies, Kinds, Definite,
         Steps, TxnStates
<1>2. PhaseInv'
  BY DEF CheckRetry, Goto, Found, FindRetry, TypeOK, Replies, Kinds, Definite,
         PhaseInv, NoReply
<1>3. UniqueInv'
  BY DEF CheckRetry, Goto, Found, FindRetry, TypeOK, PhaseInv, UniqueInv, Held
<1>4. LookupInv'
  BY DEF CheckRetry, Goto, Found, FindRetry, Clash, Keyed, Scheduled, TypeOK,
         PhaseInv, LookupInv
<1>5. ReplyInv'
  BY DEF CheckRetry, Goto, Found, FindRetry, TypeOK, PhaseInv, ReplyInv,
         Definite
<1> QED  BY <1>1, <1>2, <1>3, <1>4, <1>5

\* An INSERT that succeeds clashes neither with the table nor with a pending
\* row; one that fails leaves a winner to be found.
LEMMA FlushPreserves ==
  ASSUME IInv, NEW i \in Attempts, Flush(i)
  PROVE  IInv'
<1> USE DEF IInv
<1>1. TypeOK'
  BY DEF Flush, Goto, TypeOK, Replies, Kinds, Definite, Steps, TxnStates
<1>2. PhaseInv'
  BY DEF Flush, Goto, TypeOK, Replies, Kinds, Definite, PhaseInv, NoReply
<1>3. UniqueInv'
  BY ClashSymmetric DEF Flush, Goto, TypeOK, PhaseInv, UniqueInv, Held
<1>4. LookupInv'
  BY DEF Flush, Goto, TypeOK, PhaseInv, LookupInv
<1>5. ReplyInv'
  BY DEF Flush, Goto, TypeOK, PhaseInv, ReplyInv, Definite
<1> QED  BY <1>1, <1>2, <1>3, <1>4, <1>5

\* A rejected INSERT is rolled back.
LEMMA FlushRejectedPreserves ==
  ASSUME IInv, NEW i \in Attempts, FlushRejected(i)
  PROVE  IInv'
<1> USE DEF IInv
<1>1. TypeOK'
  BY DEF FlushRejected, Goto, Answer, TypeOK, Replies, Kinds, Definite, Steps,
         TxnStates
<1>2. PhaseInv'
  BY DEF FlushRejected, Goto, Answer, TypeOK, Replies, Kinds, Definite,
         PhaseInv, NoReply
<1>3. UniqueInv'
  BY DEF FlushRejected, Goto, Answer, TypeOK, PhaseInv, UniqueInv, Held
<1>4. LookupInv'
  BY DEF FlushRejected, Goto, Answer, TypeOK, PhaseInv, LookupInv
<1>5. ReplyInv'
  BY DEF FlushRejected, Goto, Answer, TypeOK, PhaseInv, ReplyInv, Definite
<1> QED  BY <1>1, <1>2, <1>3, <1>4, <1>5

\* COMMIT is sent for an inserted row only.
LEMMA SendCommitPreserves ==
  ASSUME IInv, NEW i \in Attempts, SendCommit(i)
  PROVE  IInv'
<1> USE DEF IInv
<1>1. TypeOK'
  BY DEF SendCommit, Goto, TypeOK, Replies, Kinds, Definite, Steps, TxnStates
<1>2. PhaseInv'
  BY DEF SendCommit, Goto, TypeOK, Replies, Kinds, Definite, PhaseInv, NoReply
<1>3. UniqueInv'
  BY DEF SendCommit, Goto, TypeOK, PhaseInv, UniqueInv, Held
<1>4. LookupInv'
  BY DEF SendCommit, Goto, TypeOK, PhaseInv, LookupInv
<1>5. ReplyInv'
  BY DEF SendCommit, Goto, TypeOK, PhaseInv, ReplyInv, Definite
<1> QED  BY <1>1, <1>2, <1>3, <1>4, <1>5

\* A commit that is confirmed is answered with the attempt's own run.
LEMMA CommittedPreserves ==
  ASSUME IInv, NEW i \in Attempts, Committed(i)
  PROVE  IInv'
<1> USE DEF IInv
<1>1. TypeOK'
  BY DEF Committed, Goto, Answer, TypeOK, Replies, Kinds, Definite, Steps,
         TxnStates
<1>2. PhaseInv'
  BY DEF Committed, Goto, Answer, TypeOK, Replies, Kinds, Definite, PhaseInv,
         NoReply
<1>3. UniqueInv'
  BY DEF Committed, Goto, Answer, TypeOK, PhaseInv, UniqueInv, Held
<1>4. LookupInv'
  BY DEF Committed, Goto, Answer, TypeOK, PhaseInv, LookupInv
<1>5. ReplyInv'
  BY DEF Committed, Goto, Answer, TypeOK, PhaseInv, ReplyInv, Definite
<1> QED  BY <1>1, <1>2, <1>3, <1>4, <1>5

\* A known rollback is final.
LEMMA CommitRolledBackPreserves ==
  ASSUME IInv, NEW i \in Attempts, CommitRolledBack(i)
  PROVE  IInv'
<1> USE DEF IInv
<1>1. TypeOK'
  BY DEF CommitRolledBack, Goto, Answer, TypeOK, Replies, Kinds, Definite,
         Steps, TxnStates
<1>2. PhaseInv'
  BY DEF CommitRolledBack, Goto, Answer, TypeOK, Replies, Kinds, Definite,
         PhaseInv, NoReply
<1>3. UniqueInv'
  BY DEF CommitRolledBack, Goto, Answer, TypeOK, PhaseInv, UniqueInv, Held
<1>4. LookupInv'
  BY DEF CommitRolledBack, Goto, Answer, TypeOK, PhaseInv, LookupInv
<1>5. ReplyInv'
  BY DEF CommitRolledBack, Goto, Answer, TypeOK, PhaseInv, ReplyInv, Definite
<1> QED  BY <1>1, <1>2, <1>3, <1>4, <1>5

\* An unclear rollback is looked up.
LEMMA CommitUnclearPreserves ==
  ASSUME IInv, NEW i \in Attempts, CommitUnclear(i)
  PROVE  IInv'
<1> USE DEF IInv
<1>1. TypeOK'
  BY DEF CommitUnclear, Goto, TypeOK, Replies, Kinds, Definite, Steps,
         TxnStates
<1>2. PhaseInv'
  BY DEF CommitUnclear, Goto, TypeOK, Replies, Kinds, Definite, PhaseInv,
         NoReply
<1>3. UniqueInv'
  BY DEF CommitUnclear, Goto, TypeOK, PhaseInv, UniqueInv, Held
<1>4. LookupInv'
  BY DEF CommitUnclear, Goto, TypeOK, PhaseInv, LookupInv
<1>5. ReplyInv'
  BY DEF CommitUnclear, Goto, TypeOK, PhaseInv, ReplyInv, Definite
<1> QED  BY <1>1, <1>2, <1>3, <1>4, <1>5

\* The winner has the attempt's key or opportunity.
LEMMA HandleIntegrityErrorPreserves ==
  ASSUME IInv, NEW i \in Attempts, HandleIntegrityError(i)
  PROVE  IInv'
<1> USE DEF IInv
<1>1. TypeOK'
  BY DEF HandleIntegrityError, Goto, Answer, Found, FindWinner, FindRetry,
         FindScheduled, TypeOK, Replies, Kinds, Definite, Steps, TxnStates
<1>2. PhaseInv'
  BY DEF HandleIntegrityError, Goto, Answer, Found, FindWinner, FindRetry,
         FindScheduled, TypeOK, Replies, Kinds, Definite, PhaseInv, NoReply
<1>3. UniqueInv'
  BY DEF HandleIntegrityError, Goto, Answer, Found, FindWinner, FindRetry,
         FindScheduled, TypeOK, PhaseInv, UniqueInv, Held
<1>4. LookupInv'
  BY DEF HandleIntegrityError, Goto, Answer, Found, FindWinner, FindRetry,
         FindScheduled, Clash, Keyed, Scheduled, TypeOK, PhaseInv, LookupInv
<1>5. ReplyInv'
  BY DEF HandleIntegrityError, Goto, Answer, Found, FindWinner, FindRetry,
         FindScheduled, TypeOK, PhaseInv, ReplyInv, Definite
<1> QED  BY <1>1, <1>2, <1>3, <1>4, <1>5

\* Reconciliation finds the attempt's own run or one that took its place.
LEMMA ReconcileUnknownCommitPreserves ==
  ASSUME IInv, NEW i \in Attempts, ReconcileUnknownCommit(i)
  PROVE  IInv'
<1> USE DEF IInv
<1>1. TypeOK'
  BY DEF ReconcileUnknownCommit, Goto, Answer, Found, FindOutcome, FindWinner,
         FindForecast, FindRetry, FindScheduled, TypeOK, Replies, Kinds, Definite,
         Steps, TxnStates
<1>2. PhaseInv'
  BY DEF ReconcileUnknownCommit, Goto, Answer, Found, FindOutcome, FindWinner,
         FindForecast, FindRetry, FindScheduled, TypeOK, Replies, Kinds, Definite,
         PhaseInv, NoReply
<1>3. UniqueInv'
  BY DEF ReconcileUnknownCommit, Goto, Answer, Found, FindOutcome, FindWinner,
         FindForecast, FindRetry, FindScheduled, TypeOK, PhaseInv, UniqueInv, Held
<1>4. LookupInv'
  BY DEF ReconcileUnknownCommit, Goto, Answer, Found, FindOutcome, FindWinner,
         FindForecast, FindRetry, FindScheduled, Clash, Keyed, Scheduled, TypeOK,
         PhaseInv, LookupInv
<1>5. ReplyInv'
  BY DEF ReconcileUnknownCommit, Goto, Answer, Found, FindOutcome, FindWinner,
         FindForecast, FindRetry, FindScheduled, TypeOK, PhaseInv, ReplyInv, Definite
<1> QED  BY <1>1, <1>2, <1>3, <1>4, <1>5

\* A replayed run was stored for the same call; a conflict means that the
\* attempt's own row is not held, since the run found clashes with it.
LEMMA ReplayPreserves ==
  ASSUME IInv, NEW i \in Attempts, Replay(i)
  PROVE  IInv'
<1> USE DEF IInv
<1>1. TypeOK'
  BY DEF Replay, Goto, Answer, LookupInv, TypeOK, Replies, Kinds, Definite,
         Steps, TxnStates
<1>2. PhaseInv'
  BY DEF Replay, Goto, Answer, TypeOK, Replies, Kinds, Definite, PhaseInv,
         NoReply
<1>3. UniqueInv'
  BY DEF Replay, Goto, Answer, TypeOK, PhaseInv, UniqueInv, Held
<1>4. LookupInv'
  BY DEF Replay, Goto, Answer, TypeOK, PhaseInv, LookupInv
<1>5. ReplyInv'
  BY SameRequestSameCall DEF Replay, Goto, Answer, UniqueInv, LookupInv, Held,
         TypeOK, PhaseInv, ReplyInv, Definite
<1> QED  BY <1>1, <1>2, <1>3, <1>4, <1>5

\* An error before the flush leaves nothing that could commit.
LEMMA DatabaseErrorPreserves ==
  ASSUME IInv, NEW i \in Attempts, DatabaseError(i)
  PROVE  IInv'
<1> USE DEF IInv
<1>1. TypeOK'
  BY BoundsAssumption DEF DatabaseError, Goto, Answer, Fault, Doomed, TypeOK,
         Replies, Kinds, Definite, Steps, TxnStates
<1>2. PhaseInv'
  BY DEF DatabaseError, Goto, Answer, Fault, Doomed, TypeOK, Replies, Kinds,
         Definite, PhaseInv, NoReply
<1>3. UniqueInv'
  BY DEF DatabaseError, Goto, Answer, Fault, Doomed, TypeOK, PhaseInv,
         UniqueInv, Held
<1>4. LookupInv'
  BY DEF DatabaseError, Goto, Answer, Fault, Doomed, TypeOK, PhaseInv,
         LookupInv
<1>5. ReplyInv'
  BY DEF DatabaseError, Goto, Answer, Fault, Doomed, TypeOK, PhaseInv,
         ReplyInv, Definite
<1> QED  BY <1>1, <1>2, <1>3, <1>4, <1>5

\* An unknown outcome is not answered before it is looked up.
LEMMA OutcomeUnknownPreserves ==
  ASSUME IInv, NEW i \in Attempts, OutcomeUnknown(i)
  PROVE  IInv'
<1> USE DEF IInv
<1>1. TypeOK'
  BY BoundsAssumption DEF OutcomeUnknown, Goto, Fault, Doomed, TypeOK,
         Replies, Kinds, Definite, Steps, TxnStates
<1>2. PhaseInv'
  BY DEF OutcomeUnknown, Goto, Fault, Doomed, TypeOK, Replies, Kinds,
         Definite, PhaseInv, NoReply
<1>3. UniqueInv'
  BY DEF OutcomeUnknown, Goto, Fault, Doomed, TypeOK, PhaseInv, UniqueInv,
         Held
<1>4. LookupInv'
  BY DEF OutcomeUnknown, Goto, Fault, Doomed, TypeOK, PhaseInv, LookupInv
<1>5. ReplyInv'
  BY DEF OutcomeUnknown, Goto, Fault, Doomed, TypeOK, PhaseInv, ReplyInv,
         Definite
<1> QED  BY <1>1, <1>2, <1>3, <1>4, <1>5

\* The answer unknown promises nothing.
LEMMA ReconcileFailsPreserves ==
  ASSUME IInv, NEW i \in Attempts, ReconcileFails(i)
  PROVE  IInv'
<1> USE DEF IInv
<1>1. TypeOK'
  BY BoundsAssumption DEF ReconcileFails, Goto, Answer, Fault, TypeOK,
         Replies, Kinds, Definite, Steps, TxnStates
<1>2. PhaseInv'
  BY DEF ReconcileFails, Goto, Answer, Fault, TypeOK, Replies, Kinds,
         Definite, PhaseInv, NoReply
<1>3. UniqueInv'
  BY DEF ReconcileFails, Goto, Answer, Fault, TypeOK, PhaseInv, UniqueInv,
         Held
<1>4. LookupInv'
  BY DEF ReconcileFails, Goto, Answer, Fault, TypeOK, PhaseInv, LookupInv
<1>5. ReplyInv'
  BY DEF ReconcileFails, Goto, Answer, Fault, TypeOK, PhaseInv, ReplyInv,
         Definite
<1> QED  BY <1>1, <1>2, <1>3, <1>4, <1>5

\* A lost answer promises nothing.
LEMMA CrashPreserves ==
  ASSUME IInv, NEW i \in Attempts, Crash(i)
  PROVE  IInv'
<1> USE DEF IInv
<1>1. TypeOK'
  BY BoundsAssumption DEF Crash, Goto, Answer, Fault, Doomed, TypeOK, Replies,
         Kinds, Definite, Steps, TxnStates
<1>2. PhaseInv'
  BY DEF Crash, Goto, Answer, Fault, Doomed, TypeOK, Replies, Kinds, Definite,
         PhaseInv, NoReply
<1>3. UniqueInv'
  BY DEF Crash, Goto, Answer, Fault, Doomed, TypeOK, PhaseInv, UniqueInv, Held
<1>4. LookupInv'
  BY DEF Crash, Goto, Answer, Fault, Doomed, TypeOK, PhaseInv, LookupInv
<1>5. ReplyInv'
  BY DEF Crash, Goto, Answer, Fault, Doomed, TypeOK, PhaseInv, ReplyInv,
         Definite
<1> QED  BY <1>1, <1>2, <1>3, <1>4, <1>5

\* A late commit adds a held row, for a caller who was not told otherwise.
LEMMA ServerCommitPreserves ==
  ASSUME IInv, NEW i \in Attempts, ServerCommit(i)
  PROVE  IInv'
<1> USE DEF IInv
<1>1. TypeOK'
  BY DEF ServerCommit, TypeOK, Replies, Kinds, Definite, Steps, TxnStates
<1>2. PhaseInv'
  BY DEF ServerCommit, TypeOK, Replies, Kinds, Definite, PhaseInv, NoReply
<1>3. UniqueInv'
  BY DEF ServerCommit, TypeOK, PhaseInv, UniqueInv, Held
<1>4. LookupInv'
  BY DEF ServerCommit, TypeOK, PhaseInv, LookupInv
<1>5. ReplyInv'
  BY DEF ServerCommit, TypeOK, PhaseInv, ReplyInv, Definite
<1> QED  BY <1>1, <1>2, <1>3, <1>4, <1>5

\* An abort only releases a row.
LEMMA ServerAbortPreserves ==
  ASSUME IInv, NEW i \in Attempts, ServerAbort(i)
  PROVE  IInv'
<1> USE DEF IInv
<1>1. TypeOK'
  BY BoundsAssumption DEF ServerAbort, Fault, TypeOK, Replies, Kinds,
         Definite, Steps, TxnStates
<1>2. PhaseInv'
  BY DEF ServerAbort, Fault, TypeOK, Replies, Kinds, Definite, PhaseInv,
         NoReply
<1>3. UniqueInv'
  BY DEF ServerAbort, Fault, TypeOK, PhaseInv, UniqueInv, Held
<1>4. LookupInv'
  BY DEF ServerAbort, Fault, TypeOK, PhaseInv, LookupInv
<1>5. ReplyInv'
  BY DEF ServerAbort, Fault, TypeOK, PhaseInv, ReplyInv, Definite
<1> QED  BY <1>1, <1>2, <1>3, <1>4, <1>5

-----------------------------------------------------------------------------
(* The theorems.                                                           *)

\* Every step of the archive preserves the invariant.
LEMMA NextInv == IInv /\ [Next]_vars => IInv'
<1> SUFFICES ASSUME IInv, [Next]_vars PROVE IInv'
  OBVIOUS
<1>1. CASE UNCHANGED vars
  BY <1>1 DEF vars, IInv, TypeOK, PhaseInv, UniqueInv, LookupInv, ReplyInv, Held
<1>2. CASE Next
  <2> PICK i \in Attempts :
        \/ Execute(i) \/ Step(i)
        \/ DatabaseError(i) \/ OutcomeUnknown(i) \/ ReconcileFails(i) \/ Crash(i)
        \/ ServerCommit(i) \/ ServerAbort(i)
    BY <1>2 DEF Next
  <2>1. CASE Step(i)
    BY <2>1, PreflightPreserves, ProducePreserves,
       ProduceFailsPreserves, LockRetryPreserves, LockRefusedPreserves,
       CheckRetryPreserves, FlushPreserves, FlushRejectedPreserves, SendCommitPreserves,
       CommittedPreserves, CommitRolledBackPreserves, CommitUnclearPreserves,
       HandleIntegrityErrorPreserves, ReconcileUnknownCommitPreserves, ReplayPreserves
       DEF Step
  <2>2. CASE ~ Step(i)
    BY <2>2, ExecutePreserves, DatabaseErrorPreserves, OutcomeUnknownPreserves,
       ReconcileFailsPreserves, CrashPreserves, ServerCommitPreserves, ServerAbortPreserves
  <2> QED  BY <2>1, <2>2
<1> QED  BY <1>1, <1>2

\* The inductive invariant holds in every reachable state, whatever the number
\* of executions, faults, keys and requests.
THEOREM InvariantHolds == Spec => []IInv
BY InitInv, NextInv, PTL DEF Spec

\* Type correctness of the archive.
THEOREM TypeCorrect == Spec => []TypeOK
<1>1. IInv => TypeOK  BY DEF IInv
<1> QED  BY <1>1, InvariantHolds, PTL

\* A caller told that its forecast was not archived is right for ever.
THEOREM FailuresAreFinal == Spec => []FailureIsFinal
<1>1. IInv => FailureIsFinal  BY DEF IInv, ReplyInv, FailureIsFinal
<1> QED  BY <1>1, InvariantHolds, PTL

\* The loser of a unique violation always finds the winner, so the "could not
\* be reconciled" answers of _handle_integrity_error are dead code.
THEOREM ConflictsFindWinners == Spec => []ConflictFindsWinner
<1>1. IInv => ConflictFindsWinner
  <2> SUFFICES ASSUME IInv, NEW i \in Attempts, pc[i] = "lookup"
               PROVE  FindWinner(i) # {}
    BY DEF ConflictFindsWinner
  <2>1. PICK j \in runs : Clash(call[i], call[j])
    BY DEF IInv, LookupInv
  <2>2. call[i] \in Call
    BY DEF IInv, TypeOK, PhaseInv
  <2>3. CASE Scheduled(call[i])
    <3>1. ~ Keyed(call[i])  BY <2>2, <2>3 DEF Call, Scheduled, Keyed
    <3> QED  BY <2>1, <2>3, <3>1 DEF Clash, FindWinner, FindScheduled
  <2>4. CASE ~ Scheduled(call[i])
    BY <2>1, <2>4 DEF Clash, FindWinner, FindRetry
  <2> QED  BY <2>3, <2>4
<1> QED  BY <1>1, InvariantHolds, PTL

\* Successful executions with one key, or for one scheduled opportunity, were
\* all given the same archived forecast.
THEOREM RetriesAgree == Spec => []SameAnswerForRetries
<1>1. IInv => SameAnswerForRetries
  <2> SUFFICES ASSUME IInv, NEW i \in Attempts, NEW j \in Attempts,
                      reply[i].kind = "ok", reply[j].kind = "ok", Clash(call[i], call[j])
               PROVE  reply[i].run = reply[j].run /\ reply[i].run \in runs
    BY DEF SameAnswerForRetries
  <2>1. /\ reply[i].run \in runs /\ call[reply[i].run] = call[i]
        /\ reply[j].run \in runs /\ call[reply[j].run] = call[j]
    BY DEF IInv, ReplyInv
  <2> QED  BY <2>1 DEF IInv, TypeOK, UniqueInv, Held
<1> QED  BY <1>1, InvariantHolds, PTL

\* An answer that the table justifies is a Respond step of the promise.
LEMMA AnswerResponds ==
  ASSUME IInv, NEW i \in Attempts, NEW k \in Kinds \ {"none"}, NEW j \in Attempts \cup {NoRun},
         pc[i] \notin {"start", "done"}, Answer(i, k, j), UNCHANGED <<runs, call>>,
         Promise!Justified(i, [kind |-> k, run |-> j])
  PROVE  Promise!Respond(i)
BY DEF IInv, PhaseInv, Answer, Promise!Respond, Kinds, Promise!Kinds, Definite,
       Promise!Definite, NoRun

\* What replaying a run answers is justified: the run found is stored for the
\* same call, or excludes the attempt's own.
LEMMA ReplayResponds ==
  ASSUME IInv, NEW i \in Attempts, Replay(i)
  PROVE  Promise!Respond(i)
<1> USE DEF IInv
<1>1. pc[i] = "replay" /\ UNCHANGED <<runs, call>>
  BY DEF Replay
<1>2. /\ found[i] \in runs /\ found[i] \in Attempts
      /\ call[i] \in Call /\ call[found[i]] \in Call
      /\ found[i] = i \/ Clash(call[i], call[found[i]])
  BY <1>1 DEF LookupInv, PhaseInv, TypeOK
<1>3. CASE call[found[i]].req = call[i].req
  <2>1. Answer(i, "ok", found[i])
    BY <1>3 DEF Replay
  <2>2. Promise!Justified(i, [kind |-> "ok", run |-> found[i]])
    BY <1>2, <1>3, SameRequestSameCall DEF Promise!Justified, Promise!Definite
  <2> QED  BY <1>1, <1>2, <2>1, <2>2, AnswerResponds DEF Kinds
<1>4. CASE call[found[i]].req # call[i].req
  <2>1. Answer(i, "conflict", NoRun)
    BY <1>4 DEF Replay
  <2>2. i \notin runs
    BY <1>2, <1>4 DEF UniqueInv, Held
  <2>3. Promise!Justified(i, [kind |-> "conflict", run |-> NoRun])
    BY <1>2, <1>4, <2>2 DEF Promise!Justified
  <2> QED  BY <1>1, <2>1, <2>3, AnswerResponds DEF Kinds, Definite
<1> QED  BY <1>3, <1>4

\* The other answers: a success after a confirmed commit, a failure of an
\* attempt that has no run, or an answer that promises nothing.
LEMMA OthersRespond ==
  ASSUME IInv, NEW i \in Attempts, reply' # reply,
         \/ ProduceFails(i) \/ LockRefused(i) \/ FlushRejected(i) \/ Committed(i)
         \/ CommitRolledBack(i) \/ HandleIntegrityError(i) \/ ReconcileUnknownCommit(i)
         \/ DatabaseError(i) \/ ReconcileFails(i) \/ Crash(i)
  PROVE  Promise!Respond(i)
<1> USE DEF IInv, Kinds, Definite
<1>1. CASE Committed(i)
  <2>1. Answer(i, "ok", i) /\ Promise!Justified(i, [kind |-> "ok", run |-> i])
    BY <1>1 DEF Committed, Promise!Justified, Promise!Definite
  <2> QED  BY <1>1, <2>1, AnswerResponds DEF Committed
<1>2. CASE \/ ProduceFails(i) \/ LockRefused(i) \/ FlushRejected(i) \/ CommitRolledBack(i)
           \/ HandleIntegrityError(i) \/ DatabaseError(i)
  <2>1. PICK k \in Definite \ {"conflict"} : Answer(i, k, NoRun)
    BY <1>2 DEF ProduceFails, LockRefused, FlushRejected, CommitRolledBack,
                HandleIntegrityError, DatabaseError
  <2>2. i \notin runs /\ pc[i] \notin {"start", "done"} /\ UNCHANGED <<runs, call>>
    BY <1>2 DEF ProduceFails, LockRefused, FlushRejected, CommitRolledBack,
                HandleIntegrityError, DatabaseError, PhaseInv
  <2>3. Promise!Justified(i, [kind |-> k, run |-> NoRun])
    BY <2>2 DEF Promise!Justified
  <2> QED  BY <2>1, <2>2, <2>3, AnswerResponds
<1>3. CASE ReconcileUnknownCommit(i) \/ ReconcileFails(i) \/ Crash(i)
  <2>1. PICK k \in {"unknown", "lost"} : Answer(i, k, NoRun)
    BY <1>3 DEF ReconcileUnknownCommit, ReconcileFails, Crash
  <2>2. pc[i] \notin {"start", "done"} /\ UNCHANGED <<runs, call>>
    BY <1>3 DEF ReconcileUnknownCommit, ReconcileFails, Crash
  <2>3. Promise!Justified(i, [kind |-> k, run |-> NoRun])
    BY DEF Promise!Justified, Promise!Definite
  <2> QED  BY <2>1, <2>2, <2>3, AnswerResponds
<1> QED  BY <1>1, <1>2, <1>3

\* No answer of the archive is ever contradicted.
THEOREM AnswersStay == Spec => []AnswersHold
BY FailuresAreFinal, RetriesAgree, ConflictsFindWinners, PTL DEF AnswersHold

\* The archive keeps its promise: every execution of the transactional archive
\* is one of IdempotentArchive, whose runs, calls and answers are the archive's
\* own.  A call is an Invoke, the commit that reaches the table is a Store, every
\* answer is a Respond, and all other steps are invisible to callers.
THEOREM ArchiveKeepsPromise == Spec => KeepsPromise
<1>1. Init => Promise!Init
  BY DEF Init, Promise!Init, NoReply, Promise!NoReply, NoRun
<1>2. IInv /\ [Next]_vars => [Promise!Next]_(Promise!vars)
  <2> SUFFICES ASSUME IInv, [Next]_vars, ~ UNCHANGED <<runs, call, reply>>
               PROVE  Promise!Next
    BY DEF Promise!vars
  <2> PICK i \in Attempts :
        \/ Execute(i) \/ Step(i)
        \/ DatabaseError(i) \/ OutcomeUnknown(i) \/ ReconcileFails(i) \/ Crash(i)
        \/ ServerCommit(i) \/ ServerAbort(i)
    BY DEF Next, vars
  <2>1. CASE Execute(i)
    <3>1. Promise!Invoke(i)
      BY <2>1, AskedIsCall DEF Execute, Promise!Invoke, IInv, PhaseInv
    <3> QED  BY <3>1 DEF Promise!Next
  <2>2. CASE ServerCommit(i)
    <3>1. Promise!Store(i)
      BY <2>2 DEF ServerCommit, Promise!Store, Definite, Promise!Definite,
                  IInv, PhaseInv, ReplyInv, UniqueInv, Held, TypeOK
    <3> QED  BY <3>1 DEF Promise!Next
  <2>3. CASE Replay(i)
    BY <2>3, ReplayResponds DEF Promise!Next
  <2>4. CASE \/ ProduceFails(i) \/ LockRefused(i) \/ FlushRejected(i) \/ Committed(i)
             \/ CommitRolledBack(i) \/ HandleIntegrityError(i) \/ ReconcileUnknownCommit(i)
             \/ DatabaseError(i) \/ ReconcileFails(i) \/ Crash(i)
    <3>1. reply' # reply
      BY <2>4 DEF ProduceFails, LockRefused, FlushRejected, Committed, CommitRolledBack,
                  HandleIntegrityError, ReconcileUnknownCommit, DatabaseError, ReconcileFails, Crash
    <3> QED  BY <2>4, <3>1, OthersRespond DEF Promise!Next
  <2>5. CASE \/ Preflight(i) \/ Produce(i) \/ LockRetry(i) \/ CheckRetry(i) \/ Flush(i)
             \/ SendCommit(i) \/ CommitUnclear(i) \/ OutcomeUnknown(i) \/ ServerAbort(i)
    BY <2>5 DEF Preflight, Produce, LockRetry, CheckRetry, Flush, SendCommit, CommitUnclear,
                OutcomeUnknown, ServerAbort
  <2> QED  BY <2>1, <2>2, <2>3, <2>4, <2>5 DEF Step
<1> QED  BY <1>1, <1>2, InvariantHolds, PTL DEF Spec, KeepsPromise, Promise!Spec
=============================================================================
