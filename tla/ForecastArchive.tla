--------------------------- MODULE ForecastArchive ---------------------------
(***************************************************************************)
(* The forecast-run archive (app/services/forecast_run_store.py).  API     *)
(* calls and scheduled evaluations execute forecasts that must be stored   *)
(* at most once per idempotency key, respectively per scheduled            *)
(* opportunity, although the forecast is computed outside any transaction  *)
(* and a commit may be lost, answered late or never answered.              *)
(*                                                                         *)
(* Every execution is an attempt of its own, a client's retry included.    *)
(* An attempt's number is also the forecast id it computes and the name of *)
(* its transaction, which lives on in the server when the connection is    *)
(* lost.                                                                   *)
(***************************************************************************)
EXTENDS Integers, FiniteSets

CONSTANTS
  MaxAttempts,     \* bound: executions, all of which may be concurrent
  MaxFaults,       \* bound: database faults and process crashes
  Origins,         \* the kinds of caller: "api", "scheduled"
  Keys,            \* idempotency digests
  Requests,        \* canonical requests
  Opportunity(_),  \* the opportunity hash of a request's forecast
  Asked(_),        \* what an attempt may be asked for
  NoKey, NoCall

Attempts == 1..MaxAttempts
NoRun    == 0

\* Only the API passes an idempotency key; it need not.
Call == {q \in [origin: Origins, key: Keys \cup {NoKey}, req: Requests] :
           q.origin = "scheduled" => q.key = NoKey}

ASSUME BoundsAssumption ==
  /\ MaxAttempts \in Nat /\ MaxFaults \in Nat
  /\ Origins \subseteq {"api", "scheduled"}
  /\ NoKey \notin Keys /\ NoCall \notin Call
  /\ \A i \in Attempts : Asked(i) \subseteq Call

VARIABLES
  runs,    \* the committed rows of forecast_runs, by id; an id's row is its call
  txn,     \* server side: the state of each attempt's transaction
  pc,      \* client side: the control state of each execute()
  call,    \* what each attempt was asked for
  found,   \* the run a lookup returned
  reply,   \* the answer of each attempt
  faults

vars == <<runs, txn, pc, call, found, reply, faults>>

Definite  == {"conflict", "in_progress", "unavailable", "rejected"}
Kinds     == {"none", "ok", "lost", "unknown"} \cup Definite
Replies   == [kind: {"ok"}, run: Attempts] \cup [kind: Kinds \ {"ok"}, run: {NoRun}]
NoReply   == [kind |-> "none", run |-> NoRun]
TxnStates == {"none", "open", "inserted", "committing", "doomed"}
Steps     == {"start", "preflight", "produce", "candidate", "check", "flush", "flushed",
              "committing", "lookup", "reconcile", "replay", "done"}

TypeOK ==
  /\ runs \subseteq Attempts
  /\ txn \in [Attempts -> TxnStates]
  /\ pc \in [Attempts -> Steps]
  /\ call \in [Attempts -> Call \cup {NoCall}]
  /\ found \in [Attempts -> Attempts \cup {NoRun}]
  /\ reply \in [Attempts -> Replies]
  /\ faults \in 0..MaxFaults

Init ==
  /\ runs = {}
  /\ txn = [i \in Attempts |-> "none"]
  /\ pc = [i \in Attempts |-> "start"]
  /\ call = [i \in Attempts |-> NoCall]
  /\ found = [i \in Attempts |-> NoRun]
  /\ reply = [i \in Attempts |-> NoReply]
  /\ faults = 0

-----------------------------------------------------------------------------
(* The table and its lookups.                                              *)

Keyed(q)     == q.key # NoKey
Scheduled(q) == q.origin = "scheduled"

\* uq_forecast_runs_idempotency_token_digest, and the partial unique index
\* uq_forecast_runs_scheduled_opportunity.
Clash(p, q) ==
  \/ Keyed(p) /\ p.key = q.key
  \/ Scheduled(p) /\ Scheduled(q) /\ Opportunity(p.req) = Opportunity(q.req)

\* _find_retry and _find_forecast.
FindRetry(k)    == {j \in runs : call[j].key = k}
FindForecast(i) == runs \cap {i}

\* _find_scheduled_opportunity.
FindScheduled(r) == {j \in runs : Scheduled(call[j]) /\ Opportunity(call[j].req) = Opportunity(r)}

\* The run that took the key or the opportunity of attempt i.
FindWinner(i) == IF Scheduled(call[i]) THEN FindScheduled(call[i].req) ELSE FindRetry(call[i].key)

\* Where _reconcile_unknown_commit looks.
FindOutcome(i) == IF Scheduled(call[i]) \/ Keyed(call[i]) THEN FindWinner(i) ELSE FindForecast(i)

Goto(i, step) == pc' = [pc EXCEPT ![i] = step]

\* A lookup returned rows: replay the one there is.
Found(i, rows) == Goto(i, "replay") /\ \E j \in rows : found' = [found EXCEPT ![i] = j]

\* execute() returns or raises.
Answer(i, kind, run) ==
  /\ reply' = [reply EXCEPT ![i] = [kind |-> kind, run |-> run]]
  /\ Goto(i, "done")

\* A transaction holds the advisory lock of its key until it ends.
LockBusy(k) == \E j \in Attempts : txn[j] # "none" /\ call[j].key = k

Fault == faults < MaxFaults /\ faults' = faults + 1

-----------------------------------------------------------------------------
(* execute().                                                              *)

Execute(i) ==
  /\ pc[i] = "start"
  /\ \A j \in 1..(i - 1) : pc[j] # "start"
  /\ \E q \in Asked(i) :
       /\ call' = [call EXCEPT ![i] = q]
       /\ Goto(i, IF Keyed(q) THEN "preflight" ELSE "produce")
  /\ UNCHANGED <<runs, txn, found, reply, faults>>

\* _preflight_retry: a read without the lock.
Preflight(i) ==
  /\ pc[i] = "preflight"
  /\ LET rows == FindRetry(call[i].key) IN
     IF rows = {} THEN Goto(i, "produce") /\ UNCHANGED found ELSE Found(i, rows)
  /\ UNCHANGED <<runs, txn, call, reply, faults>>

\* The producer, the completion time and the finalized row, with no
\* transaction open.
Produce(i) ==
  /\ pc[i] = "produce"
  /\ Goto(i, "candidate")
  /\ UNCHANGED <<runs, txn, call, found, reply, faults>>

\* The producer refuses, the row does not validate or the clock is invalid.
ProduceFails(i) ==
  /\ pc[i] = "produce"
  /\ Answer(i, "rejected", NoRun)
  /\ UNCHANGED <<runs, txn, call, found, faults>>

\* The transaction begins; _lock_retry tries the advisory lock of the key.
LockRetry(i) ==
  /\ pc[i] = "candidate"
  /\ Keyed(call[i]) => ~ LockBusy(call[i].key)
  /\ txn' = [txn EXCEPT ![i] = "open"]
  /\ Goto(i, IF Keyed(call[i]) THEN "check" ELSE "flush")
  /\ UNCHANGED <<runs, call, found, reply, faults>>

LockRefused(i) ==
  /\ pc[i] = "candidate"
  /\ Keyed(call[i]) /\ LockBusy(call[i].key)
  /\ Answer(i, "in_progress", NoRun)
  /\ UNCHANGED <<runs, txn, call, found, faults>>

\* _find_retry again, under the lock; when it finds a row the transaction
\* commits without having written anything.
CheckRetry(i) ==
  /\ pc[i] = "check"
  /\ LET rows == FindRetry(call[i].key) IN
     IF rows = {} THEN Goto(i, "flush") /\ UNCHANGED <<txn, found>>
     ELSE Found(i, rows) /\ txn' = [txn EXCEPT ![i] = "none"]
  /\ UNCHANGED <<runs, call, reply, faults>>

\* The INSERT waits for transactions that have inserted a clashing row, and
\* fails if a clashing row has been committed.
Flush(i) ==
  /\ pc[i] = "flush"
  /\ \A j \in Attempts \ {i} :
       txn[j] \in {"inserted", "committing", "doomed"} => ~ Clash(call[i], call[j])
  /\ IF \E j \in runs : Clash(call[i], call[j])
     THEN txn' = [txn EXCEPT ![i] = "doomed"] /\ Goto(i, "lookup")
     ELSE txn' = [txn EXCEPT ![i] = "inserted"] /\ Goto(i, "flushed")
  /\ UNCHANGED <<runs, call, found, reply, faults>>

\* A foreign-key, time-order or other integrity error, or a bad configuration.
\* The transaction is rolled back (ServerAbort), perhaps after the answer.
FlushRejected(i) ==
  /\ pc[i] = "flush"
  /\ txn' = [txn EXCEPT ![i] = "doomed"]
  /\ Answer(i, "rejected", NoRun)
  /\ UNCHANGED <<runs, call, found, faults>>

SendCommit(i) ==
  /\ pc[i] = "flushed"
  /\ txn' = [txn EXCEPT ![i] = "committing"]
  /\ Goto(i, "committing")
  /\ UNCHANGED <<runs, call, found, reply, faults>>

Committed(i) ==
  /\ pc[i] = "committing"
  /\ i \in runs
  /\ Answer(i, "ok", i)
  /\ UNCHANGED <<runs, txn, call, found, faults>>

\* COMMIT reports a rollback: as a known one (SQLSTATE class 40 or a cancelled
\* statement), or in a form _commit_candidate cannot classify.
CommitRolledBack(i) ==
  /\ pc[i] = "committing"
  /\ txn[i] = "none" /\ i \notin runs
  /\ Answer(i, "unavailable", NoRun)
  /\ UNCHANGED <<runs, txn, call, found, faults>>

CommitUnclear(i) ==
  /\ pc[i] = "committing"
  /\ txn[i] = "none" /\ i \notin runs
  /\ Goto(i, "reconcile")
  /\ UNCHANGED <<runs, txn, call, found, reply, faults>>

\* _handle_integrity_error: look the winner up, by opportunity or by key.
HandleIntegrityError(i) ==
  /\ pc[i] = "lookup"
  /\ IF FindWinner(i) = {} THEN Answer(i, "unavailable", NoRun) /\ UNCHANGED found
     ELSE Found(i, FindWinner(i)) /\ UNCHANGED reply
  /\ UNCHANGED <<runs, txn, call, faults>>

\* Mutant: poll until the commit shows up.
ReconcileUnknownCommit_Polls(i) ==
  /\ pc[i] = "reconcile"
  /\ FindOutcome(i) # {} /\ Found(i, FindOutcome(i))
  /\ UNCHANGED <<runs, txn, call, reply, faults>>

\* _reconcile_unknown_commit.
ReconcileUnknownCommit(i) ==
  /\ pc[i] = "reconcile"
  /\ IF FindOutcome(i) = {} THEN Answer(i, "unknown", NoRun) /\ UNCHANGED found
     ELSE Found(i, FindOutcome(i)) /\ UNCHANGED reply
  /\ UNCHANGED <<runs, txn, call, faults>>

\* Mutant: a retry key replays whatever it finds.
Replay_AnyRequest(i) ==
  /\ pc[i] = "replay"
  /\ Answer(i, "ok", found[i])
  /\ UNCHANGED <<runs, txn, call, found, faults>>

\* _replay and _replay_scheduled: the stored run, if it is for this request.
Replay(i) ==
  /\ pc[i] = "replay"
  /\ IF call[found[i]].req = call[i].req THEN Answer(i, "ok", found[i])
     ELSE Answer(i, "conflict", NoRun)
  /\ UNCHANGED <<runs, txn, call, found, faults>>

-----------------------------------------------------------------------------
(* Faults.                                                                 *)

\* Losing a client before COMMIT was sent dooms its transaction.
Doomed(i) == IF txn[i] \in {"open", "inserted"} THEN [txn EXCEPT ![i] = "doomed"] ELSE txn

\* A database error with nothing flushed yet: the transaction is gone.
DatabaseError(i) ==
  /\ pc[i] \in {"preflight", "produce", "candidate", "check", "flush", "lookup"}
  /\ Fault
  /\ txn' = Doomed(i)
  /\ Answer(i, "unavailable", NoRun)
  /\ UNCHANGED <<runs, call, found>>

\* Mutant: an error during COMMIT is taken for a rollback.
OutcomeUnknown_AsRollback(i) ==
  /\ pc[i] \in {"candidate", "check", "flush", "flushed", "committing"}
  /\ Fault
  /\ txn' = Doomed(i)
  /\ Answer(i, "unavailable", NoRun)
  /\ UNCHANGED <<runs, call, found>>

\* SQLSTATE 40003 from any statement, or any unclassified error after the flush:
\* the outcome has to be looked up.
OutcomeUnknown(i) ==
  /\ pc[i] \in {"candidate", "check", "flush", "flushed", "committing"}
  /\ Fault
  /\ txn' = Doomed(i)
  /\ Goto(i, "reconcile")
  /\ UNCHANGED <<runs, call, found, reply>>

\* The reconciling read fails too; a call reads once, which needs no bound.
ReconcileFails(i) ==
  /\ pc[i] = "reconcile"
  /\ Answer(i, "unknown", NoRun)
  /\ UNCHANGED <<runs, txn, call, found, faults>>

\* The API process dies and its caller hears nothing.
Crash(i) ==
  /\ pc[i] \notin {"start", "done"}
  /\ Fault
  /\ txn' = Doomed(i)
  /\ Answer(i, "lost", NoRun)
  /\ UNCHANGED <<runs, call, found>>

\* PostgreSQL: a commit it has received takes effect or not, whoever still
\* waits for it; a doomed transaction is rolled back.
ServerCommit(i) ==
  /\ txn[i] = "committing"
  /\ runs' = runs \cup {i}
  /\ txn' = [txn EXCEPT ![i] = "none"]
  /\ UNCHANGED <<pc, call, found, reply, faults>>

ServerAbort(i) ==
  /\ \/ txn[i] = "doomed" /\ UNCHANGED faults
     \/ txn[i] = "committing" /\ Fault
  /\ txn' = [txn EXCEPT ![i] = "none"]
  /\ UNCHANGED <<runs, pc, call, found, reply>>

Step(i) ==
  \/ Preflight(i) \/ Produce(i) \/ ProduceFails(i) \/ LockRetry(i) \/ LockRefused(i)
  \/ CheckRetry(i) \/ Flush(i) \/ FlushRejected(i) \/ SendCommit(i) \/ Committed(i)
  \/ CommitRolledBack(i) \/ CommitUnclear(i)
  \/ HandleIntegrityError(i) \/ ReconcileUnknownCommit(i) \/ Replay(i)

Next == \E i \in Attempts :
  \/ Execute(i) \/ Step(i)
  \/ DatabaseError(i) \/ OutcomeUnknown(i) \/ ReconcileFails(i) \/ Crash(i)
  \/ ServerCommit(i) \/ ServerAbort(i)

Spec == Init /\ [][Next]_vars

\* The event loop runs every request on; PostgreSQL ends every transaction
\* whose COMMIT it has received or whose client is gone.
Fairness == \A i \in Attempts : WF_vars(Step(i)) /\ WF_vars(ServerCommit(i) \/ ServerAbort(i))

FairSpec == Spec /\ Fairness

-----------------------------------------------------------------------------
(* Properties.                                                             *)

\* A caller told that its forecast was not archived (unavailable, in progress,
\* conflict, rejected) is right for ever: whenever the commit may have happened
\* or may still happen the answer is "unknown" or a replay (the 40003 and
\* flushed branches of _commit_candidate).
FailureIsFinal ==
  \A i \in Attempts : reply[i].kind \in Definite => i \notin runs /\ txn[i] # "committing"

\* A unique violation always has a winner to replay: the "could not be
\* reconciled" answers of _handle_integrity_error are unreachable.
ConflictFindsWinner == \A i \in Attempts : pc[i] = "lookup" => FindWinner(i) # {}

\* Two successful executions with one idempotency key, or for one scheduled
\* opportunity, were given the same forecast, which is still in the archive.
SameAnswerForRetries ==
  \A i, j \in Attempts :
    reply[i].kind = "ok" /\ reply[j].kind = "ok" /\ Clash(call[i], call[j])
      => reply[i].run = reply[j].run /\ reply[i].run \in runs

\* No answer, of success or of failure, is ever contradicted by the archive,
\* and an attempt that was beaten to its key always has a winner to answer with.
AnswersHold == FailureIsFinal /\ SameAnswerForRetries /\ ConflictFindsWinner

\* Every execution is answered, although INSERTs wait for other transactions
\* and commits may be lost: from some time on none is under way.
AttemptAnswered == <>[](\A i \in Attempts : pc[i] \in {"start", "done"})

\* The archive keeps its promise (IdempotentArchive): one run per key and per
\* scheduled opportunity, and no answer that contradicts the table.
Promise == INSTANCE IdempotentArchive WITH
             Attempts <- Attempts, Call <- Call, NoCall <- NoCall, Clash <- Clash,
             runs <- runs, call <- call, reply <- reply
KeepsPromise == Promise!Spec
=============================================================================
