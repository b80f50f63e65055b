--------------------------- MODULE PolicyRegistry ---------------------------
(***************************************************************************)
(* Registration of outcome policies and selection policies                 *)
(* (forecast_outcome_policy_store.py, forecast_selection_policy_store.py,  *)
(* forecast_selection_policies.py and migrations 0010 and 0016).  Both     *)
(* stores run the same protocol: look, insert in one transaction under the *)
(* content hash as primary key, read back, and reconcile by reading when a *)
(* duplicate key or an unknown commit leaves the outcome open.             *)
(*                                                                         *)
(* A policy is identified by its content and stands for its hash.  Clients *)
(* of this module register; the clients of Calibration that publish have   *)
(* no policy to register.                                                  *)
(***************************************************************************)
EXTENDS Integers, FiniteSets

CONSTANTS
  MaxClients,         \* bound: concurrent callers, each making one call
  MaxFaults,          \* bound: database faults and client crashes
  OutcomePolicies,    \* records [lag]
  SelectionPolicies,  \* records [epoch, lag, fit, heldout, lead, steps]
  MinimumSealLead,    \* MINIMUM_SEAL_LEAD_SECONDS
  Founded,            \* the sets of policies that may have been registered before
  NoPolicy            \* what a client without a policy registers

Clients  == 1..MaxClients
NoOne    == 0
Earlier  == MaxClients + 1   \* whoever registered a policy before
Creators == Clients \cup {NoOne, Earlier}
Policies == OutcomePolicies \cup SelectionPolicies

ASSUME RegistryAssumption ==
  /\ MaxClients \in Nat /\ MaxFaults \in Nat /\ NoPolicy \notin Policies
  /\ OutcomePolicies \cap SelectionPolicies = {}
  /\ \A q \in SelectionPolicies :
       q.epoch \in OutcomePolicies /\ q.fit \in Int \X Int /\ q.heldout \in Int \X Int

VARIABLES
  creator,   \* the client whose transaction registered a policy, or NoOne
  asked,     \* the policy each client registers
  regStep,   \* client side: the control state of each register()
  regTxn,    \* server side: the transaction of each registration
  regReply,  \* the answer of each registration
  faults

registration == <<asked, regStep, regTxn, regReply>>

TxnStates == {"none", "open", "inserted", "committing", "doomed"}
RegSteps  == {"start", "preflight", "reread", "insert", "commit", "wait",
              "committed", "race", "reconcile", "done"}
RegKinds  == {"none", "ok", "invalid", "integrity", "unavailable", "write_conflict",
              "commit_unknown", "lost"}

RegistryTypeOK ==
  /\ creator \in [Policies -> Creators]
  /\ asked \in [Clients -> Policies \cup {NoPolicy}]
  /\ regStep \in [Clients -> RegSteps]
  /\ regTxn \in [Clients -> TxnStates]
  /\ regReply \in [Clients -> [kind: RegKinds, by: Creators]]
  /\ faults \in 0..MaxFaults

Registered(q) == creator[q] # NoOne

-----------------------------------------------------------------------------
(* Policies.                                                               *)

\* The fit window ends before the held-out window begins.
WindowsOrdered(q) ==
  q.fit[1] <= q.fit[2] /\ q.fit[2] < q.heldout[1] /\ q.heldout[1] <= q.heldout[2]

StudySupported(q) == q.steps # {} /\ q.lead >= MinimumSealLead

EpochBounded(q) == q.lag > 0

\* _validate_policy, and again the trigger and the table: the stores refuse
\* what the table would refuse.
ValidPolicy(q) ==
  q \in SelectionPolicies => WindowsOrdered(q) /\ StudySupported(q) /\ EpochBounded(q)

\* The purpose a policy gives to a target: purpose_for_target_time.
PurposeOf(q, target) ==
  IF target \in q.fit[1]..q.fit[2] THEN "calibration_fit"
  ELSE IF target \in q.heldout[1]..q.heldout[2] THEN "heldout_evaluation"
  ELSE "none"

\* stamp_forecast_selection_policy: the outcome-policy epoch has been
\* registered, with the same lag.
EpochRegistered(q) ==
  q \in SelectionPolicies => Registered(q.epoch) /\ q.epoch.lag = q.lag

-----------------------------------------------------------------------------
RegGoto(r, step) == regStep' = [regStep EXCEPT ![r] = step]

RegReply(r, kind, by) ==
  /\ regReply' = [regReply EXCEPT ![r] = [kind |-> kind, by |-> by]]
  /\ RegGoto(r, "done")

\* The row of a lost transaction stays in the way until the server ends it.
RegDoomed(r) ==
  CASE regTxn[r] = "inserted" -> [regTxn EXCEPT ![r] = "doomed"]
    [] regTxn[r] = "open"     -> [regTxn EXCEPT ![r] = "none"]
    [] OTHER                  -> regTxn

RegFail(r, kind) == RegReply(r, kind, NoOne) /\ regTxn' = RegDoomed(r)

\* _exact: the registration found is the proof.
Found(r) == RegReply(r, "ok", creator[asked[r]])

Fault == faults < MaxFaults /\ faults' = faults + 1

\* _prepare: the policy agrees with its canonical bytes, or 422.
Register(r) ==
  /\ regStep[r] = "start" /\ asked[r] # NoPolicy
  /\ IF ValidPolicy(asked[r]) THEN RegGoto(r, "preflight") /\ UNCHANGED regReply
     ELSE RegReply(r, "invalid", NoOne)
  /\ UNCHANGED <<creator, asked, regTxn, faults>>

\* Another client of the database may call the function without the store.
RegisterDirectly(r) ==
  /\ regStep[r] = "start" /\ asked[r] # NoPolicy
  /\ RegGoto(r, "insert")
  /\ regTxn' = [regTxn EXCEPT ![r] = "open"]
  /\ UNCHANGED <<creator, asked, regReply, faults>>

\* _preflight, without a transaction of its own.
Preflight(r) ==
  /\ regStep[r] = "preflight"
  /\ IF Registered(asked[r]) THEN Found(r) /\ UNCHANGED regTxn
     ELSE /\ RegGoto(r, "reread") /\ regTxn' = [regTxn EXCEPT ![r] = "open"]
          /\ UNCHANGED regReply
  /\ UNCHANGED <<creator, asked, faults>>

\* _commit looks again inside the transaction.
Reread(r) ==
  /\ regStep[r] = "reread"
  /\ IF Registered(asked[r]) THEN Found(r) /\ regTxn' = [regTxn EXCEPT ![r] = "none"]
     ELSE RegGoto(r, "insert") /\ UNCHANGED <<regReply, regTxn>>
  /\ UNCHANGED <<creator, asked, faults>>

\* Registrations whose uncommitted row is in r's way.
Ahead(r) ==
  {s \in Clients \ {r} : asked[s] = asked[r] /\ regTxn[s] \in {"inserted", "committing", "doomed"}}

\* Mutant: the trigger does not look for the epoch.
InsertPolicy_AnyEpoch(r) ==
  /\ regStep[r] = "insert"
  /\ IF ~ ValidPolicy(asked[r]) THEN RegFail(r, "integrity")
     ELSE /\ Ahead(r) = {}
          /\ IF Registered(asked[r]) THEN RegGoto(r, "race") /\ regTxn' = RegDoomed(r)
             ELSE RegGoto(r, "commit") /\ regTxn' = [regTxn EXCEPT ![r] = "inserted"]
          /\ UNCHANGED regReply
  /\ UNCHANGED <<creator, asked, faults>>

\* The trigger validates document and epoch; then the primary key waits for an
\* unfinished insert of the same policy and fails if one has been committed.
InsertPolicy(r) ==
  /\ regStep[r] = "insert"
  /\ IF ~ ValidPolicy(asked[r]) \/ ~ EpochRegistered(asked[r]) THEN RegFail(r, "integrity")
     ELSE /\ Ahead(r) = {}
          /\ IF Registered(asked[r]) THEN RegGoto(r, "race") /\ regTxn' = RegDoomed(r)
             ELSE RegGoto(r, "commit") /\ regTxn' = [regTxn EXCEPT ![r] = "inserted"]
          /\ UNCHANGED regReply
  /\ UNCHANGED <<creator, asked, faults>>

\* commit_pending, and COMMIT.
CommitPolicy(r) ==
  /\ regStep[r] = "commit"
  /\ regTxn' = [regTxn EXCEPT ![r] = "committing"]
  /\ RegGoto(r, "wait")
  /\ UNCHANGED <<creator, asked, regReply, faults>>

\* Mutant: a registration that cannot tell claims the policy as its own.
Reconcile_Claims(r) ==
  /\ regStep[r] \in {"committed", "race", "reconcile"}
  /\ RegReply(r, "ok", r)
  /\ UNCHANGED <<creator, asked, regTxn, faults>>

\* What an absent row means: to _read_committed, after a race, or after an
\* unknown commit.
AbsentKind(r) ==
  CASE regStep[r] = "committed" -> "unavailable"
    [] regStep[r] = "race"      -> "write_conflict"
    [] regStep[r] = "reconcile" -> "commit_unknown"

\* _read_committed and _try_reconcile.
Reconcile(r) ==
  /\ regStep[r] \in {"committed", "race", "reconcile"}
  /\ IF Registered(asked[r]) THEN Found(r) ELSE RegReply(r, AbsentKind(r), NoOne)
  /\ UNCHANGED <<creator, asked, regTxn, faults>>

-----------------------------------------------------------------------------
(* Faults and the server.                                                  *)

\* A database error or a pool timeout, with no commit pending.
RegDatabaseError(r) ==
  /\ regStep[r] \in {"preflight", "reread", "insert", "commit"}
  /\ Fault
  /\ RegFail(r, "unavailable")
  /\ UNCHANGED <<creator, asked>>

\* SQLSTATE 40003, or the connection is lost with the commit pending.
RegOutcomeUnknown(r) ==
  /\ regStep[r] \in {"reread", "insert", "commit", "wait"}
  /\ Fault
  /\ regTxn' = RegDoomed(r)
  /\ RegGoto(r, "reconcile")
  /\ UNCHANGED <<creator, asked, regReply>>

\* _read_committed answers an error, _try_reconcile swallows it.
ReconcileFails(r) ==
  /\ regStep[r] \in {"committed", "race", "reconcile"}
  /\ Fault
  /\ RegReply(r, AbsentKind(r), NoOne)
  /\ UNCHANGED <<creator, asked, regTxn>>

RegCrash(r) ==
  /\ regStep[r] \notin {"start", "done"}
  /\ Fault
  /\ RegFail(r, "lost")
  /\ UNCHANGED <<creator, asked>>

RegServerCommit(r) ==
  /\ regTxn[r] = "committing"
  /\ creator' = [creator EXCEPT ![asked[r]] = r]
  /\ regTxn' = [regTxn EXCEPT ![r] = "none"]
  /\ regStep' = IF regStep[r] = "wait" THEN [regStep EXCEPT ![r] = "committed"] ELSE regStep
  /\ UNCHANGED <<asked, regReply, faults>>

\* A refused COMMIT is a known rollback.
RegServerAbort(r) ==
  /\ \/ regTxn[r] = "doomed" /\ UNCHANGED <<regStep, regReply, faults>>
     \/ /\ regTxn[r] = "committing" /\ Fault
        /\ IF regStep[r] = "wait" THEN RegReply(r, "unavailable", NoOne)
           ELSE UNCHANGED <<regStep, regReply>>
  /\ regTxn' = [regTxn EXCEPT ![r] = "none"]
  /\ UNCHANGED <<creator, asked>>

RegClientStep(r) ==
  \/ Register(r) \/ Preflight(r) \/ Reread(r) \/ InsertPolicy(r)
  \/ CommitPolicy(r) \/ Reconcile(r)

RegistryStep(r) ==
  \/ RegClientStep(r) \/ RegisterDirectly(r)
  \/ RegDatabaseError(r) \/ RegOutcomeUnknown(r) \/ ReconcileFails(r) \/ RegCrash(r)
  \/ RegServerCommit(r) \/ RegServerAbort(r)

\* Policies may have been registered before, each after its epoch.
RegistryInit ==
  /\ \E S \in Founded : creator = [q \in Policies |-> IF q \in S THEN Earlier ELSE NoOne]
  /\ \A q \in Policies : Registered(q) => ValidPolicy(q) /\ EpochRegistered(q)
  /\ asked \in [Clients -> Policies \cup {NoPolicy}]
  /\ regStep = [r \in Clients |-> "start"]
  /\ regTxn = [r \in Clients |-> "none"]
  /\ regReply = [r \in Clients |-> [kind |-> "none", by |-> NoOne]]
  /\ faults = 0
-----------------------------------------------------------------------------
\* However many clients register one policy at once, and whatever was lost on
\* the way, one registration exists and every proof names it; and a registered
\* policy rests on a registered epoch with its lag and gives no day two
\* purposes (register() of both stores, stamp_forecast_selection_policy).
RegistryHolds ==
  /\ \A r \in Clients : regReply[r].kind = "ok" =>
       Registered(asked[r]) /\ regReply[r].by = creator[asked[r]]
  /\ \A q \in SelectionPolicies : Registered(q) =>
       /\ EpochRegistered(q)
       /\ (q.fit[1]..q.fit[2]) \cap (q.heldout[1]..q.heldout[2]) = {}
=============================================================================
