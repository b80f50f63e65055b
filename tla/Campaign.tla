------------------------------ MODULE Campaign ------------------------------
(***************************************************************************)
(* The vendor acquisition campaign: operators run scripts that spend       *)
(* vendor calls, and every authorization, reservation and outcome is an    *)
(* fsynced line of an append-only file whose digest is anchored in the     *)
(* database before the next step (src/scripts/vendor_acquisition.py, the   *)
(* campaign store, migration 0014).  The older backfill script shares the  *)
(* vendor lock and the price evidence but keeps a ledger of its own, with  *)
(* no anchor (src/scripts/vendor_backfill.py).                             *)
(*                                                                         *)
(* A digest of a ledger is the ledger itself, so two digests are equal     *)
(* when the ledgers are.  What can go wrong: a process dies between two    *)
(* steps or inside an append; the connection that holds the vendor lock    *)
(* dies while the operation goes on; a publication's reply is lost and its *)
(* transaction commits late; the file is restored from an older copy; the  *)
(* vendor call fails with or without having stored its content.            *)
(***************************************************************************)
EXTENDS Integers, Sequences, FiniteSets

CONSTANTS
  Operators,    \* processes running the scripts
  Actions,      \* split and dividend pages
  Prices,       \* open-close calls, one per session
  Windows,      \* Windows[d]: the calls of the window that ends at session d
  FirstLimit,   \* MAX_AUTHORIZED_CALLS
  Recovery,     \* MAX_RECOVERY_CALLS
  TotalLimit,   \* ABSOLUTE_MAX_CAMPAIGN_CALLS
  MaxGrants,    \* bound: authorizations p obtains, MaxGrants[legacy][p]
  MaxFaults,    \* bound: faults of every kind
  None

Calls == Actions \cup Prices
Days == DOMAIN Windows
Lanes == {"acquisition", "backfill"}
Elements(l) == {l[i] : i \in DOMAIN l}

ASSUME CampaignAssumption ==
  /\ None \notin Operators \cup Actions \cup Prices
  /\ IsFiniteSet(Operators)
  /\ Windows \in Seq(Seq(Calls)) /\ Windows # <<>>
  /\ \A d \in Days : \A i, j \in DOMAIN Windows[d] :
       Windows[d][i] = Windows[d][j] => i = j
  /\ FirstLimit \in Nat /\ Recovery \in Nat /\ TotalLimit \in Nat
  /\ MaxGrants \in [SUBSET Operators -> [Operators -> Nat]] /\ MaxFaults \in Nat

VARIABLES
  file,      \* [Lanes -> Seq(record)]: the two attempt ledgers on disk
  torn,      \* [Lanes -> BOOLEAN]: the last line was cut by a crash
  anchor,    \* the ledger the newest high-water row is the digest of
  mark,      \* [Days -> the ledger of that campaign's newest row]
  floating,  \* publications given up by their client, not yet decided
  evidence,  \* [Calls -> {"none", "unreceipted", "complete"}]
  lock,      \* the operator whose connection holds the vendor lock
  day,       \* the latest completed session
  op,        \* [Operators -> what the process is doing]
  grants,    \* [Operators -> authorizations begun]
  vendor,    \* HTTP requests admitted so far, in order
  faults,    \* faults so far
  lockLost,  \* the lock was lost under a running operation
  restored,  \* the acquisition ledger was replaced by an older copy
  legacy     \* the operators that run vendor_backfill, fixed at the start

campaignVars == <<file, torn, anchor, mark, floating, evidence, lock, day, op, grants,
          vendor, faults, lockLost, restored, legacy>>

Lane(p) == IF p \in legacy THEN "backfill" ELSE "acquisition"

-----------------------------------------------------------------------------
(* Reading a ledger. *)

OfWindow(l, w) == {i \in DOMAIN l : l[i].window = w}
OfType(l, w, t) == {i \in OfWindow(l, w) : l[i].type = t}

\* The cumulative state of one campaign: the first header's base, the last
\* header's authorized total, one reservation per attempt.
Headers(l, w) == OfType(l, w, "authorization")
Least(S) == CHOOSE i \in S : \A j \in S : i <= j
Greatest(S) == CHOOSE i \in S : \A j \in S : j <= i
Base(l, w) == IF Headers(l, w) = {} THEN 0 ELSE l[Least(Headers(l, w))].base
Authorized(l, w) ==
  IF Headers(l, w) = {} THEN 0 ELSE l[Greatest(Headers(l, w))].authorized
Reserved(l, w) == Cardinality(OfType(l, w, "attempt"))

HardMax(base) ==
  IF base + Recovery < TotalLimit THEN base + Recovery ELSE TotalLimit

\* required_budget_delta: what the campaign lacks for n more calls.
Deficit(l, w, n) ==
  IF Reserved(l, w) + n > Authorized(l, w)
  THEN Reserved(l, w) + n - Authorized(l, w) ELSE 0

BudgetBlocked(l, w, n) ==
  IF Base(l, w) = 0 THEN n > FirstLimit
  ELSE Authorized(l, w) + Deficit(l, w, n) > HardMax(Base(l, w))

HeaderOf(l, auth) ==
  {r \in Elements(l) : r.type = "authorization" /\ r.auth = auth}
AttemptsOf(l, auth) ==
  {r \in Elements(l) : r.type = "attempt" /\ r.auth = auth}
CallsOf(l, auth) == {r.call : r \in AttemptsOf(l, auth)}

HasOutcome(l, auth, c) ==
  \E r \in Elements(l) : r.type = "outcome" /\ r.auth = auth /\ r.call = c

\* unresolved_call_ids: reserved by some authorization, outcome unknown.
Unresolved(l) ==
  {r.call : r \in {a \in Elements(l) :
     a.type = "attempt" /\ ~HasOutcome(l, a.auth, a.call)}}

\* The order of a window's calls.
Position(d, c) == CHOOSE i \in DOMAIN Windows[d] : Windows[d][i] = c
First(d, S) == CHOOSE c \in S : \A e \in S : Position(d, c) <= Position(d, e)

\* A header extends the campaign ledger: a fresh grant for 1..FirstLimit
\* calls whose base, delta and total are the exact ones.
HeaderFits(l, r) ==
  /\ HeaderOf(l, r.auth) = {}
  /\ Cardinality(r.calls) \in 1..FirstLimit
  /\ r.base = IF Base(l, r.window) = 0 THEN Cardinality(r.calls) ELSE Base(l, r.window)
  /\ r.authorized =
       Authorized(l, r.window) + Deficit(l, r.window, Cardinality(r.calls))
  /\ r.authorized <= HardMax(r.base)

\* A reservation extends it: of a call of its authorization, once, numbered
\* next, in plan order with the action pages first, within the cumulative
\* budget.
AttemptFits(l, r) ==
  LET done == CallsOf(l, r.auth)
      place(c) == Position(r.window, c)
  IN /\ \E h \in HeaderOf(l, r.auth) :
          /\ r.call \in h.calls \ done
          /\ \A c \in done : place(c) < place(r.call)
          /\ \A c \in h.calls \cap Actions : place(c) < place(r.call) => c \in done
     /\ r.number = Cardinality(AttemptsOf(l, r.auth)) + 1
     /\ r.total = Reserved(l, r.window) + 1
     /\ r.total <= Authorized(l, r.window)

\* An outcome closes one open reservation.
OutcomeFits(l, r) ==
  /\ r.call \in CallsOf(l, r.auth)
  /\ ~HasOutcome(l, r.auth, r.call)

CampaignFits(l, r) ==
  CASE r.type = "authorization" -> HeaderFits(l, r)
    [] r.type = "attempt" -> AttemptFits(l, r)
    [] r.type = "outcome" -> OutcomeFits(l, r)

\* The backfill ledger asks less: no campaign totals and no order.
BackfillFits(l, r) ==
  CASE r.type = "authorization" -> HeaderOf(l, r.auth) = {}
    [] r.type = "attempt" ->
         /\ r.call \notin CallsOf(l, r.auth)
         /\ r.number = Cardinality(AttemptsOf(l, r.auth)) + 1
         /\ \E h \in HeaderOf(l, r.auth) : r.number <= Cardinality(h.calls)
    [] r.type = "outcome" -> OutcomeFits(l, r)

Fits(lane, l, r) ==
  IF lane = "backfill" THEN BackfillFits(l, r) ELSE CampaignFits(l, r)

\* _records: every line parses and every record fits what precedes it.
Readable(lane) ==
  /\ ~torn[lane]
  /\ \A i \in DOMAIN file[lane] :
       Fits(lane, SubSeq(file[lane], 1, i - 1), file[lane][i])

\* Mutant: only the number of records is compared with the anchor.
Anchored_ByCount(lane) ==
  lane = "acquisition" => Len(anchor) = Len(file["acquisition"])

\* Exact equality of the file and the newest anchor; the backfill lane has
\* no anchor to compare with.
Anchored(lane) == lane = "acquisition" => anchor = file["acquisition"]

-----------------------------------------------------------------------------
(* publish_vendor_acquisition_campaign_anchor *)

WithinBounds(l, w) ==
  /\ Base(l, w) \in 1..FirstLimit
  /\ Authorized(l, w) \in Base(l, w)..HardMax(Base(l, w))
  /\ Reserved(l, w) \in 0..Authorized(l, w)

CampaignExtends(prior, l, w) ==
  /\ Cardinality(OfWindow(l, w)) = Cardinality(OfWindow(prior, w)) + 1
  /\ IF OfWindow(prior, w) = {}
     THEN Authorized(l, w) = Base(l, w) /\ Reserved(l, w) = 0
     ELSE /\ Base(l, w) = Base(prior, w)
          /\ \/ /\ Authorized(l, w) > Authorized(prior, w)
                /\ Reserved(l, w) = Reserved(prior, w)
             \/ /\ Authorized(l, w) = Authorized(prior, w)
                /\ Reserved(l, w) - Reserved(prior, w) \in {0, 1}

\* The effect of a publication of ledger l for campaign w: a row that
\* extends the newest one by one record is inserted, an exact replay of it
\* changes nothing and anything else is rejected.
PublishRow(l, w) ==
  IF /\ WithinBounds(l, w)
     /\ Len(l) = Len(anchor) + 1
     /\ CampaignExtends(mark[w], l, w)
  THEN anchor' = l /\ mark' = [mark EXCEPT ![w] = l]
  ELSE UNCHANGED <<anchor, mark>>

-----------------------------------------------------------------------------
(* Plans. *)

WindowCalls(p, d) ==
  {c \in Elements(Windows[d]) : p \in legacy => c \in Prices}

\* What a plan still has to fetch: sessions without a stored bar and pages
\* without a stored collection.
Missing(p, d) == {c \in WindowCalls(p, d) : evidence[c] = "none"}
Coverage(p) == [c \in WindowCalls(p, day) |-> evidence[c]]

\* Everything the identity of a plan covers.  The backfill sees the
\* ambiguity of its own ledger, the acquisition that of both.
BackfillPlan(p) ==
  [day |-> day, calls |-> Missing(p, day), coverage |-> Coverage(p),
   ambiguous |-> Unresolved(file["backfill"]) \cap Missing(p, day),
   ledger |-> <<>>]

CampaignPlan(p) ==
  [day |-> day, calls |-> Missing(p, day), coverage |-> Coverage(p),
   ambiguous |->
     (Unresolved(file["acquisition"]) \cup Unresolved(file["backfill"]))
       \cap Missing(p, day),
   ledger |-> file["acquisition"]]

PlanOf(p) == IF p \in legacy THEN BackfillPlan(p) ELSE CampaignPlan(p)

\* What execute asks of a plan before it spends a grant.
BackfillReady(p) ==
  /\ Readable("backfill")
  /\ BackfillPlan(p).calls # {} /\ BackfillPlan(p).ambiguous = {}

\* Mutant: a call whose outcome is unknown may be planned again.
CampaignReady_Again(p) ==
  /\ Readable("backfill") /\ Readable("acquisition")
  /\ Anchored("acquisition")
  /\ CampaignPlan(p).calls # {}
  /\ Cardinality(CampaignPlan(p).calls) <= FirstLimit
  /\ ~BudgetBlocked(file["acquisition"], day, Cardinality(CampaignPlan(p).calls))

CampaignReady(p) ==
  /\ Readable("backfill") /\ Readable("acquisition")
  /\ Anchored("acquisition")
  /\ CampaignPlan(p).calls # {} /\ CampaignPlan(p).ambiguous = {}
  /\ Cardinality(CampaignPlan(p).calls) <= FirstLimit
  /\ ~BudgetBlocked(file["acquisition"], day, Cardinality(CampaignPlan(p).calls))

Ready(p) == IF p \in legacy THEN BackfillReady(p) ELSE CampaignReady(p)

-----------------------------------------------------------------------------
(* One operator.  pc: idle; granted (a reviewed plan and its owner grant); *)
(* require, prepare, append, publish, sent, observe (one record on its way *)
(* into the file and the database); repair, next, call, answer, check.     *)

NoPlan ==
  [day |-> 0, calls |-> {}, coverage |-> [c \in {} |-> "none"],
   ambiguous |-> {}, ledger |-> <<>>]
Idle == [pc |-> "idle", plan |-> NoPlan, todo |-> {}, rec |-> None,
         status |-> "none", sent |-> <<>>]

\* The call the operation is about: the first, in plan order, of what is left.
Current(p) == First(op[p].plan.day, op[p].todo)

AuthOf(p) == <<p, grants[p]>>

CampaignInit ==
  /\ file = [n \in Lanes |-> <<>>] /\ torn = [n \in Lanes |-> FALSE]
  /\ anchor = <<>> /\ mark = [d \in Days |-> <<>>] /\ floating = {}
  /\ evidence = [c \in Calls |-> "none"]
  /\ lock = None /\ day \in Days /\ legacy \in SUBSET Operators
  /\ op = [p \in Operators |-> Idle] /\ grants = [p \in Operators |-> 0]
  /\ vendor = <<>> /\ faults = 0 /\ lockLost = FALSE /\ restored = FALSE

Go(p, pc) == op' = [op EXCEPT ![p].pc = pc]
Release(p) == lock' = IF lock = p THEN None ELSE lock
Disk == <<file, torn>>
Database == <<anchor, mark, floating, evidence>>
Environment == <<day, faults, lockLost, restored, legacy>>

\* The plan command, and an owner who grants what it reports.
Plan(p) ==
  /\ op[p].pc = "idle" /\ grants[p] < MaxGrants[legacy][p]
  /\ Ready(p)
  /\ op' = [op EXCEPT ![p] = [Idle EXCEPT !.pc = "granted", !.plan = PlanOf(p)]]
  /\ UNCHANGED <<Disk, Database, Environment, lock, grants, vendor>>

Startable(p) ==
  /\ lock = None /\ day = op[p].plan.day
  /\ Ready(p) /\ PlanOf(p) = op[p].plan

\* execute: the plan is computed again under the lock and must be the one
\* that was granted.
Start(p) ==
  /\ op[p].pc = "granted" /\ Startable(p)
  /\ lock' = p
  /\ grants' = [grants EXCEPT ![p] = @ + 1]
  /\ op' = [op EXCEPT ![p].pc = IF p \in legacy THEN "prepare" ELSE "require",
                      ![p].todo = op[p].plan.calls,
                      ![p].status = "authorizing"]
  /\ UNCHANGED <<Disk, Database, Environment, vendor>>

Refuse(p) ==
  /\ op[p].pc = "granted" /\ ~Startable(p)
  /\ op' = [op EXCEPT ![p] = Idle]
  /\ UNCHANGED <<Disk, Database, Environment, lock, grants, vendor>>

\* Mutant: an exception leaves the session lock held.
Stop_Locked(p) == op' = [op EXCEPT ![p] = Idle] /\ UNCHANGED lock

\* An exception ends the operation and releases the lock.
Stop(p) == op' = [op EXCEPT ![p] = Idle] /\ Release(p)

\* _require_database_high_water, before every append of the campaign lane.
Require(p) ==
  /\ op[p].pc = "require"
  /\ IF Readable(Lane(p)) /\ Anchored(Lane(p))
     THEN Go(p, "prepare") /\ UNCHANGED lock
     ELSE Stop(p)
  /\ UNCHANGED <<Disk, Database, Environment, grants, vendor>>

\* The records begin_authorization, reserve_call and finish_call build from
\* the ledger they have just read.
NewHeader(p) ==
  LET l == file["acquisition"] w == op[p].plan.day
      n == Cardinality(op[p].plan.calls)
  IN [type |-> "authorization", auth |-> AuthOf(p), window |-> w,
      calls |-> op[p].plan.calls,
      base |-> IF Base(l, w) = 0 THEN n ELSE Base(l, w),
      authorized |-> Authorized(l, w) + Deficit(l, w, n)]

NewAttempt(p) ==
  LET l == file["acquisition"] w == op[p].plan.day
  IN [type |-> "attempt", auth |-> AuthOf(p), window |-> w,
      call |-> Current(p),
      number |-> Cardinality(AttemptsOf(l, AuthOf(p))) + 1,
      total |-> Reserved(l, w) + 1]

NewOutcome(p) ==
  [type |-> "outcome", auth |-> AuthOf(p), window |-> op[p].plan.day,
   call |-> Current(p), status |-> op[p].status]

\* The backfill's records: no campaign totals, and one failure status.
NewBackfillRecord(p) ==
  CASE op[p].status = "authorizing" ->
         [type |-> "authorization", auth |-> AuthOf(p),
          window |-> op[p].plan.day, calls |-> op[p].plan.calls]
    [] op[p].status = "reserving" ->
         [type |-> "attempt", auth |-> AuthOf(p), window |-> op[p].plan.day,
          call |-> Current(p),
          number |-> Cardinality(AttemptsOf(file["backfill"], AuthOf(p))) + 1]
    [] OTHER ->
         [NewOutcome(p) EXCEPT !.status =
            IF @ = "checkpointed" THEN @ ELSE "failed"]

NewRecord(p) ==
  IF p \in legacy THEN NewBackfillRecord(p)
  ELSE CASE op[p].status = "authorizing" -> NewHeader(p)
         [] op[p].status = "reserving" -> NewAttempt(p)
         [] OTHER -> NewOutcome(p)

Prepare(p) ==
  /\ op[p].pc = "prepare"
  /\ IF /\ Readable(Lane(p))
        /\ Fits(Lane(p), file[Lane(p)], NewRecord(p))
        /\ op[p].status = "authorizing" /\ p \notin legacy =>
             file["acquisition"] = op[p].plan.ledger
     THEN /\ op' = [op EXCEPT ![p].pc = "append", ![p].rec = NewRecord(p)]
          /\ UNCHANGED lock
     ELSE Stop(p)
  /\ UNCHANGED <<Disk, Database, Environment, grants, vendor>>

\* Where an operation goes once its record is in the file and, in the
\* campaign lane, anchored.
AfterRecord(p) ==
  CASE op[p].status = "authorizing" -> "repair"
    [] op[p].status = "reserving" -> "call"
    [] op[p].status = "checkpointed" -> "next"
    [] OTHER -> "failed"

Proceed(p) ==
  IF AfterRecord(p) = "failed" THEN Stop(p)
  ELSE /\ op' = [op EXCEPT
                   ![p] = [@ EXCEPT !.pc = AfterRecord(p), !.rec = None,
                             !.sent = <<>>,
                             !.todo = IF AfterRecord(p) = "next"
                                      THEN op[p].todo \ {Current(p)}
                                      ELSE op[p].todo]]
       /\ UNCHANGED lock

\* _append: O_APPEND, written whole and fsynced.  A line cut by a crash
\* swallows whatever is appended after it.
AppendRecord(p) ==
  /\ op[p].pc = "append"
  /\ file' = IF torn[Lane(p)] THEN file
             ELSE [file EXCEPT ![Lane(p)] = Append(@, op[p].rec)]
  /\ IF p \in legacy THEN Proceed(p) ELSE Go(p, "publish") /\ UNCHANGED lock
  /\ UNCHANGED <<torn, Database, Environment, grants, vendor>>

\* _publish_database_high_water reads the file again and sends its digest.
Publish(p) ==
  /\ op[p].pc = "publish"
  /\ IF Readable(Lane(p))
     THEN /\ op' = [op EXCEPT ![p].pc = "sent", ![p].sent = file[Lane(p)]]
          /\ UNCHANGED lock
     ELSE Stop(p)
  /\ UNCHANGED <<Disk, Database, Environment, grants, vendor>>

Commit(p) ==
  /\ op[p].pc = "sent"
  /\ PublishRow(op[p].sent, op[p].plan.day)
  /\ Go(p, "observe")
  /\ UNCHANGED <<Disk, floating, evidence, Environment, lock, grants, vendor>>

\* Mutant: an operation goes on whatever row it reads back.
Observe_Blind(p) ==
  /\ op[p].pc = "observe"
  /\ Proceed(p)
  /\ UNCHANGED <<Disk, Database, Environment, grants, vendor>>

\* The newest row is read back after a commit, a rejection and a lost reply
\* alike: only the exact requested state lets the operation go on.
Observe(p) ==
  /\ op[p].pc = "observe"
  /\ IF anchor = op[p].sent THEN Proceed(p) ELSE Stop(p)
  /\ UNCHANGED <<Disk, Database, Environment, grants, vendor>>

\* _repair_plan_receipts: the plan's committed content gets its receipts.
RepairPlan(p) ==
  /\ op[p].pc = "repair"
  /\ evidence' = [c \in Calls |->
       IF /\ c \in DOMAIN op[p].plan.coverage
          /\ op[p].plan.coverage[c] = "unreceipted"
       THEN "complete" ELSE evidence[c]]
  /\ Go(p, "next")
  /\ UNCHANGED <<Disk, anchor, mark, floating, Environment, lock, grants, vendor>>

\* _existing_call_evidence: content without a receipt gets it.
WithReceipt(c) == [evidence EXCEPT ![c] = IF @ = "none" THEN @ ELSE "complete"]

\* The head of the campaign's loop: evidence that appeared since the plan
\* gets its receipt, lets a price be skipped and stops an action page.
NextCall(p) ==
  /\ op[p].pc = "next" /\ op[p].todo # {} /\ p \notin legacy
  /\ LET c == Current(p) IN
     /\ evidence' = WithReceipt(c)
     /\ \/ /\ evidence[c] = "none"
           /\ op' = [op EXCEPT ![p].pc = "require", ![p].status = "reserving"]
           /\ UNCHANGED lock
        \/ /\ evidence[c] # "none" /\ c \in Prices
           /\ op' = [op EXCEPT ![p].todo = @ \ {c}]
           /\ UNCHANGED lock
        \/ evidence[c] # "none" /\ c \in Actions /\ Stop(p)
  /\ UNCHANGED <<Disk, anchor, mark, floating, Environment, grants, vendor>>

\* The backfill's loop skips a session that has its bar by now.
NextSessionCall(p) ==
  /\ op[p].pc = "next" /\ op[p].todo # {} /\ p \in legacy
  /\ LET c == Current(p) IN
     /\ evidence' = WithReceipt(c)
     /\ op' = IF evidence[c] = "none"
              THEN [op EXCEPT ![p].pc = "prepare", ![p].status = "reserving"]
              ELSE [op EXCEPT ![p].todo = @ \ {c}]
  /\ UNCHANGED <<Disk, anchor, mark, floating, Environment, lock, grants, vendor>>

Resolve(p, status) ==
  op' = [op EXCEPT ![p].pc = IF p \in legacy THEN "prepare" ELSE "require",
                   ![p].status = status]

\* The guard admits the armed call once, while its window is the current one.
Call(p) ==
  /\ op[p].pc = "call"
  /\ IF day = op[p].plan.day
     THEN /\ vendor' = Append(vendor, [call |-> Current(p),
                                       auth |-> AuthOf(p), window |-> day])
          /\ Go(p, "answer")
     ELSE UNCHANGED vendor /\ Resolve(p, "failed_before_admission")
  /\ UNCHANGED <<Disk, Database, Environment, lock, grants>>

\* _perform_call: content stored, then its receipt.
Answer(p) ==
  /\ op[p].pc = "answer"
  /\ LET c == Current(p) IN
     IF evidence[c] = "none" \/ c \in Actions
     THEN evidence' = [evidence EXCEPT ![c] = "complete"]
          /\ Resolve(p, "checkpointed")
     ELSE UNCHANGED evidence /\ Resolve(p, "failed_after_admission")
  /\ UNCHANGED <<Disk, anchor, mark, floating, Environment, lock, grants, vendor>>

\* The postflight: the scripts compute the plan once more and end.
Postflight(p) ==
  /\ op[p].pc = "next" /\ op[p].todo = {}
  /\ Stop(p)
  /\ UNCHANGED <<Disk, Database, Environment, grants, vendor>>

\* The repair commands: receipts for committed content, no vendor call.
AddReceipts(p) ==
  /\ \E c \in DOMAIN Coverage(p) : evidence[c] = "unreceipted"
  /\ evidence' = [c \in Calls |->
       IF c \in DOMAIN Coverage(p) /\ evidence[c] = "unreceipted"
       THEN "complete" ELSE evidence[c]]
  /\ UNCHANGED <<Disk, anchor, mark, floating, Environment, lock, op, grants, vendor>>

RepairCampaign(p) ==
  /\ p \notin legacy /\ op[p].pc = "idle" /\ lock = None
  /\ Readable("backfill") /\ Readable("acquisition") /\ Anchored("acquisition")
  /\ AddReceipts(p)

RepairBackfill(p) ==
  /\ p \in legacy /\ op[p].pc = "idle" /\ lock = None /\ Readable("backfill")
  /\ AddReceipts(p)

-----------------------------------------------------------------------------
(* Faults, and the passing of days. *)

Fault == faults < MaxFaults /\ faults' = faults + 1

\* The request fails after admission, with its content stored or not.
CallFails(p) ==
  /\ op[p].pc = "answer" /\ Fault
  /\ \E e \in {"none", "unreceipted"} :
       evidence' = [evidence EXCEPT ![Current(p)] =
                      IF @ = "none" THEN e ELSE @]
  /\ Resolve(p, "failed_after_admission")
  /\ UNCHANGED <<Disk, anchor, mark, floating, day, legacy, lock, grants, vendor,
                 lockLost, restored>>

\* The reply to a publication is lost; its transaction may commit later.
LoseReply(p) ==
  /\ op[p].pc = "sent" /\ Fault
  /\ floating' = floating \cup {[ledger |-> op[p].sent, window |-> op[p].plan.day]}
  /\ Go(p, "observe")
  /\ UNCHANGED <<Disk, anchor, mark, evidence, day, legacy, lock, grants, vendor,
                 lockLost, restored>>

Land(f) ==
  /\ f \in floating
  /\ floating' = floating \ {f}
  /\ PublishRow(f.ledger, f.window)
  /\ UNCHANGED <<Disk, evidence, Environment, lock, op, grants, vendor>>

\* The process dies, or a database read fails: its memory and its lock go.
Crash(p) ==
  /\ op[p].pc \notin {"idle", "granted"} /\ Fault
  /\ Stop(p)
  /\ floating' = IF op[p].pc = "sent"
                 THEN floating \cup {[ledger |-> op[p].sent,
                                      window |-> op[p].plan.day]}
                 ELSE floating
  /\ \/ UNCHANGED torn
     \/ op[p].pc = "append" /\ torn' = [torn EXCEPT ![Lane(p)] = TRUE]
  /\ UNCHANGED <<file, anchor, mark, evidence, day, legacy, grants, vendor, lockLost,
                 restored>>

\* The connection that holds the session lock dies; the operation does not
\* notice before it unlocks.
LoseLock(p) ==
  /\ lock = p /\ Fault
  /\ lock' = None /\ lockLost' = TRUE
  /\ UNCHANGED <<Disk, Database, day, legacy, op, grants, vendor, restored>>

\* The acquisition ledger is truncated or rolled back between operations.
Restore ==
  /\ \A p \in Operators : op[p].pc \in {"idle", "granted"}
  /\ Fault
  /\ \E n \in 0..Len(file["acquisition"]) :
       file' = [file EXCEPT !["acquisition"] = SubSeq(@, 1, n)]
  /\ torn' = [torn EXCEPT !["acquisition"] = FALSE]
  /\ restored' = TRUE
  /\ UNCHANGED <<Database, day, legacy, lock, op, grants, vendor, lockLost>>

NextSession ==
  /\ day < Len(Windows) /\ day' = day + 1
  /\ UNCHANGED <<Disk, Database, lock, op, grants, legacy, vendor, faults, lockLost,
                 restored>>

Work(p) ==
  \/ Plan(p) \/ Start(p) \/ Refuse(p) \/ Require(p) \/ Prepare(p) \/ AppendRecord(p)
  \/ Publish(p) \/ Commit(p) \/ Observe(p) \/ RepairPlan(p)
  \/ NextCall(p) \/ NextSessionCall(p)
  \/ Call(p) \/ Answer(p) \/ Postflight(p) \/ RepairCampaign(p) \/ RepairBackfill(p)

Disturb(p) == CallFails(p) \/ LoseReply(p) \/ Crash(p) \/ LoseLock(p)

CampaignNext ==
  \/ \E p \in Operators : Work(p) \/ Disturb(p)
  \/ \E f \in floating : Land(f)
  \/ Restore
  \/ NextSession

CampaignSpec == CampaignInit /\ [][CampaignNext]_campaignVars

\* Operators keep planning, granting and finishing what they start; no fault
\* is ever certain.
FairCampaignSpec ==
  CampaignSpec /\ \A p \in Operators : WF_campaignVars(Work(p))

-----------------------------------------------------------------------------
(* Properties. *)

Evidence == {"none", "unreceipted", "complete"}
Statuses == {"none", "authorizing", "reserving", "checkpointed",
             "failed_before_admission", "failed_after_admission", "failed"}
Steps == {"idle", "granted", "require", "prepare", "append", "publish", "sent",
          "observe", "repair", "next", "call", "answer"}
Auths == Operators \X Nat
Outcomes == [type: {"outcome"}, auth: Auths, window: Days, call: Calls, status: Statuses]

\* A header's base is a number of calls of its window.
CampaignRecords ==
  {h \in [type: {"authorization"}, auth: Auths, window: Days, calls: SUBSET Calls,
          base: Nat, authorized: Nat] : h.base <= Len(Windows[h.window])}
  \cup [type: {"attempt"}, auth: Auths, window: Days, call: Calls, number: Nat, total: Nat]
  \cup Outcomes

BackfillRecords ==
  [type: {"authorization"}, auth: Auths, window: Days, calls: SUBSET Calls]
  \cup [type: {"attempt"}, auth: Auths, window: Days, call: Calls, number: Nat]
  \cup Outcomes

LaneRecords(lane) == IF lane = "backfill" THEN BackfillRecords ELSE CampaignRecords

Plans ==
  [day: 0..Len(Windows), calls: SUBSET Calls,
   coverage: UNION {[S -> Evidence] : S \in SUBSET Calls},
   ambiguous: SUBSET Calls, ledger: Seq(CampaignRecords)]
Operations ==
  [pc: Steps, plan: Plans, todo: SUBSET Calls,
   rec: CampaignRecords \cup BackfillRecords \cup {None},
   status: Statuses, sent: Seq(CampaignRecords)]

\* Every variable holds a value of its kind; the lock's holder is an operator
\* that is inside an operation, and only the campaign's own records reach its
\* ledger and the database.
CampaignTypeOK ==
  /\ file \in [Lanes -> Seq(CampaignRecords \cup BackfillRecords)]
  /\ \A n \in Lanes : file[n] \in Seq(LaneRecords(n))
  /\ torn \in [Lanes -> BOOLEAN]
  /\ anchor \in Seq(CampaignRecords) /\ mark \in [Days -> Seq(CampaignRecords)]
  /\ floating \subseteq [ledger: Seq(CampaignRecords), window: Days]
  /\ evidence \in [Calls -> Evidence]
  /\ lock \in Operators \cup {None} /\ day \in Days
  /\ op \in [Operators -> Operations] /\ grants \in [Operators -> Nat]
  /\ vendor \in Seq([call: Calls, auth: Auths, window: Days])
  /\ faults \in 0..MaxFaults /\ lockLost \in BOOLEAN /\ restored \in BOOLEAN
  /\ legacy \subseteq Operators
  /\ lock # None => op[lock].pc \notin {"idle", "granted"}
  /\ \A p \in Operators :
       /\ op[p].pc # "idle" => op[p].plan.day \in Days
       /\ op[p].pc = "append" => op[p].rec \in LaneRecords(Lane(p))

Spent(w) ==
  Cardinality({i \in DOMAIN vendor :
    vendor[i].window = w /\ vendor[i].auth[1] \notin legacy})

\* Two faults at once are outside every promise below: the lock was lost under
\* a running operation and the ledger was replaced.  A publication of the
\* replaced ledger may then land late and take the place of a row that covers
\* another campaign's request.
Orderly == ~ (lockLost /\ restored)

\* scripts/README.md: "truncation or rollback cannot manufacture fresh budget"
\* and "the cumulative campaign can never receive more than five recovery
\* calls".  The requests one campaign has sent are covered by reservations the
\* newest row holds, and these by its base plus the recovery allowance: also
\* when two operators run at once after a lost lock, when a publication commits
\* late and when the file is rolled back.
BudgetHolds ==
  Orderly =>
    \A w \in Days :
      /\ Spent(w) <= Reserved(anchor, w)
      /\ Reserved(anchor, w) <= Len(Windows[w]) + Recovery

\* "A consumed/ambiguous reservation has no clear switch": while the lock
\* connection lives, no run sends a request that an earlier run may have sent
\* without knowing what came of it.
NoBlindRetry ==
  ~lockLost =>
    \A i, j \in DOMAIN vendor :
      /\ i < j /\ vendor[i].call = vendor[j].call
      /\ vendor[j].auth[1] \in legacy => vendor[i].auth[1] \in legacy
      => \/ HasOutcome(file["backfill"], vendor[i].auth, vendor[i].call)
         \/ HasOutcome(anchor, vendor[i].auth, vendor[i].call)

\* The high-water rows form one history: each new row is the digest of a
\* ledger that extends the one before it.  The database sees digests only and
\* cannot check it.
AnchorExtends ==
  [][anchor' # anchor /\ Orderly' =>
       Len(anchor') > Len(anchor) /\ SubSeq(anchor', 1, Len(anchor)) = anchor]_campaignVars

\* Why a campaign may rest without being complete.
Forensics(p) ==
  \/ ~Readable("backfill")
  \/ p \notin legacy /\ ~(Readable("acquisition") /\ Anchored("acquisition"))
  \/ PlanOf(p).ambiguous # {}
Exhausted(p) ==
  \/ grants[p] = MaxGrants[legacy][p]
  \/ p \notin legacy /\ BudgetBlocked(file["acquisition"], day, Cardinality(Missing(p, day)))
Collected(p) == Missing(p, day) = {}

\* Every campaign comes to rest: collected, in need of forensics or out of
\* recovery calls, and never because an operation hangs or holds the lock for
\* ever.
CampaignSettles ==
  <>[](\A p \in Operators :
         op[p].pc = "idle" /\ (Collected(p) \/ Forensics(p) \/ Exhausted(p)))
=============================================================================
