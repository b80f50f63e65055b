---------------------------- MODULE VendorGuard ----------------------------
(***************************************************************************)
(* Vendor requests under a cost and rate guard (data_sources/guards.py,    *)
(* data_sources/polygon.py).  Tasks and threads of one process share one   *)
(* guard: every HTTP attempt, a retry too, first acquires one unit of a    *)
(* fixed window and of a total budget.  The pacing guard sleeps when the   *)
(* window is full and looks again; the in-memory guard raises.  Time is    *)
(* relative: the age of the window and what is left of each sleep.         *)
(***************************************************************************)
EXTENDS Integers, FiniteSets

CONSTANTS
  Slots,        \* slots that issue provider requests, one after the other
  MaxCalls,     \* max_calls_per_window
  WindowLength, \* window_seconds, in ticks
  Budget,       \* total_budget
  MaxAttempts,  \* max_attempts of the provider
  MaxBackoff    \* bound: the longest wait between two attempts, in ticks

ASSUME GuardAssumption ==
  /\ IsFiniteSet(Slots)
  /\ MaxCalls \in Nat \ {0} /\ WindowLength \in Nat \ {0} /\ Budget \in Nat
  /\ MaxAttempts \in Nat \ {0} /\ MaxBackoff \in Nat

VARIABLES
  paced,    \* the guard of this process: AsyncPacingCostRateGuard, else InMemoryCostRateGuard
  age,      \* ticks since the window began; WindowLength: there is none, or it is over
  count,    \* units taken from the window
  spent,    \* units taken from the budget
  phase,    \* "idle", "acquire", "asleep", "http", "backoff"
  left,     \* what is left of each sleep, in ticks
  attempt,  \* attempts of the current request so far
  recent,   \* history: the HTTP attempts sent less than a window ago: [nth, ago]
  sent      \* history: HTTP attempts ever sent, capped just above Budget

guardVars == <<paced, age, count, spent, phase, left, attempt, recent, sent>>

Ages == 0..(WindowLength - 1)

GuardTypeOK ==
  /\ paced \in BOOLEAN
  /\ age \in 0..WindowLength
  /\ count \in 0..MaxCalls
  /\ spent \in 0..Budget
  /\ phase \in [Slots -> {"idle", "acquire", "asleep", "http", "backoff"}]
  /\ left \in [Slots -> Nat]
  /\ attempt \in [Slots -> 0..MaxAttempts]
  /\ recent \subseteq [nth: 1..(Budget + 1), ago: Ages]
  /\ sent \in 0..(Budget + 1)

GuardInit ==
  /\ paced \in BOOLEAN
  /\ age = WindowLength
  /\ count = 0
  /\ spent = 0
  /\ phase = [r \in Slots |-> "idle"]
  /\ left = [r \in Slots |-> 0]
  /\ attempt = [r \in Slots |-> 0]
  /\ recent = {}
  /\ sent = 0

-----------------------------------------------------------------------------
\* A sleep ends when its time is over, or any time later.
Awake(r) == left[r] = 0

\* _request: a new request and its first attempt.
Begin(r) ==
  /\ phase[r] = "idle"
  /\ phase' = [phase EXCEPT ![r] = "acquire"]
  /\ UNCHANGED <<paced, age, count, spent, left, attempt, recent, sent>>

\* One pass of acquire() holds the guard's lock from its first test to its
\* last update, so it is one step.
Acquiring(r) == phase[r] \in {"acquire", "asleep"} /\ Awake(r)

\* The window a pass finds after starting a new one where the old is over.
WindowOver  == age = WindowLength
WindowCount == IF WindowOver THEN 0 ELSE count
WindowAge   == IF WindowOver THEN 0 ELSE age

Affordable == spent + 1 <= Budget

\* Mutant: a request that has slept is admitted without looking again.
HasRoom_Once(r) == phase[r] = "asleep" \/ WindowCount + 1 <= MaxCalls

HasRoom(r) == WindowCount + 1 <= MaxCalls

\* Mutant: the budget is never charged.
Charge_Nothing == spent' = spent

Charge == spent' = spent + 1

\* Every HTTP attempt leaves a trace in the history.
Sent ==
  /\ sent' = IF sent > Budget THEN sent ELSE sent + 1
  /\ recent' = recent \cup {[nth |-> sent', ago |-> 0]}

\* acquire() returns and the attempt goes to the vendor.
Admit(r) ==
  /\ Acquiring(r)
  /\ HasRoom(r) /\ Affordable
  /\ age' = WindowAge
  /\ count' = WindowCount + 1
  /\ Charge
  /\ Sent
  /\ attempt' = [attempt EXCEPT ![r] = attempt[r] + 1]
  /\ phase' = [phase EXCEPT ![r] = "http"]
  /\ UNCHANGED <<paced, left>>

\* The request is over, with a result or an exception.
EndRequest(r) ==
  /\ phase' = [phase EXCEPT ![r] = "idle"]
  /\ attempt' = [attempt EXCEPT ![r] = 0]
  /\ UNCHANGED <<paced, left, recent, sent, spent>>

\* CostBudgetExceeded: the pacing guard looks at the budget before the window,
\* the in-memory guard after it.  Not retryable.
RefuseForBudget(r) ==
  /\ Acquiring(r)
  /\ ~Affordable
  /\ IF paced
     THEN UNCHANGED <<age, count>>
     ELSE HasRoom(r) /\ age' = WindowAge /\ count' = WindowCount
  /\ EndRequest(r)

\* VendorRateLimitError of the in-memory guard.  Not retryable.
RefuseForRate(r) ==
  /\ Acquiring(r)
  /\ ~paced /\ ~HasRoom(r)
  /\ UNCHANGED <<age, count>>
  /\ EndRequest(r)

\* admission_check raises: the window may have been started for nothing.
RefuseAdmission(r) ==
  /\ Acquiring(r)
  /\ paced /\ HasRoom(r) /\ Affordable
  /\ age' = WindowAge /\ count' = WindowCount
  /\ EndRequest(r)

WaitSeconds == WindowLength - age

\* The pacing guard releases its lock and sleeps until the window is over.
Sleep(r) ==
  /\ Acquiring(r)
  /\ paced /\ ~HasRoom(r) /\ Affordable
  /\ left' = [left EXCEPT ![r] = WaitSeconds]
  /\ phase' = [phase EXCEPT ![r] = "asleep"]
  /\ UNCHANGED <<paced, age, count, spent, attempt, recent, sent>>

\* A result, or an error that is not retried.
Respond(r) == phase[r] = "http" /\ EndRequest(r) /\ UNCHANGED <<age, count>>

\* A transport error or a retryable status: wait (Retry-After or exponential,
\* both bounded), unless this was the last attempt.
Fail(r) ==
  /\ phase[r] = "http"
  /\ UNCHANGED <<age, count>>
  /\ \/ attempt[r] = MaxAttempts /\ EndRequest(r)
     \/ /\ attempt[r] < MaxAttempts
        /\ \E wait \in 0..MaxBackoff : left' = [left EXCEPT ![r] = wait]
        /\ phase' = [phase EXCEPT ![r] = "backoff"]
        /\ UNCHANGED <<paced, spent, attempt, recent, sent>>

\* Mutant: a retry goes to the vendor without acquiring again.
Retry_Unguarded(r) ==
  /\ phase[r] = "backoff" /\ Awake(r)
  /\ Sent
  /\ attempt' = [attempt EXCEPT ![r] = attempt[r] + 1]
  /\ phase' = [phase EXCEPT ![r] = "http"]
  /\ UNCHANGED <<paced, age, count, spent, left>>

\* The next attempt acquires anew.
Retry(r) ==
  /\ phase[r] = "backoff" /\ Awake(r)
  /\ phase' = [phase EXCEPT ![r] = "acquire"]
  /\ UNCHANGED <<paced, age, count, spent, left, attempt, recent, sent>>

GuardTick ==
  /\ age' = IF WindowOver THEN age ELSE age + 1
  /\ left' = [r \in Slots |-> IF left[r] = 0 THEN 0 ELSE left[r] - 1]
  /\ recent' = {[nth |-> e.nth, ago |-> e.ago + 1] : e \in {e \in recent : e.ago + 1 < WindowLength}}
  /\ UNCHANGED <<paced, count, spent, phase, attempt, sent>>

Acquire(r) ==
  Admit(r) \/ RefuseForBudget(r) \/ RefuseForRate(r) \/ RefuseAdmission(r) \/ Sleep(r)

Continue(r) == Acquire(r) \/ Respond(r) \/ Fail(r) \/ Retry(r)

GuardNext ==
  \/ \E r \in Slots : Begin(r) \/ Continue(r)
  \/ GuardTick

GuardSpec == GuardInit /\ [][GuardNext]_guardVars

\* The event loop runs whatever is ready, the client's timeout ends every HTTP
\* attempt, and time goes on; nothing obliges a task to begin a request.
FairSpec == GuardSpec /\ WF_guardVars(GuardTick) /\ \A r \in Slots : WF_guardVars(Continue(r))

-----------------------------------------------------------------------------
(* Properties.                                                             *)

\* The vendor never sees more than twice the limit in any stretch as long as a
\* window, wherever it begins, although windows start on demand, requests
\* retry, and sleepers wake together (acquire() looks again after each sleep).
SlidingWindowBound == Cardinality(recent) <= 2 * MaxCalls

\* No run of requests and retries sends more HTTP attempts than the budget
\* (total_budget of a process-cached guard, charged by _request_once).
BudgetBound == sent <= Budget

\* A sleeper never sleeps past the window it found full (wait_seconds).
SleepsWithinWindow ==
  \A r \in Slots : phase[r] = "asleep" /\ left[r] > 0 => left[r] <= WindowLength - age

\* Every request ends, however the others compete for the window: the budget
\* bounds what can overtake a sleeper (acquire()'s loop has no queue).
RequestEnds == \A r \in Slots : []<>(phase[r] = "idle")
=============================================================================
