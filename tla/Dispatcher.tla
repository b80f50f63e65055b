----------------------------- MODULE Dispatcher -----------------------------
(***************************************************************************)
(* The AI dispatcher (src/ai_dispatcher): one task is planned, gated,      *)
(* executed, verified and controlled by models that may answer anything,   *)
(* and the change they leave in the working tree is committed, opened as a *)
(* pull request or merged to origin/main under a recorded authorization.   *)
(*                                                                         *)
(* A history of a branch is a sequence of commits, so "b can be fast-      *)
(* forwarded to c" is "b is a prefix of c".  The dispatcher may die        *)
(* between any two steps, a push may reach the server although it is       *)
(* reported as failed, and a git command that fails prints nothing, which  *)
(* the code reads as an empty answer; and of a file that git takes for     *)
(* renamed it names the new path alone.  Other people push to origin/main  *)
(* and an operator tidies the checkout between dispatches.                 *)
(***************************************************************************)
EXTENDS Integers, Sequences, FiniteSets, SequencesExt

CONSTANTS
  Tasks,         \* the tasks of the brief
  Files,         \* paths of the repository
  Artifacts,     \* artifact_globs: handoff packets
  Protected,     \* never_automerge_globs
  Grants,        \* authorizations the owner may record: [id, scope, max]
  Scopes,        \* RELATED_FILES a planner may declare
  Edits,         \* sets of files one execution may touch
  Renames,       \* renames an execution may make: [from, to]
  Strays,        \* sets of files a verification run may leave behind
  Modes,         \* --publish: subset of {"none", "branch", "pr", "main"}
  MaxRevisions,  \* max_plan_revisions
  MaxRounds,     \* max_correction_rounds
  MaxFailures,   \* max_consecutive_failures
  Steps,         \* number of configured verify steps
  MinSteps,      \* MIN_VERIFY_STEPS
  MaxDispatches, \* bound: dispatches begun
  MaxFaults,     \* bound: crashes, failed or half-done commands, stray files
  MaxPushes,     \* bound: commits by other people
  None

ASSUME DispatcherAssumption ==
  /\ Artifacts \subseteq Files /\ Protected \subseteq Files
  /\ \A g \in Grants : g.scope \subseteq Files /\ g.max \in Nat \ {0}
  /\ Scopes \subseteq SUBSET Files /\ {} \notin Scopes
  /\ Renames \subseteq [from: Files, to: Files]
  /\ Edits \subseteq SUBSET Files /\ Strays \subseteq SUBSET Files
  /\ Modes \subseteq {"none", "branch", "pr", "main"}
  /\ MaxRevisions \in Nat /\ MaxRounds \in Nat /\ MaxFailures \in Nat
  /\ Steps \in Nat /\ MinSteps \in Nat \ {0}
  /\ MaxDispatches \in Nat /\ MaxFaults \in Nat /\ MaxPushes \in Nat
  /\ None \notin Tasks

VARIABLES
  origin,     \* the history of main on the server
  tracked,    \* the local origin/main
  main,       \* the local main
  branches,   \* [Tasks -> the local branch ai-dispatch/<task>, or None]
  head,       \* the branch checked out: None is main
  dirty,      \* the files that differ from HEAD
  moved,      \* the renames among these differences
  indexed,    \* those of them that are staged
  merges,     \* merges.jsonl: the ids charged so far
  failures,   \* dispatch.consecutive-failures.json
  stopped,    \* a stop or halt sentinel is present
  packet,     \* [Tasks -> the newest EXEC packet reports success]
  verdict,    \* [Tasks -> the rounds n whose control.round<n>.json passes]
  run,        \* the dispatch being worked on
  dispatches, faults, pushes,
  lost,       \* merges that reached the server without being charged
  blind       \* a failed git command was read as a clean answer

tree == <<dirty, moved, indexed>>
git == <<origin, tracked, main, branches, head, tree>>
state == <<merges, failures, stopped, packet, verdict>>
world == <<dispatches, pushes>>
vars == <<git, state, world, run, faults, lost, blind>>

Idle == [pc |-> "idle", task |-> None, mode |-> "none", scope |-> {},
         revision |-> 0, round |-> 0, changed |-> {}, action |-> "none",
         grant |-> None, status |-> "none"]

Init ==
  /\ origin = <<>> /\ tracked = <<>> /\ main = <<>>
  /\ branches = [t \in Tasks |-> None] /\ head = None
  /\ dirty = {} /\ moved = {} /\ indexed = {}
  /\ merges = <<>> /\ failures = 0
  /\ stopped = FALSE
  /\ packet = [t \in Tasks |-> FALSE]
  /\ verdict = [t \in Tasks |-> {}]
  /\ run = Idle /\ dispatches = 0 /\ faults = 0 /\ pushes = 0
  /\ lost = 0 /\ blind = FALSE

-----------------------------------------------------------------------------
(* Git and the sentinels. *)

Tip == IF head = None THEN main ELSE branches[head]
Go(pc) == run' = [run EXCEPT !.pc = pc]

\* run_command ends every command, by its exit code or by killing it; what a
\* failed one had done by then stays done.
Fault == faults < MaxFaults /\ faults' = faults + 1

\* What git may list of the dirty files when renames are the ones it can see:
\* a path is left out where it takes it for renamed to one that it lists.
Listings(renames) ==
  {r \in SUBSET dirty :
     \A f \in dirty \ r : \E m \in renames : m.from = f /\ m.to \in r}

\* What the code reads of it: a command that fails prints nothing.
Reported(r, renames) == \/ r \in Listings(renames) /\ UNCHANGED faults
                        \/ r = {} /\ dirty # {} /\ Fault

\* breaker_tripped
Tripped == MaxFailures > 0 /\ failures >= MaxFailures

\* merge_counts
Charged(g) == Cardinality({i \in DOMAIN merges : merges[i] = g.id})

-----------------------------------------------------------------------------
(* DispatchLoop.run *)

\* A result of the loop; the command line then counts it.
Result(status) ==
  run' = IF status = "passed"
         THEN [run EXCEPT !.pc = "result", !.status = status, !.round = 0]
         ELSE [Idle EXCEPT !.pc = "result", !.status = status]

\* The loop command: sentinels and breaker first, then the task of the brief.
Begin(t, m) ==
  /\ run.pc = "idle" /\ dispatches < MaxDispatches
  /\ ~stopped /\ ~Tripped
  /\ run' = [Idle EXCEPT !.pc = "preflight", !.task = t, !.mode = m]
  /\ dispatches' = dispatches + 1
  /\ UNCHANGED <<git, state, pushes, faults, lost, blind>>

\* _preflight: nothing dirty and HEAD at origin/main as last fetched.
Preflight ==
  /\ run.pc = "preflight"
  /\ \/ /\ IF dirty = {} /\ Tip = tracked THEN Go("plan") ELSE Result("failed")
        /\ UNCHANGED <<faults, blind>>
     \/ \* git status fails
        /\ dirty # {} /\ Tip = tracked /\ Fault /\ Go("plan")
        /\ UNCHANGED blind
     \/ \* git rev-list fails
        /\ dirty = {} /\ Tip # tracked /\ Fault /\ Go("plan") /\ blind' = TRUE
  /\ UNCHANGED <<git, state, world, lost>>

Revise ==
  IF run.revision < MaxRevisions
  THEN run' = [run EXCEPT !.pc = "plan", !.revision = @ + 1]
  ELSE Result("failed")

\* The planner's JSON becomes a TASK packet that declares a scope, or the
\* packet does not validate.
Packet == \E s \in Scopes : run' = [run EXCEPT !.pc = "gate", !.scope = s]

\* The planner is a read-only model call that may fail.
PlanTask ==
  /\ run.pc = "plan"
  /\ Result("failed") \/ Revise \/ Packet
  /\ UNCHANGED <<git, state, world, faults, lost, blind>>

\* The plan gate's verdict; the approved packet is finalized.
Gate ==
  /\ run.pc = "gate"
  /\ \/ run' = [run EXCEPT !.pc = "execute", !.revision = 0]
     \/ Result("blocked")
     \/ Revise
     \/ Result("failed")
  /\ UNCHANGED <<git, state, world, faults, lost, blind>>

\* A reply without a status: the newest EXEC packet of the task decides, and
\* one of an earlier dispatch of the task will do.
Recovered == packet'[run.task]

\* Files are written and renamed, with git mv or without; writing the old path
\* again undoes a rename.
Edit(written, renames, staged) ==
  LET Kept(ms) == {m \in ms : m.from \notin written} IN
  /\ dirty' = dirty \cup written \cup UNION {{m.from, m.to} : m \in renames}
  /\ moved' = Kept(moved) \cup renames
  /\ indexed' = Kept(indexed) \cup staged

\* One execution: files are edited, an EXEC packet may be written, and the
\* model call fails, or its reply carries a status or none.
Execute ==
  /\ run.pc = "execute"
  /\ \E written \in Edits, renames \in SUBSET Renames :
       \E staged \in SUBSET renames : Edit(written, renames, staged)
  /\ \E p \in BOOLEAN : packet' = [packet EXCEPT ![run.task] = p]
  /\ \/ Result("failed")
     \/ Result("blocked")
     \/ Go("scope")
     \/ IF Recovered THEN Go("scope") ELSE Result("blocked")
  /\ UNCHANGED <<origin, tracked, main, branches, head, merges,
                 failures, stopped, verdict, world, faults, lost, blind>>

\* What the packet lets the executor edit.
Allowed == run.scope \cup Artifacts

\* The scope guard covers the whole dirty set, of this round and before, as
\* git status lists it, which sees the renames that are staged.
CheckScope ==
  /\ run.pc = "scope"
  /\ \E seen \in SUBSET Files :
       /\ Reported(seen, indexed)
       /\ IF seen \subseteq Allowed
          THEN run' = [run EXCEPT !.pc = "verify", !.changed = seen]
          ELSE Result("failed")
  /\ UNCHANGED <<git, state, world, lost, blind>>

\* A correction directive, while rounds are left.
Correct ==
  IF run.round < MaxRounds
  THEN run' = [run EXCEPT !.pc = "execute", !.round = @ + 1]
  ELSE Result("failed")

\* run_verify stops at the first red step; a run is publishable when all
\* steps are green and no step was trimmed.  The tools it runs may leave files.
Verify ==
  /\ run.pc = "verify"
  /\ \/ UNCHANGED <<tree, faults>>
     \/ \E f \in Strays : ~(f \subseteq dirty) /\ Edit(f, {}, {}) /\ Fault
  /\ \E green \in 0..Steps :
       IF green < Steps THEN Correct
       ELSE IF Steps < MinSteps THEN Result("failed") ELSE Go("control")
  /\ UNCHANGED <<origin, tracked, main, branches, head, state, world,
                 lost, blind>>

\* The controller's verdict is read from a file of the run directory, which
\* a reply without a message leaves as an earlier dispatch wrote it.  A pass
\* that is not ready asks for changes.
Control ==
  /\ run.pc = "control"
  /\ \/ Result("failed") /\ UNCHANGED verdict
     \/ /\ verdict' = [verdict EXCEPT ![run.task] = @ \cup {run.round}]
        /\ Result("passed")
     \/ /\ verdict' = [verdict EXCEPT ![run.task] = @ \ {run.round}]
        /\ (Correct \/ Result("blocked"))
     \/ /\ run.round \in verdict[run.task] /\ UNCHANGED verdict
        /\ Result("passed")
  /\ UNCHANGED <<git, merges, failures, stopped, packet, world, faults, lost,
                 blind>>

\* The command line counts the result and goes on to publish a passed one.
Count ==
  /\ run.pc = "result"
  /\ failures' = IF run.status = "passed" THEN 0 ELSE failures + 1
  /\ IF run.status = "passed" /\ run.mode # "none" THEN Go("decide")
     ELSE run' = Idle
  /\ UNCHANGED <<git, merges, stopped, packet, verdict, world, faults, lost,
                 blind>>

-----------------------------------------------------------------------------
(* Publishing. *)

Reviewable == run.changed \ Artifacts
Covers(g) == Reviewable \subseteq g.scope

\* Mutant: the merges already charged are not counted.
Usable_Uncounted(g) == Covers(g)

\* A live authorization that covers every reviewable file and is not used up.
Usable(g) == Charged(g) < g.max /\ Covers(g)

\* parse_authorizations: the store holds what the owner has recorded by now;
\* expired entries do not count and one malformed entry voids all.
Live == SUBSET Grants

\* decide_publish: fail closed towards a pull request.
Decide ==
  /\ run.pc = "decide"
  /\ \E live \in Live :
       LET To(action, g) ==
             run' = [run EXCEPT !.pc = "branch", !.action = action, !.grant = g]
       IN CASE run.mode = "branch" \/ run.changed = {} -> To("branch", None)
            [] run.mode = "pr" /\ run.changed # {} -> To("pr", None)
            [] run.mode = "main" /\ run.changed # {} ->
                 IF Reviewable = {} THEN To("branch", None)
                 ELSE IF Reviewable \cap Protected # {}
                         \/ ~\E g \in live : Usable(g)
                      THEN To("pr", None)
                      ELSE \E g \in live : Usable(g) /\ To("merge", g.id)
  /\ UNCHANGED <<git, state, world, faults, lost, blind>>

\* A failed step of the publisher ends it and leaves the checkout as it is.
GiveUp == run' = Idle

\* git checkout -b carries the working tree onto a branch cut from HEAD.
CreateBranch ==
  /\ run.pc = "branch"
  /\ \/ /\ branches[run.task] = None
        /\ branches' = [branches EXCEPT ![run.task] = Tip] /\ head' = run.task
        /\ Go("commit") /\ UNCHANGED faults
     \/ /\ branches[run.task] # None /\ GiveUp
        /\ UNCHANGED <<branches, head, faults>>
     \/ /\ branches[run.task] = None /\ Fault /\ GiveUp
        /\ UNCHANGED <<branches, head>>
  /\ UNCHANGED <<origin, tracked, main, tree, state, world, lost, blind>>

\* Mutant: everything that is dirty is committed.
Extra_Unchecked(staged) == {}

\* What is staged beyond the files the scope guard saw; not asked when it saw
\* none.
Extra(staged) == IF run.changed = {} THEN {} ELSE staged \ run.changed

ThisCommit ==
  [task |-> run.task, files |-> dirty, moved |-> moved, scope |-> run.scope,
   action |-> run.action, grant |-> run.grant]

\* git add -A may have staged everything before a later step ended.
MayStage == UNCHANGED <<dirty, moved>> /\ indexed' \in {indexed, moved}

\* _commit_exact: stage everything, compare names, commit.  All renames are
\* staged by then; a refusal unstages them.
CommitExact ==
  /\ run.pc = "commit"
  /\ \E staged \in SUBSET Files :
       /\ Reported(staged, moved)
       /\ blind' = (blind \/ (staged = {} /\ dirty # {}))
       /\ IF Extra(staged) # {} \/ dirty = {}
          THEN GiveUp /\ indexed' = {} /\ UNCHANGED <<branches, dirty, moved>>
          ELSE /\ branches' = [branches EXCEPT
                    ![run.task] = Append(@, ThisCommit)]
               /\ dirty' = {} /\ moved' = {} /\ indexed' = {}
               /\ CASE run.action = "branch" -> GiveUp
                    [] run.action = "pr" -> Go("pr")
                    [] run.action = "merge" -> Go("fetch")
  /\ UNCHANGED <<origin, tracked, main, head, state, world, lost>>

\* _open_pr: push the branch, then gh pr create, whatever they answer; main
\* has no part in it.
OpenPr ==
  /\ run.pc = "pr"
  /\ GiveUp
  /\ UNCHANGED <<git, state, world, faults, lost, blind>>

FetchMain ==
  /\ run.pc = "fetch"
  /\ tracked' = origin /\ Go("checkout")
  /\ UNCHANGED <<origin, main, branches, head, tree, state, world,
                 faults, lost, blind>>

CheckoutMain ==
  /\ run.pc = "checkout"
  /\ head' = None /\ Go("merge")
  /\ UNCHANGED <<origin, tracked, main, branches, tree, state, world,
                 faults, lost, blind>>

\* git merge --ff-only
Merged(m, b) == IF IsPrefix(m, b) THEN b ELSE None

FastForward ==
  /\ run.pc = "merge"
  /\ LET m == Merged(main, branches[run.task]) IN
       IF m = None THEN GiveUp /\ UNCHANGED main
       ELSE main' = m /\ Go("push")
  /\ UNCHANGED <<origin, tracked, branches, head, tree, state, world,
                 faults, lost, blind>>

\* git push origin main; when it fails, git reset --hard origin/main.
PushMain ==
  /\ run.pc = "push"
  /\ \/ /\ IsPrefix(origin, main)
        /\ origin' = main /\ tracked' = main /\ Go("record")
        /\ UNCHANGED <<main, faults, lost>>
     \/ /\ ~IsPrefix(origin, main)
        /\ main' = tracked /\ GiveUp
        /\ UNCHANGED <<origin, tracked, faults, lost>>
     \/ \* killed by its timeout after the server had taken it
        /\ IsPrefix(origin, main) /\ Fault
        /\ origin' = main /\ main' = tracked /\ lost' = lost + 1 /\ GiveUp
        /\ UNCHANGED tracked
  /\ UNCHANGED <<branches, head, tree, state, world, blind>>

\* record_merge charges the authorization after the push.
RecordMerge ==
  /\ run.pc = "record"
  /\ merges' = Append(merges, run.grant) /\ GiveUp
  /\ UNCHANGED <<git, failures, stopped, packet, verdict, world, faults, lost,
                 blind>>

\* Any other step of the publisher may fail and change nothing but the index.
StepFails ==
  /\ run.pc \in {"commit", "fetch", "checkout", "merge"}
  /\ Fault /\ GiveUp
  /\ IF run.pc = "commit" THEN MayStage ELSE UNCHANGED tree
  /\ UNCHANGED <<origin, tracked, main, branches, head, state, world, lost,
                 blind>>

\* The process dies; the counter it was writing may be left empty, and an
\* empty counter is read as zero.
Crash ==
  /\ run.pc # "idle" /\ Fault /\ GiveUp
  /\ \/ failures' = failures
     \/ run.pc = "result" /\ failures' = 0
  /\ lost' = IF run.pc = "record" THEN lost + 1 ELSE lost
  /\ IF run.pc = "commit" THEN MayStage ELSE UNCHANGED tree
  /\ UNCHANGED <<origin, tracked, main, branches, head, merges, stopped, packet,
                 verdict, world, blind>>

-----------------------------------------------------------------------------
(* The people around it. *)

Theirs == [task |-> None, files |-> Files, moved |-> {}, scope |-> Files,
           action |-> "theirs", grant |-> None]

PushTheirs ==
  /\ pushes < MaxPushes /\ pushes' = pushes + 1
  /\ origin' = Append(origin, Theirs)
  /\ UNCHANGED <<tracked, main, branches, head, tree, state,
                 dispatches, run, faults, lost, blind>>

\* Between dispatches the operator returns to main, with or without taking
\* what the server has, and may delete a branch and clear the counter.
Tidy ==
  /\ run.pc = "idle"
  /\ head' = None /\ dirty' = {} /\ moved' = {} /\ indexed' = {}
  /\ \/ UNCHANGED <<tracked, main>>
     \/ tracked' = origin /\ main' = origin
  /\ branches' \in {branches, [t \in Tasks |-> None]}
  /\ failures' = 0 /\ stopped' = FALSE
  /\ UNCHANGED <<origin, merges, packet, verdict, world, run, faults,
                 lost, blind>>

\* The operator leaves a sentinel.
StopDispatching ==
  /\ run.pc = "idle" /\ ~stopped /\ stopped' = TRUE
  /\ UNCHANGED <<git, merges, failures, packet, verdict, world, run, faults,
                 lost, blind>>

\* The steps of a dispatch.
Work ==
  \/ Preflight \/ PlanTask \/ Gate \/ Execute \/ CheckScope \/ Verify
  \/ Control \/ Count \/ Decide \/ CreateBranch \/ CommitExact \/ OpenPr
  \/ FetchMain \/ CheckoutMain \/ FastForward \/ PushMain \/ RecordMerge

Next ==
  \/ \E t \in Tasks, m \in Modes : Begin(t, m)
  \/ Work
  \/ StepFails \/ Crash
  \/ PushTheirs \/ Tidy \/ StopDispatching

Spec == Init /\ [][Next]_vars

-----------------------------------------------------------------------------
(* Properties. *)

OfDispatcher == {i \in DOMAIN origin : origin[i].action # "theirs"}
MergedUnder(g) == {i \in OfDispatcher : origin[i].grant = g.id}

\* The commit c may change the path f: it is inside the declared scope and, but
\* for a handoff packet, off the protected paths and covered by g.
Authorized(c, g, f) ==
  /\ f \in c.scope \cup Artifacts
  /\ f \in Artifacts \/ (f \notin Protected /\ f \in g.scope)

\* The commit c takes the path f away as the old one of a rename.
RenamedInto(c, g, f) ==
  \E m \in c.moved : m.from = f /\ m.to \in c.files /\ Authorized(c, g, m.to)

\* What the dispatcher brings to origin/main is a merge decided as one, and each
\* path that it changes there is inside the declared scope, off the protected
\* paths and covered by the authorization, or renamed to one that is, whatever
\* was left in the checkout by failed or interrupted dispatches before it, as
\* long as no failed git command passed for a clean answer.  (The code claims
\* more, publish.py:304, than it does for the old path of a rename.)
MainOnlyGranted ==
  ~blind =>
    \A i \in OfDispatcher :
      LET c == origin[i] IN
      /\ c.action = "merge"
      /\ \E g \in Grants :
           /\ g.id = c.grant
           /\ \A f \in c.files : Authorized(c, g, f) \/ RenamedInto(c, g, f)

\* max_merges caps the merges made under an authorization (the largest one, if
\* an id is recorded twice), up to those whose charge was lost with a process
\* or a reply; a failed git command read as a clean answer lets an earlier
\* dispatch's commit ride along uncharged.
GrantsBounded ==
  ~blind => \A g \in Grants : \E h \in Grants :
              h.id = g.id /\ Cardinality(MergedUnder(g)) <= h.max + lost

-----------------------------------------------------------------------------
(* The inductive invariant behind the theorems of DispatcherProofs.        *)

Ids == {g.id : g \in Grants} \cup {None}
Actions == {"none", "branch", "pr", "merge"}
Commit ==
  [task: Tasks \cup {None}, files: SUBSET Files, moved: SUBSET Renames,
   scope: SUBSET Files, action: Actions \cup {"theirs"}, grant: Ids]
Phases ==
  {"idle", "preflight", "plan", "gate", "execute", "scope", "verify", "control",
   "result", "decide", "branch", "commit", "pr", "fetch", "checkout", "merge",
   "push", "record"}

TypeOK ==
  /\ origin \in Seq(Commit) /\ tracked \in Seq(Commit) /\ main \in Seq(Commit)
  /\ branches \in [Tasks -> Seq(Commit) \cup {None}]
  /\ head \in Tasks \cup {None} /\ (head # None => branches[head] \in Seq(Commit))
  /\ dirty \in SUBSET Files
  /\ moved \in SUBSET Renames /\ indexed \in SUBSET moved
  /\ merges \in Seq(Ids) /\ failures \in Nat /\ stopped \in BOOLEAN
  /\ packet \in [Tasks -> BOOLEAN] /\ verdict \in [Tasks -> SUBSET Nat]
  /\ run \in [pc: Phases, task: Tasks \cup {None}, mode: Modes \cup {"none"},
               scope: SUBSET Files, revision: Nat, round: Nat, changed: SUBSET Files,
               action: Actions, grant: Ids,
               status: {"none", "passed", "failed", "blocked"}]
  /\ run.pc \notin {"idle", "result"} => run.task \in Tasks
  /\ run.pc = "result" /\ run.status = "passed" => run.task \in Tasks
  /\ run.pc \in {"commit", "fetch", "checkout", "merge", "push"} =>
       branches[run.task] \in Seq(Commit)
  /\ run.pc = "decide" => run.mode # "none"
  /\ run.pc \in {"branch", "commit"} => run.action # "none"
  /\ dispatches \in Nat /\ faults \in Nat /\ pushes \in Nat /\ lost \in Nat
  /\ blind \in BOOLEAN

\* A commit that may be on origin/main.
Admissible(c) ==
  c.action # "theirs" =>
    /\ c.action = "merge"
    /\ \E g \in Grants :
         /\ g.id = c.grant
         /\ \A f \in c.files : Authorized(c, g, f) \/ RenamedInto(c, g, f)

\* The dispatch is past its preflight, and in the course of being published.
Passed == run.pc = "result" /\ run.status = "passed"
Prepared ==
  run.pc \in {"plan", "gate", "execute", "scope", "verify", "control", "decide", "branch"} \/ Passed
Scoped == run.pc \in {"verify", "control", "decide", "branch", "commit"} \/ Passed
Merging == run.pc \in {"fetch", "checkout", "merge", "push"}

\* What the dispatcher fetched last is a part of origin/main, and what it has
\* checked out is exactly that until it commits.
HistoryInv ==
  /\ IsPrefix(tracked, origin)
  /\ \A i \in DOMAIN origin : Admissible(origin[i])
  /\ Prepared => Tip = tracked
  /\ run.pc = "commit" => branches[run.task] = tracked

\* What is published was in scope, and what is merged was decided so.
DecisionInv ==
  /\ Scoped => run.changed \subseteq Allowed
  /\ run.pc \in {"branch", "commit"} /\ run.action = "merge" =>
       /\ run.changed # {} /\ Reviewable \cap Protected = {}
       /\ \E g \in Grants : g.id = run.grant /\ Covers(g)

\* A branch on its way to origin/main adds one admissible commit to a part of it.
BranchInv ==
  /\ Merging => \E h \in Seq(Commit), c \in Commit :
       /\ branches[run.task] = Append(h, c) /\ IsPrefix(h, origin)
       /\ c.action = "merge" /\ c.grant = run.grant /\ Admissible(c)
  /\ run.pc = "push" => main = branches[run.task]

\* An authorization that has been chosen can still be charged, and its charges
\* and what was lost account for the merges made under it.
ChargeInv ==
  /\ Merging \/ run.pc = "record" => run.action = "merge"
  /\ (Merging \/ run.pc \in {"branch", "commit", "record"}) /\ run.action = "merge" =>
       \E g \in Grants : g.id = run.grant /\ Charged(g) < g.max
  /\ \A g \in Grants : \E h \in Grants : h.id = g.id /\ Charged(g) <= h.max

Pending(g) == IF run.pc = "record" /\ run.grant = g.id THEN 1 ELSE 0
CountInv ==
  \A g \in Grants : Cardinality(MergedUnder(g)) <= Charged(g) + lost + Pending(g)

IInv ==
  /\ TypeOK /\ ChargeInv
  /\ ~blind => HistoryInv /\ DecisionInv /\ BranchInv /\ CountInv
=============================================================================
