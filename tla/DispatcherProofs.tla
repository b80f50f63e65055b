-------------------------- MODULE DispatcherProofs --------------------------
(***************************************************************************)
(* Proofs about Dispatcher, for any tasks, files, authorizations, modes    *)
(* and limits, and for any number of dispatches, faults and pushes: what   *)
(* reaches origin/main was decided as a merge, in its scope and under an   *)
(* authorization, and authorizations are not used more often than allowed. *)
(***************************************************************************)
EXTENDS Dispatcher, FiniteSetTheorems, TLAPS

-----------------------------------------------------------------------------
(* Histories.                                                              *)

\* A prefix is what a history starts with.
LEMMA PrefixIs ==
  ASSUME NEW S, NEW s \in Seq(S), NEW t \in Seq(S)
  PROVE  IsPrefix(s, t) <=> Len(s) <= Len(t) /\ \A i \in 1..Len(s) : s[i] = t[i]
<1>1. ASSUME IsPrefix(s, t), NEW i \in 1..Len(s) PROVE s[i] = t[i]
  <2>1. SubSeq(s, 1, Len(s))[i] = SubSeq(t, 1, Len(s))[i] /\ Len(s) <= Len(t)
    BY <1>1 DEF IsPrefix
  <2> QED BY <2>1
<1>2. ASSUME Len(s) <= Len(t), \A i \in 1..Len(s) : s[i] = t[i] PROVE IsPrefix(s, t)
  <2>1. SubSeq(s, 1, Len(s)) = SubSeq(t, 1, Len(s))
    BY <1>2
  <2> QED BY <1>2, <2>1 DEF IsPrefix
<1> QED BY <1>1, <1>2 DEF IsPrefix

\* Prefixes of prefixes are prefixes.
LEMMA PrefixOfPrefix ==
  ASSUME NEW S, NEW s \in Seq(S), NEW t \in Seq(S), NEW u \in Seq(S),
         IsPrefix(s, t), IsPrefix(t, u)
  PROVE  IsPrefix(s, u)
BY PrefixIs

\* A history is a prefix of itself and of what is appended to it.
LEMMA PrefixGrows ==
  ASSUME NEW S, NEW s \in Seq(S), NEW e \in S
  PROVE  IsPrefix(s, s) /\ IsPrefix(s, Append(s, e))
<1>1. /\ Append(s, e) \in Seq(S) /\ Len(Append(s, e)) = Len(s) + 1
      /\ \A i \in 1..Len(s) : s[i] = Append(s, e)[i]
  OBVIOUS
<1>2. Len(s) <= Len(Append(s, e))
  BY <1>1
<1>3. IsPrefix(s, Append(s, e))
  BY <1>1, <1>2, PrefixIs
<1> QED BY <1>3, PrefixIs

\* Between a history and its extension by one commit there is nothing.
LEMMA NothingBetween ==
  ASSUME NEW S, NEW s \in Seq(S), NEW t \in Seq(S), NEW e \in S,
         IsPrefix(s, t), IsPrefix(t, Append(s, e))
  PROVE  t = s \/ t = Append(s, e)
<1> DEFINE a == Append(s, e)
<1>1. a \in Seq(S) /\ Len(a) = Len(s) + 1 /\ \A i \in 1..Len(s) : a[i] = s[i]
  OBVIOUS
<1>2. IsPrefix(t, a)
  OBVIOUS
<1> HIDE DEF a
<1>3. Len(s) <= Len(t) /\ Len(t) <= Len(a) /\ \A i \in 1..Len(t) : t[i] = a[i]
  BY <1>1, <1>2, PrefixIs
<1>4. CASE Len(t) = Len(s)
  <2>1. \A i \in 1..Len(s) : t[i] = s[i]
    BY <1>1, <1>3, <1>4
  <2> QED BY <1>4, <2>1
<1>5. CASE Len(t) = Len(a)
  <2>1. t = a
    BY <1>1, <1>3, <1>5
  <2> QED BY <2>1 DEF a
<1> QED BY <1>1, <1>3, <1>4, <1>5

-----------------------------------------------------------------------------
(* Types.                                                                  *)

Run == [pc: Phases, task: Tasks \cup {None}, mode: Modes \cup {"none"},
        scope: SUBSET Files, revision: Nat, round: Nat, changed: SUBSET Files,
        action: Actions, grant: Ids,
        status: {"none", "passed", "failed", "blocked"}]

\* A dispatch that has ended leaves nothing behind.
LEMMA IdleTyped == Idle \in Run /\ Idle.pc = "idle" /\ Idle.status = "none"
BY DEF Idle, Run, Phases, Actions, Ids

\* A result ends the dispatch, or lets a passed one be counted.
LEMMA ResultTyped ==
  ASSUME run \in Run, NEW status \in {"passed", "failed", "blocked"}, Result(status)
  PROVE  /\ run' \in Run /\ run'.pc = "result" /\ run'.status = status
         /\ status = "passed" =>
              run'.task = run.task /\ run'.changed = run.changed /\ run'.scope = run.scope
<1>1. "result" \in Phases
  BY DEF Phases
<1>2. CASE status = "passed"
  <2>1. run' = [run EXCEPT !.pc = "result", !.status = "passed", !.round = 0]
    BY <1>2 DEF Result
  <2> QED BY <1>1, <1>2, <2>1 DEF Run
<1>3. CASE status # "passed"
  <2>1. run' = [Idle EXCEPT !.pc = "result", !.status = status]
    BY <1>3 DEF Result
  <2> QED BY <1>1, <1>3, <2>1, IdleTyped DEF Run
<1> QED BY <1>2, <1>3

\* The next phase of the same dispatch.
LEMMA GoTyped ==
  ASSUME run \in Run, NEW pc \in Phases, Go(pc)
  PROVE  /\ run' \in Run /\ run'.pc = pc /\ run'.task = run.task /\ run'.status = run.status
         /\ run'.changed = run.changed /\ run'.scope = run.scope /\ run'.action = run.action
         /\ run'.grant = run.grant /\ run'.mode = run.mode
BY DEF Go, Run

\* A plan or an execution is repeated, or the dispatch has failed.
LEMMA AgainTyped ==
  ASSUME run \in Run, Revise \/ Correct
  PROVE  /\ run' \in Run
         /\ \/ run'.pc \in {"plan", "execute"} /\ run'.task = run.task
            \/ run'.pc = "result" /\ run'.status = "failed"
<1> "plan" \in Phases /\ "execute" \in Phases
  BY DEF Phases
<1> run.revision \in Nat /\ run.round \in Nat
  BY DEF Run
<1>1. ASSUME NEW n \in Nat, run' = [run EXCEPT !.pc = "plan", !.revision = n]
      PROVE  run' \in Run /\ run'.pc = "plan" /\ run'.task = run.task
  BY <1>1 DEF Run
<1>2. ASSUME NEW n \in Nat, run' = [run EXCEPT !.pc = "execute", !.round = n]
      PROVE  run' \in Run /\ run'.pc = "execute" /\ run'.task = run.task
  BY <1>2 DEF Run
<1>3. CASE Result("failed")
  BY <1>3, ResultTyped
<1>4. CASE Revise /\ ~ Result("failed")
  <2>1. run.revision + 1 \in Nat /\ run' = [run EXCEPT !.pc = "plan", !.revision = run.revision + 1]
    BY <1>4 DEF Revise
  <2> QED BY <1>1, <2>1
<1>5. CASE Correct /\ ~ Result("failed")
  <2>1. run.round + 1 \in Nat /\ run' = [run EXCEPT !.pc = "execute", !.round = run.round + 1]
    BY <1>5 DEF Correct
  <2> QED BY <1>2, <2>1
<1> QED BY <1>3, <1>4, <1>5

\* The working tree.
TreeTyped == dirty \in SUBSET Files /\ moved \in SUBSET Renames /\ indexed \in SUBSET moved

\* It stays typed while nothing touches it, or is clean.
LEMMA TreeKept ==
  ASSUME TreeTyped,
         \/ dirty' = dirty /\ moved' = moved /\ indexed' = indexed
         \/ dirty' = {} /\ moved' = {} /\ indexed' = {}
         \/ MayStage
  PROVE  TreeTyped'
BY DEF TreeTyped, MayStage

\* It stays typed when files are written and renamed.
LEMMA EditTyped ==
  ASSUME TreeTyped, NEW written \in SUBSET Files, NEW renames \in SUBSET Renames,
         NEW staged \in SUBSET renames, Edit(written, renames, staged)
  PROVE  TreeTyped'
<1>1. UNION {{m.from, m.to} : m \in renames} \subseteq Files
  BY DispatcherAssumption
<1>2. dirty' \in SUBSET Files
  BY <1>1 DEF TreeTyped, Edit
<1> QED BY <1>2 DEF TreeTyped, Edit

\* What a listing leaves out has been renamed to something it holds.
LEMMA ListingCovers ==
  ASSUME NEW renames, NEW r \in Listings(renames)
  PROVE  r \subseteq dirty /\ \A f \in dirty \ r : \E m \in renames : m.from = f /\ m.to \in r
BY DEF Listings

\* The parts of the type invariant, the dispatch apart from the world.
WorldTyped ==
  /\ origin \in Seq(Commit) /\ tracked \in Seq(Commit) /\ main \in Seq(Commit)
  /\ branches \in [Tasks -> Seq(Commit) \cup {None}]
  /\ head \in Tasks \cup {None} /\ (head # None => branches[head] \in Seq(Commit))
  /\ TreeTyped
  /\ merges \in Seq(Ids) /\ failures \in Nat /\ stopped \in BOOLEAN
  /\ packet \in [Tasks -> BOOLEAN] /\ verdict \in [Tasks -> SUBSET Nat]
  /\ dispatches \in Nat /\ faults \in Nat /\ pushes \in Nat /\ lost \in Nat
  /\ blind \in BOOLEAN

RunTyped ==
  /\ run \in Run
  /\ run.pc \notin {"idle", "result"} => run.task \in Tasks
  /\ Passed => run.task \in Tasks
  /\ run.pc \in {"commit", "fetch", "checkout", "merge", "push"} =>
       branches[run.task] \in Seq(Commit)
  /\ run.pc = "decide" => run.mode # "none"
  /\ run.pc \in {"branch", "commit"} => run.action # "none"

\* Together they are the type invariant.
LEMMA TypeParts ==
  (TypeOK <=> WorldTyped /\ RunTyped) /\ (TypeOK' <=> WorldTyped' /\ RunTyped')
BY DEF TypeOK, WorldTyped, TreeTyped, RunTyped, Run, Passed

\* A step into a phase in which the branch is not looked at.
LEMMA RunMoves ==
  ASSUME RunTyped, run' \in Run, run'.task = run.task,
         run'.pc \notin {"commit", "fetch", "checkout", "merge", "push", "decide"},
         run'.pc = "branch" => run'.action # "none",
         run.pc # "idle", run.pc # "result" \/ Passed
  PROVE  RunTyped'
BY DEF RunTyped, Passed

\* A dispatch that has failed, or is over.
LEMMA RunEnds ==
  ASSUME run' = Idle \/ (run' \in Run /\ run'.pc = "result" /\ run'.status # "passed")
  PROVE  RunTyped'
BY IdleTyped DEF RunTyped, Passed

\* A result of the loop.
LEMMA RunResult ==
  ASSUME RunTyped, NEW status \in {"passed", "failed", "blocked"}, Result(status),
         run.pc \notin {"idle", "result"}
  PROVE  RunTyped'
BY ResultTyped DEF RunTyped, Passed

\* A revision of the plan or a correction of the change.
LEMMA RunAgain ==
  ASSUME RunTyped, Revise \/ Correct, run.pc \notin {"idle", "result"}
  PROVE  RunTyped'
BY AgainTyped DEF RunTyped, Passed

\* The next phase of the dispatch.
LEMMA RunGoes ==
  ASSUME RunTyped, NEW pc \in Phases, Go(pc), run.pc # "idle", run.pc # "result" \/ Passed,
         pc \in {"commit", "fetch", "checkout", "merge", "push"} =>
           branches'[run.task] \in Seq(Commit),
         pc = "decide" => run.mode # "none",
         pc \in {"branch", "commit"} => run.action # "none"
  PROVE  RunTyped'
BY GoTyped DEF RunTyped, Passed

\* What is checked out is a history.
LEMMA TipTyped == ASSUME WorldTyped PROVE Tip \in Seq(Commit)
BY DEF WorldTyped, Tip

\* Phases by name.
LEMMA PhaseNames ==
  /\ "preflight" \in Phases /\ "plan" \in Phases /\ "gate" \in Phases /\ "execute" \in Phases
  /\ "scope" \in Phases /\ "verify" \in Phases /\ "control" \in Phases /\ "decide" \in Phases
  /\ "branch" \in Phases /\ "commit" \in Phases /\ "pr" \in Phases /\ "fetch" \in Phases
  /\ "checkout" \in Phases /\ "merge" \in Phases /\ "push" \in Phases /\ "record" \in Phases
BY DEF Phases

\* The loop's steps keep the types.
LEMMA LoopTyped ==
  ASSUME TypeOK, Preflight \/ PlanTask \/ Gate \/ Execute \/ CheckScope \/ Verify \/ Control \/ Count
  PROVE  TypeOK'
<1> USE DEF git, tree, state, world, TreeTyped
<1>w. WorldTyped /\ RunTyped
  BY TypeParts
<1>1. CASE Preflight
  <2>1. run.pc = "preflight" /\ (Go("plan") \/ Result("failed"))
    BY <1>1 DEF Preflight
  <2>2. RunTyped'
    BY <1>w, <2>1, RunGoes, RunResult, PhaseNames
  <2>3. WorldTyped'
    <3>1. /\ UNCHANGED <<git, state, world, lost>>
          /\ faults' \in {faults, faults + 1}
      BY <1>1 DEF Preflight, Fault
    <3>2. blind' = blind \/ blind' = TRUE
      BY <1>1 DEF Preflight
    <3>3. blind' \in BOOLEAN
      BY <1>w, <3>2 DEF WorldTyped
    <3> QED BY <1>w, <3>1, <3>3 DEF WorldTyped
  <2> QED BY <2>2, <2>3, TypeParts
<1>2. CASE PlanTask
  <2>1. run.pc = "plan" /\ (Result("failed") \/ Revise \/ Packet)
    BY <1>2 DEF PlanTask
  <2>2. ASSUME Packet PROVE RunTyped'
    <3>1. PICK s \in Scopes : run' = [run EXCEPT !.pc = "gate", !.scope = s]
      BY <2>2 DEF Packet
    <3>2. s \in SUBSET Files
      BY DispatcherAssumption
    <3>3. run' \in Run /\ run'.pc = "gate" /\ run'.task = run.task
      BY <1>w, <3>1, <3>2, PhaseNames DEF RunTyped, Run
    <3> QED BY <1>w, <2>1, <3>3, RunMoves
  <2>3. RunTyped'
    BY <1>w, <2>1, <2>2, RunResult, RunAgain
  <2>4. WorldTyped'
    BY <1>2, <1>w DEF PlanTask, WorldTyped
  <2> QED BY <2>3, <2>4, TypeParts
<1>3. CASE Gate
  <2>1. /\ run.pc = "gate"
        /\ \/ run' = [run EXCEPT !.pc = "execute", !.revision = 0]
           \/ Result("blocked") \/ Revise \/ Result("failed")
    BY <1>3 DEF Gate
  <2>2. ASSUME run' = [run EXCEPT !.pc = "execute", !.revision = 0] PROVE RunTyped'
    <3>1. run' \in Run /\ run'.pc = "execute" /\ run'.task = run.task
      BY <1>w, <2>2, PhaseNames DEF RunTyped, Run
    <3> QED BY <1>w, <2>1, <3>1, RunMoves
  <2>3. RunTyped'
    BY <1>w, <2>1, <2>2, RunResult, RunAgain
  <2>4. WorldTyped'
    BY <1>3, <1>w DEF Gate, WorldTyped
  <2> QED BY <2>3, <2>4, TypeParts
<1>4. CASE Execute
  <2>1. run.pc = "execute" /\ (Result("failed") \/ Result("blocked") \/ Go("scope"))
    BY <1>4 DEF Execute
  <2>2. RunTyped'
    BY <1>w, <2>1, RunGoes, RunResult, PhaseNames
  <2>3. PICK p \in BOOLEAN : packet' = [packet EXCEPT ![run.task] = p]
    BY <1>4 DEF Execute
  <2>4. TreeTyped'
    <3>1. PICK written \in Edits, renames \in SUBSET Renames :
            \E staged \in SUBSET renames : Edit(written, renames, staged)
      BY <1>4 DEF Execute
    <3>2. PICK staged \in SUBSET renames : Edit(written, renames, staged)
      BY <3>1
    <3>3. written \in SUBSET Files /\ TreeTyped
      BY <1>w, DispatcherAssumption DEF WorldTyped
    <3> QED BY <3>2, <3>3, EditTyped
  <2>5. WorldTyped'
    BY <1>4, <1>w, <2>3, <2>4 DEF Execute, WorldTyped
  <2> QED BY <2>2, <2>5, TypeParts
<1>5. CASE CheckScope
  <2>1. PICK seen \in SUBSET Files :
          /\ Reported(seen, indexed)
          /\ run' = [run EXCEPT !.pc = "verify", !.changed = seen] \/ Result("failed")
    BY <1>5 DEF CheckScope
  <2>2. ASSUME run' = [run EXCEPT !.pc = "verify", !.changed = seen] PROVE RunTyped'
    <3>1. run' \in Run /\ run'.pc = "verify" /\ run'.task = run.task
      BY <1>w, <2>2, PhaseNames DEF RunTyped, Run
    <3> QED BY <1>5, <1>w, <3>1, RunMoves DEF CheckScope
  <2>3. RunTyped'
    BY <1>5, <1>w, <2>1, <2>2, RunResult DEF CheckScope
  <2>4. WorldTyped'
    <3>1. /\ UNCHANGED <<git, state, world, lost, blind>>
          /\ faults' \in {faults, faults + 1}
      BY <1>5, <2>1 DEF CheckScope, Reported, Fault
    <3> QED BY <1>w, <3>1 DEF WorldTyped
  <2> QED BY <2>3, <2>4, TypeParts
<1>6. CASE Verify
  <2>1. run.pc = "verify" /\ (Correct \/ Result("failed") \/ Go("control"))
    BY <1>6 DEF Verify
  <2>2. RunTyped'
    BY <1>w, <2>1, RunGoes, RunResult, RunAgain, PhaseNames
  <2>3. TreeTyped' /\ faults' \in Nat
    <3>1. CASE UNCHANGED <<tree, faults>>
      BY <1>w, <3>1, TreeKept DEF WorldTyped
    <3>2. CASE \E f \in Strays : Edit(f, {}, {}) /\ Fault
      <4>1. PICK f \in Strays : Edit(f, {}, {}) /\ Fault
        BY <3>2
      <4>2. f \in SUBSET Files /\ TreeTyped /\ faults \in Nat
        BY <1>w, DispatcherAssumption DEF WorldTyped
      <4>3. TreeTyped'
        BY <4>1, <4>2, EditTyped
      <4> QED BY <4>1, <4>2, <4>3 DEF Fault
    <3> QED BY <1>6, <3>1, <3>2 DEF Verify
  <2>4. WorldTyped'
    BY <1>6, <1>w, <2>3 DEF Verify, WorldTyped
  <2> QED BY <2>2, <2>4, TypeParts
<1>7. CASE Control
  <2>1. run.pc = "control" /\ (Correct \/ \E status \in {"passed", "failed", "blocked"} : Result(status))
    BY <1>7 DEF Control
  <2>2. RunTyped'
    BY <1>w, <2>1, RunResult, RunAgain
  <2>3. run.round \in Nat /\ run.task \in Tasks
    BY <1>w, <2>1 DEF RunTyped, Run
  <2>4. verdict' \in [Tasks -> SUBSET Nat]
    BY <1>7, <1>w, <2>3 DEF Control, WorldTyped
  <2>5. WorldTyped'
    BY <1>7, <1>w, <2>4 DEF Control, WorldTyped
  <2> QED BY <2>2, <2>5, TypeParts
<1>8. CASE Count
  <2>1. /\ run.pc = "result"
        /\ (Passed /\ run.mode # "none" /\ Go("decide")) \/ run' = Idle
    BY <1>8 DEF Count, Passed
  <2>2. RunTyped'
    BY <1>w, <2>1, RunGoes, RunEnds, PhaseNames
  <2>3. WorldTyped'
    BY <1>8, <1>w DEF Count, WorldTyped
  <2> QED BY <2>2, <2>3, TypeParts
<1> QED BY <1>1, <1>2, <1>3, <1>4, <1>5, <1>6, <1>7, <1>8

\* What is being committed is a commit.
LEMMA CommitTyped == ASSUME WorldTyped, run \in Run PROVE ThisCommit \in Commit
BY DEF ThisCommit, Commit, WorldTyped, TreeTyped, Run

\* The publisher's steps keep the types.
LEMMA PublisherTyped ==
  ASSUME TypeOK, Decide \/ CreateBranch \/ CommitExact \/ OpenPr \/ FetchMain \/ CheckoutMain
                 \/ FastForward \/ PushMain \/ RecordMerge
  PROVE  TypeOK'
<1> USE DEF git, tree, state, world, TreeTyped, GiveUp
<1>w. WorldTyped /\ RunTyped
  BY TypeParts
<1>1. CASE Decide
  <2>0. run.mode \in {"branch", "pr", "main"}
    BY <1>1, <1>w, DispatcherAssumption DEF Decide, RunTyped, Run
  <2>1. PICK action \in Actions \ {"none"}, g \in Ids :
          run' = [run EXCEPT !.pc = "branch", !.action = action, !.grant = g]
    BY <1>1, <2>0, ZenonT(60) DEF Decide, Actions, Ids, Live
  <2>2. run' \in Run /\ run'.pc = "branch" /\ run'.task = run.task /\ run'.action # "none"
    BY <1>w, <2>1, PhaseNames DEF RunTyped, Run
  <2>3. RunTyped'
    BY <1>1, <1>w, <2>2, RunMoves DEF Decide
  <2>4. WorldTyped'
    BY <1>1, <1>w DEF Decide, WorldTyped
  <2> QED BY <2>3, <2>4, TypeParts
<1>2. CASE CreateBranch
  <2>1. run.pc = "branch" /\ run.task \in Tasks
    BY <1>2, <1>w DEF CreateBranch, RunTyped
  <2>2. CASE branches' = [branches EXCEPT ![run.task] = Tip] /\ head' = run.task /\ Go("commit")
             /\ UNCHANGED faults
    <3>1. branches'[run.task] \in Seq(Commit) /\ branches' \in [Tasks -> Seq(Commit) \cup {None}]
      BY <1>w, <2>1, <2>2, TipTyped DEF WorldTyped
    <3>2. run.action # "none"
      BY <1>w, <2>1 DEF RunTyped
    <3>3. RunTyped'
      BY <1>w, <2>1, <2>2, <3>1, <3>2, RunGoes, PhaseNames
    <3>4. WorldTyped'
      BY <1>2, <1>w, <2>1, <2>2, <3>1 DEF CreateBranch, WorldTyped
    <3> QED BY <3>3, <3>4, TypeParts
  <2>3. CASE run' = Idle /\ UNCHANGED <<branches, head>> /\ faults' \in {faults, faults + 1}
    <3>1. WorldTyped'
      BY <1>2, <1>w, <2>3 DEF CreateBranch, WorldTyped
    <3> QED BY <2>3, <3>1, RunEnds, TypeParts
  <2> QED BY <1>2, <2>2, <2>3 DEF CreateBranch, Fault
<1>3. CASE CommitExact
  <2>1. run.pc = "commit" /\ run.task \in Tasks /\ branches[run.task] \in Seq(Commit)
    BY <1>3, <1>w DEF CommitExact, RunTyped
  <2>2. PICK staged \in SUBSET Files :
          /\ Reported(staged, moved)
          /\ blind' = (blind \/ (staged = {} /\ dirty # {}))
    BY <1>3 DEF CommitExact
  <2>3. faults' \in Nat /\ blind' \in BOOLEAN
    BY <1>w, <2>2 DEF Reported, Fault, WorldTyped
  <2>4. branches' \in [Tasks -> Seq(Commit) \cup {None}] /\ branches'[run.task] \in Seq(Commit)
        /\ \A t \in Tasks : branches[t] \in Seq(Commit) => branches'[t] \in Seq(Commit)
    <3>1. branches' = branches \/ branches' = [branches EXCEPT ![run.task] = Append(@, ThisCommit)]
      BY <1>3 DEF CommitExact
    <3>2. Append(branches[run.task], ThisCommit) \in Seq(Commit)
      BY <1>w, <2>1, CommitTyped DEF RunTyped
    <3> QED BY <1>w, <2>1, <3>1, <3>2 DEF WorldTyped
  <2>5. TreeTyped'
    BY <1>3, <1>w DEF CommitExact, WorldTyped, TreeTyped
  <2>6. UNCHANGED <<origin, tracked, main, head, state, world, lost>>
    BY <1>3 DEF CommitExact
  <2>7. WorldTyped'
    BY <1>w, <2>3, <2>4, <2>5, <2>6 DEF WorldTyped
  <2>8. run' = Idle \/ Go("pr") \/ Go("fetch")
    <3>1. run.action \in {"branch", "pr", "merge"}
      BY <1>w, <2>1 DEF RunTyped, Run, Actions
    <3> QED BY <1>3, <3>1 DEF CommitExact
  <2>9. RunTyped'
    BY <1>w, <2>1, <2>4, <2>8, RunGoes, RunEnds, PhaseNames
  <2> QED BY <2>7, <2>9, TypeParts
<1>4. CASE OpenPr
  BY <1>4, <1>w, RunEnds, TypeParts DEF OpenPr, WorldTyped
<1>5. CASE FetchMain
  <2>1. WorldTyped' /\ branches' = branches
    BY <1>5, <1>w DEF FetchMain, WorldTyped
  <2>2. RunTyped'
    BY <1>5, <1>w, <2>1, RunGoes, PhaseNames DEF FetchMain, RunTyped
  <2> QED BY <2>1, <2>2, TypeParts
<1>6. CASE CheckoutMain
  <2>1. WorldTyped' /\ branches' = branches
    BY <1>6, <1>w DEF CheckoutMain, WorldTyped
  <2>2. RunTyped'
    BY <1>6, <1>w, <2>1, RunGoes, PhaseNames DEF CheckoutMain, RunTyped
  <2> QED BY <2>1, <2>2, TypeParts
<1>7. CASE FastForward
  <2>1. main' \in Seq(Commit)
    BY <1>7, <1>w DEF FastForward, Merged, RunTyped, WorldTyped
  <2>2. WorldTyped' /\ branches' = branches
    BY <1>7, <1>w, <2>1 DEF FastForward, WorldTyped
  <2>3. RunTyped'
    BY <1>7, <1>w, <2>2, RunGoes, RunEnds, PhaseNames DEF FastForward, RunTyped
  <2> QED BY <2>2, <2>3, TypeParts
<1>8. CASE PushMain
  <2>1. run.pc = "push" /\ (run' = Idle \/ Go("record"))
    BY <1>8 DEF PushMain
  <2>2. RunTyped'
    BY <1>w, <2>1, RunGoes, RunEnds, PhaseNames
  <2>3. WorldTyped'
    BY <1>8, <1>w DEF PushMain, WorldTyped, Fault
  <2> QED BY <2>2, <2>3, TypeParts
<1>9. CASE RecordMerge
  <2>1. run.grant \in Ids
    BY <1>w DEF RunTyped, Run
  <2>2. WorldTyped'
    BY <1>9, <1>w, <2>1 DEF RecordMerge, WorldTyped
  <2> QED BY <1>9, <2>2, RunEnds, TypeParts DEF RecordMerge
<1> QED BY <1>1, <1>2, <1>3, <1>4, <1>5, <1>6, <1>7, <1>8, <1>9

\* Faults, other people and the operator keep the types.
LEMMA OthersTyped ==
  ASSUME TypeOK, \/ \E t \in Tasks, m \in Modes : Begin(t, m)
                 \/ StepFails \/ Crash \/ PushTheirs \/ Tidy \/ StopDispatching \/ UNCHANGED vars
  PROVE  TypeOK'
<1> USE DEF git, tree, state, world, TreeTyped, GiveUp
<1>w. WorldTyped /\ RunTyped
  BY TypeParts
<1>1. ASSUME NEW t \in Tasks, NEW m \in Modes, Begin(t, m) PROVE TypeOK'
  <2>1. run' = [Idle EXCEPT !.pc = "preflight", !.task = t, !.mode = m]
    BY <1>1 DEF Begin
  <2>2. run' \in Run /\ run'.pc = "preflight" /\ run'.task \in Tasks
    BY <2>1, IdleTyped, PhaseNames DEF Run
  <2>3. RunTyped'
    BY <2>2 DEF RunTyped, Passed
  <2>4. WorldTyped'
    <3>1. UNCHANGED <<git, state, pushes, faults, lost>> /\ dispatches' = dispatches + 1
      BY <1>1 DEF Begin
    <3>2. blind' = blind
      BY <1>1 DEF Begin
    <3> QED BY <1>w, <3>1, <3>2 DEF WorldTyped
  <2> QED BY <2>3, <2>4, TypeParts
<1>2. CASE StepFails
  <2>1. TreeTyped'
    BY <1>2, <1>w DEF StepFails, WorldTyped, MayStage
  <2>2. WorldTyped'
    BY <1>2, <1>w, <2>1 DEF StepFails, WorldTyped, Fault
  <2> QED BY <1>2, <2>2, RunEnds, TypeParts DEF StepFails
<1>3. CASE Crash
  <2>1. TreeTyped'
    BY <1>3, <1>w DEF Crash, WorldTyped, MayStage
  <2>2. WorldTyped'
    BY <1>3, <1>w, <2>1 DEF Crash, WorldTyped, Fault
  <2> QED BY <1>3, <2>2, RunEnds, TypeParts DEF Crash
<1>4. CASE PushTheirs
  <2>1. Theirs \in Commit
    BY DEF Theirs, Commit, Ids
  <2>2. WorldTyped'
    BY <1>4, <1>w, <2>1 DEF PushTheirs, WorldTyped
  <2>3. RunTyped'
    BY <1>4, <1>w DEF PushTheirs, RunTyped, Passed
  <2> QED BY <2>2, <2>3, TypeParts
<1>5. CASE Tidy
  <2>1. RunTyped'
    BY <1>5, <1>w DEF Tidy, RunTyped, Passed
  <2>2. WorldTyped'
    BY <1>5, <1>w DEF Tidy, WorldTyped
  <2> QED BY <2>1, <2>2, TypeParts
<1>6. CASE StopDispatching
  <2>1. WorldTyped' /\ RunTyped'
    BY <1>6, <1>w DEF StopDispatching, WorldTyped, RunTyped, Passed
  <2> QED BY <2>1, TypeParts
<1>7. CASE UNCHANGED vars
  <2>1. WorldTyped' /\ RunTyped'
    BY <1>7, <1>w DEF vars, WorldTyped, RunTyped, Passed
  <2> QED BY <2>1, TypeParts
<1> QED BY <1>1, <1>2, <1>3, <1>4, <1>5, <1>6, <1>7

\* Every step keeps every variable in its type.
LEMMA TypeStep == ASSUME TypeOK, [Next]_vars PROVE TypeOK'
BY LoopTyped, PublisherTyped, OthersTyped DEF Next, Work

\* The dispatcher starts with everything empty.
LEMMA TypeInit == ASSUME Init PROVE TypeOK
<1>1. <<>> \in Seq(Commit) /\ <<>> \in Seq(Ids)
  OBVIOUS
<1>2. WorldTyped
  BY <1>1 DEF Init, WorldTyped, TreeTyped
<1>3. RunTyped
  BY IdleTyped DEF Init, RunTyped, Passed
<1> QED BY <1>2, <1>3, TypeParts

\* The variables stay in their types (TypeOK): the models may answer anything, commands may fail
\* and the process may die, and the state files and the checkout stay what the code can read.
THEOREM TypeCorrect == Spec => []TypeOK
<1>1. Init => TypeOK
  BY TypeInit
<1>2. TypeOK /\ [Next]_vars => TypeOK'
  BY TypeStep
<1> QED BY <1>1, <1>2, PTL DEF Spec

-----------------------------------------------------------------------------
(* Counting.                                                               *)

\* The places of a history that hold one of the entries T.
Places(s, T) == {i \in DOMAIN s : s[i] \in T}

\* One more entry of a history counts once, if it counts.
LEMMA CountAppend ==
  ASSUME NEW S, NEW T, NEW s \in Seq(S), NEW e \in S
  PROVE  /\ Cardinality(Places(s, T)) \in Nat
         /\ Cardinality(Places(Append(s, e), T))
              = Cardinality(Places(s, T)) + (IF e \in T THEN 1 ELSE 0)
<1> DEFINE a == Append(s, e)
           n == Len(s) + 1
           A == Places(s, T)
           B == Places(a, T)
<1>1. /\ DOMAIN a = 1..n /\ DOMAIN s = 1..Len(s) /\ Len(s) \in Nat
      /\ a[n] = e /\ \A i \in 1..Len(s) : a[i] = s[i]
  OBVIOUS
<1> HIDE DEF a
<1>2. IsFiniteSet(A) /\ n \notin A
  <2>0. 1 \in Int /\ Len(s) \in Int
    BY <1>1
  <2>1. IsFiniteSet(1..Len(s))
    BY <2>0, FS_Interval, Zenon
  <2>2. A \subseteq 1..Len(s)
    BY <1>1 DEF Places
  <2> QED BY <1>1, <2>1, <2>2, FS_Subset
<1>3. Cardinality(A) \in Nat /\ Cardinality(A \cup {n}) = Cardinality(A) + 1
  <2> HIDE DEF A, n
  <2> QED BY <1>2, FS_CardinalityType, FS_AddElement
<1>4. Cardinality(B) = Cardinality(A) + (IF e \in T THEN 1 ELSE 0)
  <2>1. CASE e \in T
    <3>1. B = A \cup {n}
      BY <1>1, <2>1 DEF Places
    <3> HIDE DEF A, B, n
    <3> QED BY <1>3, <2>1, <3>1
  <2>2. CASE e \notin T
    <3>1. B = A
      BY <1>1, <2>2 DEF Places
    <3> HIDE DEF A, B, n
    <3> QED BY <1>3, <2>2, <3>1
  <2> QED BY <2>1, <2>2
<1> QED BY <1>3, <1>4 DEF a

\* A merge that is recorded is charged to its authorization.
LEMMA ChargedCounts ==
  ASSUME merges \in Seq(Ids), NEW g \in Grants
  PROVE  /\ Charged(g) \in Nat
         /\ \A id \in Ids : merges' = Append(merges, id) =>
              Charged(g)' = Charged(g) + (IF id = g.id THEN 1 ELSE 0)
<1>1. {i \in DOMAIN merges : merges[i] = g.id} = Places(merges, {g.id})
  BY DEF Places
<1>2. Charged(g) \in Nat
  <2>1. None \in Ids
    BY DEF Ids
  <2>2. Cardinality(Places(merges, {g.id})) \in Nat
    BY <2>1, CountAppend
  <2> QED BY <1>1, <2>2 DEF Charged
<1>3. ASSUME NEW id \in Ids, merges' = Append(merges, id)
      PROVE  Charged(g)' = Charged(g) + (IF id = g.id THEN 1 ELSE 0)
  <2>1. {i \in DOMAIN merges' : merges'[i] = g.id}
          = Places(Append(merges, id), {g.id})
    BY <1>3 DEF Places
  <2>2. Charged(g)' = Cardinality({i \in DOMAIN merges' : merges'[i] = g.id})
    BY DEF Charged
  <2>3. Charged(g) = Cardinality(Places(merges, {g.id}))
    BY <1>1 DEF Charged
  <2>4. Cardinality(Places(Append(merges, id), {g.id}))
          = Cardinality(Places(merges, {g.id}))
              + (IF id \in {g.id} THEN 1 ELSE 0)
    BY <1>3, CountAppend
  <2>5. id \in {g.id} <=> id = g.id
    OBVIOUS
  <2>6. Charged(g)' = Charged(g) + (IF id \in {g.id} THEN 1 ELSE 0)
    BY <2>1, <2>2, <2>3, <2>4
  <2> QED BY <2>5, <2>6
<1> QED BY <1>2, <1>3

\* The dispatcher's commits under an authorization, in any history.
Under(g) == {c \in Commit : c.action # "theirs" /\ c.grant = g.id}

\* A commit added to origin/main counts for the authorization it was made under.
LEMMA MergesCount ==
  ASSUME origin \in Seq(Commit), NEW g \in Grants
  PROVE  /\ Cardinality(MergedUnder(g)) \in Nat
         /\ \A c \in Commit : origin' = Append(origin, c) =>
              Cardinality(MergedUnder(g))'
                = Cardinality(MergedUnder(g)) + (IF c \in Under(g) THEN 1 ELSE 0)
<1>1. MergedUnder(g) = Places(origin, Under(g))
  BY DEF MergedUnder, OfDispatcher, Under, Places
<1>2. Theirs \in Commit
  BY DEF Theirs, Commit, Ids
<1>3. Cardinality(MergedUnder(g)) \in Nat
  <2>1. Cardinality(Places(origin, Under(g))) \in Nat
    BY <1>2, CountAppend
  <2> QED BY <1>1, <2>1
<1>4. ASSUME NEW c \in Commit, origin' = Append(origin, c)
      PROVE  Cardinality(MergedUnder(g))'
               = Cardinality(MergedUnder(g)) + (IF c \in Under(g) THEN 1 ELSE 0)
  <2>1. origin' \in Seq(Commit)
    BY <1>4
  <2>2. MergedUnder(g)' = Places(origin', Under(g))
    BY <2>1 DEF MergedUnder, OfDispatcher, Under, Places
  <2>3. MergedUnder(g)' = Places(Append(origin, c), Under(g))
    BY <1>4, <2>2
  <2>4. Cardinality(Places(Append(origin, c), Under(g)))
          = Cardinality(Places(origin, Under(g)))
              + (IF c \in Under(g) THEN 1 ELSE 0)
    BY <1>4, CountAppend
  <2> QED BY <1>1, <2>3, <2>4
<1> QED BY <1>3, <1>4

-----------------------------------------------------------------------------
(* The loop and the faults, as far as publishing is concerned.             *)

LoopStep ==
  Preflight \/ PlanTask \/ Gate \/ Execute \/ CheckScope \/ Verify \/ Control \/ Count
Publishing == Merging \/ run.pc \in {"branch", "commit", "record"}

\* The loop touches no history, publishes nothing, and goes on from a clean checkout of what was
\* fetched last, with the files the scope guard saw.
LEMMA LoopFrame ==
  ASSUME TypeOK, LoopStep
  PROVE  /\ UNCHANGED <<origin, tracked, main, branches, head, merges, lost>>
         /\ ~Publishing /\ ~Publishing'
         /\ Prepared' => Prepared \/ Tip = tracked \/ blind'
         /\ Scoped' => \/ run'.changed \subseteq Allowed'
                       \/ Scoped /\ run'.changed = run.changed /\ run'.scope = run.scope
<1> USE DEF git, tree, state, world, Publishing, Merging
<1>w. WorldTyped /\ RunTyped /\ run \in Run
  BY TypeParts DEF RunTyped
<1>r. ASSUME Result("failed") \/ Result("blocked") PROVE ~Publishing' /\ ~Prepared' /\ ~Scoped'
  <2>1. run'.pc = "result" /\ run'.status # "passed"
    BY <1>r, <1>w, ResultTyped
  <2> QED BY <2>1 DEF Prepared, Scoped, Passed
<1>p. ASSUME Result("passed")
      PROVE  ~Publishing' /\ run'.changed = run.changed /\ run'.scope = run.scope
  BY <1>p, <1>w, ResultTyped
<1>a. ASSUME Revise \/ Correct PROVE ~Publishing' /\ ~Scoped'
  BY <1>a, <1>w, AgainTyped DEF Scoped, Passed
<1>g. ASSUME NEW pc \in {"plan", "execute", "scope", "control", "decide"}, Go(pc)
      PROVE  ~Publishing' /\ run'.pc = pc /\ run'.changed = run.changed /\ run'.scope = run.scope
  BY <1>g, <1>w, GoTyped, PhaseNames
<1>1. CASE Preflight
  <2>1. Go("plan") \/ Result("failed")
    BY <1>1 DEF Preflight
  <2>2. Go("plan") => Tip = tracked \/ blind'
    <3>1. ASSUME Tip # tracked PROVE Result("failed") \/ blind' = TRUE
      BY <1>1, <3>1 DEF Preflight
    <3>2. ~ (Go("plan") /\ Result("failed"))
      BY <1>r, <1>g DEF Prepared
    <3> QED BY <3>1, <3>2
  <2>3. UNCHANGED <<origin, tracked, main, branches, head, merges, lost>> /\ run.pc = "preflight"
    BY <1>1 DEF Preflight
  <2>4. ~Publishing' /\ ~Scoped'
    BY <2>1, <1>r, <1>g DEF Scoped, Passed
  <2> QED BY <1>r, <2>1, <2>2, <2>3, <2>4
<1>2. CASE PlanTask
  <2>1. Packet => ~Publishing' /\ ~Scoped'
    <3>1. ASSUME NEW s \in Scopes, run' = [run EXCEPT !.pc = "gate", !.scope = s]
          PROVE  ~Publishing' /\ ~Scoped'
      BY <3>1, <1>w DEF Scoped, Passed, Run
    <3> QED BY <3>1 DEF Packet
  <2>2. ~Publishing' /\ ~Scoped'
    BY <1>2, <2>1, <1>r, <1>a DEF PlanTask
  <2> QED BY <1>2, <2>2 DEF PlanTask, Prepared
<1>3. CASE Gate
  <2>1. run' = [run EXCEPT !.pc = "execute", !.revision = 0] => ~Publishing' /\ ~Scoped'
    BY <1>w DEF Scoped, Passed, Run
  <2>2. ~Publishing' /\ ~Scoped'
    BY <1>3, <2>1, <1>r, <1>a DEF Gate
  <2> QED BY <1>3, <2>2 DEF Gate, Prepared
<1>4. CASE Execute
  <2>1. Result("failed") \/ Result("blocked") \/ Go("scope")
    BY <1>4 DEF Execute
  <2>2. ~Publishing' /\ ~Scoped'
    BY <2>1, <1>r, <1>g DEF Scoped, Passed
  <2> QED BY <1>4, <2>2 DEF Execute, Prepared
<1>5. CASE CheckScope
  <2>1. PICK seen \in SUBSET Files :
          \/ seen \subseteq Allowed /\ run' = [run EXCEPT !.pc = "verify", !.changed = seen]
          \/ Result("failed")
    BY <1>5 DEF CheckScope
  <2>2. ASSUME seen \subseteq Allowed, run' = [run EXCEPT !.pc = "verify", !.changed = seen]
        PROVE  ~Publishing' /\ run'.changed \subseteq Allowed'
    BY <2>2, <1>w DEF Run, Allowed
  <2>3. run.pc = "scope" /\ UNCHANGED <<origin, tracked, main, branches, head, merges, lost>>
    BY <1>5 DEF CheckScope
  <2> QED BY <1>r, <2>1, <2>2, <2>3 DEF Prepared
<1>6. CASE Verify
  <2>1. Correct \/ Result("failed") \/ Go("control")
    BY <1>6 DEF Verify
  <2>2. run.pc = "verify" /\ UNCHANGED <<origin, tracked, main, branches, head, merges, lost>>
    BY <1>6 DEF Verify
  <2> QED BY <1>r, <1>a, <1>g, <2>1, <2>2 DEF Prepared, Scoped
<1>7. CASE Control
  <2>1. Correct \/ Result("failed") \/ Result("blocked") \/ Result("passed")
    BY <1>7 DEF Control
  <2>2. run.pc = "control" /\ UNCHANGED <<origin, tracked, main, branches, head, merges, lost>>
    BY <1>7 DEF Control
  <2> QED BY <1>r, <1>a, <1>p, <2>1, <2>2 DEF Prepared, Scoped
<1>8. CASE Count
  <2>1. (Passed /\ Go("decide")) \/ run' = Idle
    BY <1>8 DEF Count, Passed
  <2>2. run.pc = "result" /\ UNCHANGED <<origin, tracked, main, branches, head, merges, lost>>
    BY <1>8 DEF Count
  <2>3. run' = Idle => ~Publishing' /\ ~Scoped' /\ ~Prepared'
    BY IdleTyped DEF Scoped, Prepared, Passed
  <2> QED BY <1>g, <2>1, <2>2, <2>3 DEF Prepared, Scoped
<1> QED BY <1>1, <1>2, <1>3, <1>4, <1>5, <1>6, <1>7, <1>8 DEF LoopStep

\* Charges are counted in the record alone.
LEMMA ChargedSame ==
  ASSUME merges' = merges
  PROVE  \A g \in Grants : Charged(g)' = Charged(g)
BY DEF Charged

\* A step that publishes nothing, or goes on publishing as decided, keeps the charges in order.
LEMMA ChargeKept ==
  ASSUME ChargeInv, merges' = merges,
         ~Publishing' \/ (Publishing /\ run'.action = run.action /\ run'.grant = run.grant),
         (Merging \/ run.pc = "record")' => run'.action = "merge"
  PROVE  ChargeInv'
<1>1. \A g \in Grants : Charged(g)' = Charged(g)
  BY ChargedSame
<1>2. ASSUME Publishing', run'.action = "merge"
      PROVE  \E g \in Grants : g.id = run'.grant /\ Charged(g)' < g.max
  <2>1. PICK g \in Grants : g.id = run.grant /\ Charged(g) < g.max
    BY <1>2 DEF ChargeInv, Publishing
  <2>2. g.id = run'.grant /\ Charged(g)' < g.max
    BY <1>1, <1>2, <2>1
  <2> QED BY <2>2
<1>3. \A g \in Grants : \E h \in Grants : h.id = g.id /\ Charged(h)' = Charged(h)
                                           /\ Charged(g)' <= h.max
  BY <1>1 DEF ChargeInv
<1> QED BY <1>2, <1>3 DEF ChargeInv, Publishing

\* An authorization is charged only while it may be, whatever fails in between.
LEMMA ChargeStep == ASSUME TypeOK, ChargeInv, [Next]_vars PROVE ChargeInv'
<1> USE DEF git, tree, state, world, GiveUp
<1>w. WorldTyped /\ RunTyped /\ run \in Run
  BY TypeParts DEF RunTyped
<1>i. ASSUME run' = Idle PROVE ~Publishing'
  BY <1>i, IdleTyped DEF Publishing, Merging
<1>g. ASSUME NEW pc \in Phases, Go(pc)
      PROVE  run'.pc = pc /\ run'.action = run.action /\ run'.grant = run.grant
  BY <1>g, <1>w, GoTyped
<1>q. ASSUME merges' = merges, ~Publishing' PROVE ChargeInv'
  BY <1>q, ChargeKept DEF Publishing
<1>1. CASE LoopStep
  BY <1>1, <1>q, LoopFrame
<1>2. ASSUME NEW t \in Tasks, NEW m \in Modes, Begin(t, m) PROVE ChargeInv'
  <2>1. run' = [Idle EXCEPT !.pc = "preflight", !.task = t, !.mode = m] /\ merges' = merges
    BY <1>2 DEF Begin
  <2>2. run'.pc = "preflight"
    BY <2>1, IdleTyped DEF Run
  <2> QED BY <1>q, <2>1, <2>2 DEF Publishing, Merging
<1>3. CASE Decide
  <2>1. run.pc = "decide" /\ merges' = merges /\ run.mode \in {"branch", "pr", "main"}
    BY <1>3, <1>w, DispatcherAssumption DEF Decide, RunTyped, Run
  <2>2. PICK action \in Actions, g \in Ids :
          /\ run' = [run EXCEPT !.pc = "branch", !.action = action, !.grant = g]
          /\ action = "merge" => \E h \in Grants : h.id = g /\ Usable(h)
    BY <1>3, <2>1 DEF Decide, Actions, Ids, Live
  <2>3. run'.pc = "branch" /\ run'.action = action /\ run'.grant = g
    BY <1>w, <2>2 DEF Run
  <2>4. \A h \in Grants : Charged(h)' = Charged(h)
    BY <2>1, ChargedSame
  <2>5. action = "merge" => \E h \in Grants : h.id = run'.grant /\ Charged(h)' < h.max
    BY <2>2, <2>3, <2>4 DEF Usable
  <2>6. ~Merging' /\ run'.pc # "record"
    BY <2>3 DEF Merging
  <2>7. \A h \in Grants : \E k \in Grants : k.id = h.id /\ Charged(h)' <= k.max
    BY <2>4 DEF ChargeInv
  <2> QED BY <2>3, <2>5, <2>6, <2>7 DEF ChargeInv
<1>4. CASE CreateBranch
  <2>1. run.pc = "branch" /\ merges' = merges /\ (Go("commit") \/ run' = Idle)
    BY <1>4 DEF CreateBranch
  <2>2. ~Publishing' \/ (run'.pc = "commit" /\ run'.action = run.action /\ run'.grant = run.grant)
    BY <1>i, <1>g, <2>1, PhaseNames
  <2> QED BY <2>1, <2>2, ChargeKept DEF Publishing, Merging
<1>5. CASE CommitExact
  <2>1. run.pc = "commit" /\ merges' = merges
    BY <1>5 DEF CommitExact
  <2>2. run.action \in {"branch", "pr", "merge"}
    BY <1>w, <2>1 DEF RunTyped, Run, Actions
  <2>3. run' = Idle \/ Go("pr") \/ (Go("fetch") /\ run.action = "merge")
    BY <1>5, <2>2 DEF CommitExact
  <2>4. \/ ~Publishing'
        \/ run'.pc = "fetch" /\ run'.action = run.action /\ run'.grant = run.grant
           /\ run.action = "merge"
    BY <1>i, <1>g, <2>3, PhaseNames DEF Publishing, Merging
  <2> QED BY <2>1, <2>4, ChargeKept DEF Publishing, Merging
<1>6. CASE OpenPr
  BY <1>6, <1>i, <1>q DEF OpenPr
<1>7. CASE FetchMain \/ CheckoutMain \/ FastForward \/ PushMain
  <2>1. /\ Merging /\ merges' = merges
        /\ run' = Idle \/ \E pc \in {"checkout", "merge", "push", "record"} : Go(pc)
    BY <1>7 DEF FetchMain, CheckoutMain, FastForward, PushMain, Merging
  <2>2. ~Publishing' \/ (run'.action = run.action /\ run'.grant = run.grant)
    BY <1>i, <1>g, <2>1, PhaseNames
  <2>3. run.action = "merge"
    BY <2>1 DEF ChargeInv
  <2> QED BY <2>1, <2>2, <2>3, ChargeKept DEF Publishing
<1>8. CASE RecordMerge
  <2>1. run.pc = "record" /\ merges' = Append(merges, run.grant) /\ run' = Idle
    BY <1>8 DEF RecordMerge
  <2>2. run.grant \in Ids /\ merges \in Seq(Ids)
    BY <1>w DEF Run, WorldTyped
  <2>3. PICK k \in Grants : k.id = run.grant /\ Charged(k) < k.max
    BY <2>1 DEF ChargeInv
  <2>4. ASSUME NEW g \in Grants PROVE \E h \in Grants : h.id = g.id /\ Charged(g)' <= h.max
    <3>1. /\ Charged(g) \in Nat /\ k.max \in Nat
          /\ Charged(g)' = Charged(g) + (IF run.grant = g.id THEN 1 ELSE 0)
      BY <2>1, <2>2, ChargedCounts, DispatcherAssumption
    <3>2. CASE g.id = run.grant
      <4>1. Charged(g) = Charged(k)
        BY <2>3, <3>2 DEF Charged
      <4> QED BY <2>3, <3>1, <3>2, <4>1
    <3>3. CASE g.id # run.grant
      BY <3>1, <3>3 DEF ChargeInv
    <3> QED BY <3>2, <3>3
  <2>5. ~Publishing'
    BY <1>i, <2>1
  <2> QED BY <2>4, <2>5 DEF ChargeInv, Publishing
<1>9. CASE StepFails \/ Crash
  BY <1>9, <1>i, <1>q DEF StepFails, Crash
<1>10. CASE PushTheirs \/ Tidy \/ StopDispatching \/ UNCHANGED vars
  <2>1. run' = run /\ merges' = merges
    BY <1>10 DEF PushTheirs, Tidy, StopDispatching, vars
  <2>2. (Merging' <=> Merging) /\ (Publishing' <=> Publishing)
    BY <2>1 DEF Merging, Publishing
  <2> QED BY <2>1, <2>2, ChargeKept DEF ChargeInv
<1> QED BY <1>1, <1>2, <1>3, <1>4, <1>5, <1>6, <1>7, <1>8, <1>9, <1>10 DEF Next, Work, LoopStep

-----------------------------------------------------------------------------
(* What is on origin/main, while no failed command passed for an answer.   *)

Sound == HistoryInv /\ DecisionInv /\ BranchInv /\ CountInv

\* A failed command that was taken for an answer is not forgotten.
LEMMA BlindStays == ASSUME [Next]_vars, ~blind' PROVE ~blind
<1> USE DEF vars, git, tree, state, world
<1>1. LoopStep => ~blind
  BY DEF LoopStep, Preflight, PlanTask, Gate, Execute, CheckScope, Verify, Control, Count
<1>2. (Decide \/ CreateBranch \/ OpenPr \/ FetchMain \/ CheckoutMain \/ FastForward \/ PushMain
        \/ RecordMerge \/ StepFails \/ Crash \/ PushTheirs \/ Tidy \/ StopDispatching
        \/ UNCHANGED vars) => ~blind
  BY DEF Decide, CreateBranch, OpenPr, FetchMain, CheckoutMain, FastForward, PushMain, RecordMerge,
         StepFails, Crash, PushTheirs, Tidy, StopDispatching
<1>3. CommitExact => ~blind
  BY DEF CommitExact
<1>4. (\E t \in Tasks, m \in Modes : Begin(t, m)) => ~blind
  BY DEF Begin
<1> QED BY <1>1, <1>2, <1>3, <1>4 DEF Next, Work, LoopStep

\* A step that neither pushes nor records changes no count.
LEMMA CountKept ==
  ASSUME TypeOK, CountInv, UNCHANGED <<origin, merges>>,
         (run.pc # "record" /\ lost' = lost) \/ lost' = lost + 1,
         run'.pc # "record"
  PROVE  CountInv'
<1> SUFFICES ASSUME NEW g \in Grants
             PROVE  Cardinality(MergedUnder(g))' <= Charged(g)' + lost' + Pending(g)'
  BY DEF CountInv
<1>1. Cardinality(MergedUnder(g))' = Cardinality(MergedUnder(g)) /\ Charged(g)' = Charged(g)
  BY DEF MergedUnder, OfDispatcher, Charged
<1>2. /\ Cardinality(MergedUnder(g)) \in Nat /\ Charged(g) \in Nat /\ lost \in Nat
      /\ Cardinality(MergedUnder(g)) <= Charged(g) + lost + Pending(g)
  BY MergesCount, ChargedCounts DEF TypeOK, CountInv
<1>3. Pending(g)' = 0
  BY DEF Pending
<1>4. Pending(g) \in {0, 1} /\ (run.pc # "record" => Pending(g) = 0)
  BY DEF Pending
<1> QED BY <1>1, <1>2, <1>3, <1>4

\* A dispatch that ends leaves the histories it did not push as they are.
LEMMA EndedKept ==
  ASSUME TypeOK, Sound, run' = Idle, UNCHANGED <<origin, tracked, merges>>,
         (run.pc # "record" /\ lost' = lost) \/ lost' = lost + 1
  PROVE  Sound'
<1>1. run'.pc = "idle" /\ run'.status = "none"
  BY IdleTyped
<1>2. ~Prepared' /\ ~Scoped' /\ ~Merging'
  BY <1>1 DEF Prepared, Scoped, Merging, Passed
<1>3. CountInv'
  BY <1>1, CountKept DEF Sound
<1>4. HistoryInv'
  BY <1>1, <1>2 DEF Sound, HistoryInv
<1>5. DecisionInv' /\ BranchInv'
  BY <1>1, <1>2 DEF DecisionInv, BranchInv
<1> QED BY <1>3, <1>4, <1>5 DEF Sound

\* The loop.
LEMMA LoopSound == ASSUME TypeOK, Sound, LoopStep, ~blind' PROVE Sound'
<1>f. /\ UNCHANGED <<origin, tracked, main, branches, head, merges, lost>>
      /\ ~Publishing /\ ~Publishing'
      /\ Prepared' => Prepared \/ Tip = tracked
      /\ Scoped' => \/ run'.changed \subseteq Allowed'
                    \/ Scoped /\ run'.changed = run.changed /\ run'.scope = run.scope
  BY LoopFrame
<1>1. Tip' = Tip
  BY <1>f DEF Tip
<1>2. HistoryInv'
  BY <1>f, <1>1 DEF Sound, HistoryInv, Publishing
<1>3. DecisionInv'
  BY <1>f DEF Sound, DecisionInv, Publishing, Allowed
<1>4. BranchInv'
  BY <1>f DEF BranchInv, Publishing, Merging
<1>5. CountInv'
  BY <1>f, CountKept DEF Sound, Publishing
<1> QED BY <1>2, <1>3, <1>4, <1>5 DEF Sound

\* The decision to merge, and the branch that is cut from what was fetched.
LEMMA DecideSound == ASSUME TypeOK, Sound, Decide \/ CreateBranch PROVE Sound'
<1> USE DEF git, tree, state, world, GiveUp
<1>w. WorldTyped /\ RunTyped /\ run \in Run
  BY TypeParts DEF RunTyped
<1>1. CASE Decide
  <2>1. /\ run.pc = "decide" /\ run.mode \in {"branch", "pr", "main"}
        /\ UNCHANGED <<origin, tracked, main, branches, head, merges, lost>>
    BY <1>1, <1>w, DispatcherAssumption DEF Decide, RunTyped, Run
  <2>2. PICK action \in Actions, g \in Ids :
          /\ run' = [run EXCEPT !.pc = "branch", !.action = action, !.grant = g]
          /\ action = "merge" =>
               /\ run.changed # {} /\ Reviewable \cap Protected = {}
               /\ \E h \in Grants : h.id = g /\ Covers(h)
    BY <1>1, <2>1 DEF Decide, Actions, Ids, Live, Usable
  <2>3. /\ run'.pc = "branch" /\ run'.action = action /\ run'.grant = g
        /\ run'.changed = run.changed /\ run'.scope = run.scope
    BY <1>w, <2>2 DEF Run
  <2>4. Tip' = Tip /\ Reviewable' = Reviewable /\ Allowed' = Allowed
        /\ \A h \in Grants : Covers(h)' = Covers(h)
    BY <2>1, <2>3 DEF Tip, Reviewable, Allowed, Covers
  <2>5. HistoryInv'
    BY <2>1, <2>3, <2>4 DEF Sound, HistoryInv, Prepared
  <2>6. DecisionInv'
    BY <2>1, <2>2, <2>3, <2>4 DEF Sound, DecisionInv, Scoped
  <2>7. BranchInv'
    BY <2>3 DEF BranchInv, Merging
  <2>8. CountInv'
    BY <2>1, <2>3, CountKept DEF Sound
  <2> QED BY <2>5, <2>6, <2>7, <2>8 DEF Sound
<1>2. CASE CreateBranch
  <2>1. /\ run.pc = "branch" /\ run.task \in Tasks
        /\ UNCHANGED <<origin, tracked, main, merges, lost>>
    BY <1>2, <1>w DEF CreateBranch, RunTyped
  <2>2. CASE Go("commit") /\ branches' = [branches EXCEPT ![run.task] = Tip]
    <3>1. /\ run'.pc = "commit" /\ run'.action = run.action /\ run'.grant = run.grant
          /\ run'.task = run.task /\ run'.changed = run.changed /\ run'.scope = run.scope
      BY <1>w, <2>2, GoTyped, PhaseNames
    <3>2. branches'[run.task] = tracked
      BY <1>w, <2>1, <2>2 DEF WorldTyped, Sound, HistoryInv, Prepared
    <3>3. HistoryInv'
      BY <2>1, <3>1, <3>2 DEF Sound, HistoryInv, Prepared, Passed
    <3>4. Reviewable' = Reviewable /\ Allowed' = Allowed
          /\ \A h \in Grants : Covers(h)' = Covers(h)
      BY <3>1 DEF Reviewable, Allowed, Covers
    <3>5. DecisionInv'
      BY <2>1, <3>1, <3>4 DEF Sound, DecisionInv, Scoped
    <3>6. BranchInv'
      BY <3>1 DEF BranchInv, Merging
    <3>7. CountInv'
      BY <2>1, <3>1, CountKept DEF Sound
    <3> QED BY <3>3, <3>5, <3>6, <3>7 DEF Sound
  <2>3. CASE run' = Idle
    BY <2>1, <2>3, EndedKept
  <2> QED BY <1>2, <2>2, <2>3 DEF CreateBranch
<1> QED BY <1>1, <1>2

\* The commit holds what the scope guard saw, on top of what was fetched.
LEMMA CommitSound == ASSUME TypeOK, Sound, CommitExact, ~blind' PROVE Sound'
<1> USE DEF git, tree, state, world, GiveUp
<1>w. WorldTyped /\ RunTyped /\ run \in Run
  BY TypeParts DEF RunTyped
<1>1. /\ run.pc = "commit" /\ run.task \in Tasks
      /\ UNCHANGED <<origin, tracked, main, merges, lost>>
  BY <1>w DEF CommitExact, RunTyped
<1>2. run.action \in {"branch", "pr", "merge"}
  BY <1>w, <1>1 DEF RunTyped, Run, Actions
<1>3. run' = Idle \/ Go("pr") \/ Go("fetch")
  BY <1>2 DEF CommitExact
<1>4. CASE run' = Idle
  BY <1>1, <1>4, EndedKept
<1>5. CASE Go("pr")
  <2>1. run'.pc = "pr"
    BY <1>w, <1>5, GoTyped, PhaseNames
  <2>2. ~Prepared' /\ ~Scoped' /\ ~Merging'
    BY <2>1 DEF Prepared, Scoped, Merging, Passed
  <2>3. CountInv'
    BY <1>1, <2>1, CountKept DEF Sound
  <2> QED BY <1>1, <2>1, <2>2, <2>3 DEF Sound, HistoryInv, DecisionInv, BranchInv
<1>6. CASE Go("fetch") /\ run' # Idle /\ run'.pc = "fetch"
  <2>1. /\ run'.pc = "fetch" /\ run'.task = run.task /\ run'.grant = run.grant
    BY <1>w, <1>6, GoTyped, PhaseNames
  <2>2. ~ Go("pr")
    <3>1. Go("pr") => run'.pc = "pr"
      BY <1>w, GoTyped, PhaseNames
    <3> QED BY <2>1, <3>1
  <2>3. PICK staged \in SUBSET Files :
          /\ Reported(staged, moved)
          /\ blind' = (blind \/ (staged = {} /\ dirty # {}))
          /\ IF Extra(staged) # {} \/ dirty = {}
             THEN GiveUp /\ UNCHANGED branches
             ELSE /\ branches' = [branches EXCEPT ![run.task] = Append(@, ThisCommit)]
                  /\ CASE run.action = "branch" -> GiveUp
                       [] run.action = "pr" -> Go("pr")
                       [] run.action = "merge" -> Go("fetch")
    BY DEF CommitExact
  <2>a. /\ run.action = "merge" /\ Extra(staged) = {}
        /\ branches' = [branches EXCEPT ![run.task] = Append(@, ThisCommit)]
    BY <1>2, <1>6, <2>2, <2>3
  <2>b. staged \in Listings(moved)
    BY <2>3 DEF Reported
  <2>4. branches'[run.task] = Append(tracked, ThisCommit)
    BY <1>w, <1>1, <2>a DEF WorldTyped, Sound, HistoryInv
  <2>5. ThisCommit \in Commit /\ ThisCommit.action = "merge" /\ ThisCommit.grant = run.grant
        /\ ThisCommit.files = dirty /\ ThisCommit.moved = moved /\ ThisCommit.scope = run.scope
    BY <1>w, <2>a, CommitTyped DEF ThisCommit
  <2>6. Admissible(ThisCommit)
    <3>1. run.changed \subseteq Allowed /\ run.changed # {} /\ Reviewable \cap Protected = {}
      BY <1>1, <2>a DEF Sound, DecisionInv, Scoped
    <3>2. PICK g \in Grants : g.id = run.grant /\ Covers(g)
      BY <1>1, <2>a DEF Sound, DecisionInv
    <3>3. staged \subseteq run.changed
      BY <2>a, <3>1 DEF Extra
    <3>4. ASSUME NEW f \in staged PROVE Authorized(ThisCommit, g, f)
      BY <2>5, <3>1, <3>2, <3>3 DEF Authorized, Allowed, Reviewable, Covers
    <3>5. ASSUME NEW f \in dirty
          PROVE  Authorized(ThisCommit, g, f) \/ RenamedInto(ThisCommit, g, f)
      <4>1. CASE f \in staged
        BY <3>4, <4>1
      <4>2. CASE f \notin staged
        <5>1. PICK m \in moved : m.from = f /\ m.to \in staged
          BY <2>b, <4>2, ListingCovers
        <5>2. m.to \in dirty
          BY <2>b, <5>1, ListingCovers
        <5> QED BY <2>5, <3>4, <5>1, <5>2 DEF RenamedInto
      <4> QED BY <4>1, <4>2
    <3> QED BY <2>5, <3>2, <3>5 DEF Admissible
  <2>7. BranchInv'
    <3>1. IsPrefix(tracked, origin') /\ tracked \in Seq(Commit)
      BY <1>w, <1>1 DEF WorldTyped, Sound, HistoryInv
    <3> QED BY <2>1, <2>4, <2>5, <2>6, <3>1 DEF BranchInv, Merging
  <2>8. ~Prepared' /\ ~Scoped'
    BY <2>1 DEF Prepared, Scoped, Passed
  <2>9. HistoryInv' /\ DecisionInv'
    BY <1>1, <2>1, <2>8 DEF Sound, HistoryInv, DecisionInv
  <2>10. CountInv'
    BY <1>1, <2>1, CountKept DEF Sound
  <2> QED BY <2>7, <2>9, <2>10 DEF Sound
<1>7. Go("fetch") => run'.pc = "fetch" /\ run' # Idle
  <2>1. Go("fetch") => run'.pc = "fetch"
    BY <1>w, GoTyped, PhaseNames
  <2> QED BY <2>1, IdleTyped
<1> QED BY <1>3, <1>4, <1>5, <1>6, <1>7

\* The commit stays as it is on its way to main.
LEMMA MergeSound == ASSUME TypeOK, Sound, FetchMain \/ CheckoutMain \/ FastForward PROVE Sound'
<1> USE DEF git, tree, state, world, GiveUp
<1>w. WorldTyped /\ RunTyped /\ run \in Run
  BY TypeParts DEF RunTyped
<1>1. /\ Merging /\ UNCHANGED <<origin, branches, merges, lost>>
      /\ tracked' \in {tracked, origin} /\ run.pc # "record"
  BY DEF FetchMain, CheckoutMain, FastForward, Merging
<1>2. CASE run' = Idle /\ tracked' = tracked
  BY <1>1, <1>2, EndedKept
<1>3. CASE \E pc \in {"checkout", "merge", "push"} :
             Go(pc) /\ (pc = "push" => main' = branches[run.task])
  <2>1. PICK pc \in {"checkout", "merge", "push"} :
          Go(pc) /\ (pc = "push" => main' = branches[run.task])
    BY <1>3
  <2>2. run'.pc = pc /\ run'.task = run.task /\ run'.grant = run.grant
    BY <1>w, <2>1, GoTyped, PhaseNames
  <2>3. BranchInv'
    BY <1>1, <2>1, <2>2 DEF Sound, BranchInv, Merging
  <2>4. ~Prepared' /\ ~Scoped'
    BY <2>1, <2>2 DEF Prepared, Scoped, Passed
  <2>5. IsPrefix(tracked', origin')
    BY <1>w, <1>1, PrefixIs DEF WorldTyped, Sound, HistoryInv
  <2>6. HistoryInv' /\ DecisionInv'
    BY <1>1, <2>1, <2>2, <2>4, <2>5 DEF Sound, HistoryInv, DecisionInv
  <2>7. CountInv'
    BY <1>1, <2>1, <2>2, CountKept DEF Sound
  <2> QED BY <2>3, <2>6, <2>7 DEF Sound
<1>4. (run' = Idle /\ tracked' = tracked)
      \/ \E pc \in {"checkout", "merge", "push"} :
           Go(pc) /\ (pc = "push" => main' = branches[run.task])
  BY DEF FetchMain, CheckoutMain, FastForward, Merged
<1> QED BY <1>2, <1>3, <1>4

\* A push adds at most the one commit that was decided, and it is charged or counted as lost.
LEMMA PushSound == ASSUME TypeOK, Sound, PushMain PROVE Sound'
<1> USE DEF git, tree, state, world, GiveUp
<1>w. WorldTyped /\ RunTyped /\ run \in Run
  BY TypeParts DEF RunTyped
<1>1. run.pc = "push" /\ UNCHANGED <<branches, merges>> /\ Merging
  BY DEF PushMain, Merging
<1>2. CASE ~IsPrefix(origin, main)
  <2>1. run' = Idle /\ UNCHANGED <<origin, tracked, merges, lost>>
    BY <1>2 DEF PushMain
  <2> QED BY <1>1, <2>1, EndedKept
<1>3. CASE IsPrefix(origin, main)
  <2>1. PICK h \in Seq(Commit), c \in Commit :
          /\ main = Append(h, c) /\ IsPrefix(h, origin)
          /\ c.action = "merge" /\ c.grant = run.grant /\ Admissible(c)
    BY <1>1 DEF Sound, BranchInv
  <2>2. origin = h \/ origin = Append(h, c)
    BY <1>w, <1>3, <2>1, NothingBetween DEF WorldTyped
  <2>3. origin' = main
    BY <1>3 DEF PushMain
  <2>4. \A i \in DOMAIN origin' : Admissible(origin'[i])
    <3>1. CASE origin = h
      <4>1. /\ origin' = Append(origin, c) /\ Len(origin') = Len(origin) + 1
            /\ DOMAIN origin' = 1..Len(origin') /\ origin'[Len(origin')] = c
            /\ \A i \in 1..Len(origin) : origin'[i] = origin[i]
            /\ Len(origin) \in Nat /\ DOMAIN origin = 1..Len(origin)
        BY <2>1, <2>3, <3>1
      <4> QED BY <2>1, <4>1 DEF Sound, HistoryInv
    <3>2. CASE origin' = origin
      BY <3>2 DEF Sound, HistoryInv
    <3> QED BY <2>1, <2>2, <2>3, <3>1, <3>2
  <2>5. ASSUME NEW g \in Grants
        PROVE  /\ Cardinality(MergedUnder(g)) \in Nat
               /\ Cardinality(MergedUnder(g))' <=
                    Cardinality(MergedUnder(g)) + (IF run.grant = g.id THEN 1 ELSE 0)
    <3>1. Cardinality(MergedUnder(g)) \in Nat
      BY <1>w, MergesCount DEF WorldTyped
    <3>2. CASE origin = h
      <4>1. Cardinality(MergedUnder(g))'
              = Cardinality(MergedUnder(g)) + (IF c \in Under(g) THEN 1 ELSE 0)
        BY <1>w, <2>1, <2>3, <3>2, MergesCount DEF WorldTyped
      <4>2. c \in Under(g) => run.grant = g.id
        BY <2>1 DEF Under
      <4> QED BY <3>1, <4>1, <4>2
    <3>3. CASE origin' = origin
      <4>1. Cardinality(MergedUnder(g))' = Cardinality(MergedUnder(g))
        BY <3>3 DEF MergedUnder, OfDispatcher
      <4> QED BY <3>1, <4>1
    <3> QED BY <2>1, <2>2, <2>3, <3>2, <3>3
  <2>6. /\ tracked' \in {tracked, main}
        /\ \/ run' = Idle /\ lost' = lost + 1
           \/ Go("record") /\ lost' = lost
    BY <1>3 DEF PushMain
  <2>7. /\ run'.pc \in {"idle", "record"} /\ (run' = Idle => run'.pc = "idle")
        /\ Go("record") => run'.pc = "record" /\ run'.grant = run.grant
        /\ run'.status = "passed" => run'.pc = "record"
    BY <1>w, <2>6, GoTyped, IdleTyped, PhaseNames
  <2>8. IsPrefix(tracked', origin')
    <3>1. IsPrefix(tracked, origin) /\ IsPrefix(main, main)
      BY <1>w, PrefixIs DEF WorldTyped, Sound, HistoryInv
    <3> QED BY <1>w, <1>3, <2>3, <2>6, <3>1, PrefixOfPrefix DEF WorldTyped
  <2>9. ~Prepared' /\ ~Scoped' /\ ~Merging'
    BY <2>7 DEF Prepared, Scoped, Merging, Passed
  <2>10. HistoryInv' /\ DecisionInv' /\ BranchInv'
    BY <2>4, <2>7, <2>8, <2>9 DEF HistoryInv, DecisionInv, BranchInv
  <2>11. CountInv'
    <3> SUFFICES ASSUME NEW g \in Grants
                 PROVE  Cardinality(MergedUnder(g))' <= Charged(g)' + lost' + Pending(g)'
      BY DEF CountInv
    <3>1. Charged(g)' = Charged(g) /\ Charged(g) \in Nat /\ lost \in Nat
      BY <1>w, <1>1, ChargedSame, ChargedCounts DEF WorldTyped
    <3>2. Cardinality(MergedUnder(g)) <= Charged(g) + lost
      <4>1. Pending(g) = 0
        BY <1>1 DEF Pending
      <4> QED BY <3>1, <4>1 DEF Sound, CountInv
    <3>3. Cardinality(MergedUnder(g))' \in Nat
      <4>1. origin' \in Seq(Commit)
        BY <1>w, <2>3 DEF WorldTyped
      <4>2. MergedUnder(g)' = Places(origin', Under(g))
        BY <4>1 DEF MergedUnder, OfDispatcher, Under, Places
      <4>3. Cardinality(Places(origin', Under(g))) \in Nat
        BY <2>1, <4>1, CountAppend
      <4> QED BY <4>2, <4>3
    <3>4. Pending(g)' \in {0, 1} /\ (Go("record") /\ run.grant = g.id => Pending(g)' = 1)
      BY <2>7 DEF Pending
    <3> QED BY <2>5, <2>6, <3>1, <3>2, <3>3, <3>4
  <2> QED BY <2>10, <2>11 DEF Sound
<1> QED BY <1>2, <1>3

\* A merge that is on origin/main is charged to its authorization.
LEMMA RecordSound == ASSUME TypeOK, Sound, RecordMerge PROVE Sound'
<1> USE DEF git, tree, state, world, GiveUp
<1>w. WorldTyped /\ RunTyped /\ run \in Run
  BY TypeParts DEF RunTyped
<1>1. /\ run.pc = "record" /\ run' = Idle /\ merges' = Append(merges, run.grant)
      /\ UNCHANGED <<origin, tracked, main, branches, head, lost>>
  BY DEF RecordMerge
<1>2. run'.pc = "idle" /\ run'.status = "none"
  BY <1>1, IdleTyped
<1>3. ~Prepared' /\ ~Scoped' /\ ~Merging'
  BY <1>2 DEF Prepared, Scoped, Merging, Passed
<1>4. HistoryInv' /\ DecisionInv' /\ BranchInv'
  BY <1>1, <1>2, <1>3 DEF Sound, HistoryInv, DecisionInv, BranchInv
<1>5. ASSUME NEW g \in Grants
      PROVE  Cardinality(MergedUnder(g))' <= Charged(g)' + lost' + Pending(g)'
  <2>1. /\ Charged(g) \in Nat
        /\ Charged(g)' = Charged(g) + (IF run.grant = g.id THEN 1 ELSE 0)
    BY <1>w, <1>1, ChargedCounts DEF Run, WorldTyped
  <2>2. Cardinality(MergedUnder(g))' = Cardinality(MergedUnder(g))
        /\ Cardinality(MergedUnder(g)) \in Nat /\ lost' = lost /\ lost \in Nat
    BY <1>w, <1>1, MergesCount DEF MergedUnder, OfDispatcher, WorldTyped
  <2>3. Pending(g)' = 0 /\ Pending(g) = (IF run.grant = g.id THEN 1 ELSE 0)
    BY <1>1, <1>2 DEF Pending
  <2>4. Cardinality(MergedUnder(g)) <= Charged(g) + lost + Pending(g)
    BY DEF Sound, CountInv
  <2> QED BY <2>1, <2>2, <2>3, <2>4
<1> QED BY <1>4, <1>5 DEF Sound, CountInv

\* A dispatch begins, a step fails, the process dies, and people push, tidy and stop.
LEMMA OthersSound ==
  ASSUME TypeOK, Sound,
         \/ \E t \in Tasks, m \in Modes : Begin(t, m)
         \/ OpenPr \/ StepFails \/ Crash \/ PushTheirs \/ Tidy \/ StopDispatching \/ UNCHANGED vars
  PROVE  Sound'
<1> USE DEF git, tree, state, world, GiveUp
<1>w. WorldTyped /\ RunTyped /\ run \in Run
  BY TypeParts DEF RunTyped
<1>1. ASSUME NEW t \in Tasks, NEW m \in Modes, Begin(t, m) PROVE Sound'
  <2>1. /\ run' = [Idle EXCEPT !.pc = "preflight", !.task = t, !.mode = m] /\ run.pc = "idle"
        /\ UNCHANGED <<origin, tracked, main, branches, head, merges, lost>>
    BY <1>1 DEF Begin
  <2>2. run'.pc = "preflight"
    BY <2>1, IdleTyped DEF Run
  <2>3. ~Prepared' /\ ~Scoped' /\ ~Merging'
    BY <2>2 DEF Prepared, Scoped, Merging, Passed
  <2>4. CountInv'
    BY <2>1, <2>2, CountKept DEF Sound
  <2> QED BY <2>1, <2>2, <2>3, <2>4 DEF Sound, HistoryInv, DecisionInv, BranchInv
<1>2. CASE OpenPr \/ StepFails
  <2>1. run' = Idle /\ UNCHANGED <<origin, tracked, merges, lost>> /\ run.pc # "record"
    BY <1>2 DEF OpenPr, StepFails
  <2> QED BY <2>1, EndedKept
<1>3. CASE Crash
  <2>1. /\ run' = Idle /\ UNCHANGED <<origin, tracked, merges>>
        /\ (run.pc # "record" /\ lost' = lost) \/ lost' = lost + 1
    BY <1>3 DEF Crash
  <2> QED BY <2>1, EndedKept
<1>4. CASE PushTheirs
  <2>1. /\ origin' = Append(origin, Theirs) /\ run' = run
        /\ UNCHANGED <<tracked, main, branches, head, merges, lost>>
    BY <1>4 DEF PushTheirs
  <2>2. Theirs \in Commit /\ Theirs.action = "theirs"
    BY DEF Theirs, Commit, Ids
  <2>3. origin \in Seq(Commit) /\ origin' \in Seq(Commit) /\ tracked \in Seq(Commit)
    BY <1>w, <2>1, <2>2 DEF WorldTyped
  <2>4. IsPrefix(origin, origin')
    BY <2>1, <2>2, <2>3, PrefixGrows
  <2>5. /\ Tip' = Tip /\ Reviewable' = Reviewable /\ Allowed' = Allowed
        /\ \A g \in Grants : Covers(g)' = Covers(g)
        /\ (Prepared' <=> Prepared) /\ (Scoped' <=> Scoped) /\ (Merging' <=> Merging)
    BY <2>1 DEF Tip, Reviewable, Allowed, Covers, Prepared, Scoped, Merging, Passed
  <2>6. \A i \in DOMAIN origin' : Admissible(origin'[i])
    <3>1. /\ Len(origin') = Len(origin) + 1 /\ origin'[Len(origin')] = Theirs
          /\ DOMAIN origin' = 1..Len(origin') /\ DOMAIN origin = 1..Len(origin)
          /\ \A i \in 1..Len(origin) : origin'[i] = origin[i]
          /\ Len(origin) \in Nat
      BY <2>1, <2>2, <2>3
    <3>2. Admissible(Theirs)
      BY <2>2 DEF Admissible
    <3> QED BY <3>1, <3>2 DEF Sound, HistoryInv
  <2>7. IsPrefix(tracked', origin')
    BY <2>1, <2>3, <2>4, PrefixOfPrefix DEF Sound, HistoryInv
  <2>8. HistoryInv'
    BY <2>1, <2>5, <2>6, <2>7 DEF Sound, HistoryInv
  <2>9. DecisionInv'
    BY <2>1, <2>5 DEF Sound, DecisionInv
  <2>10. BranchInv'
    <3>1. ASSUME NEW h \in Seq(Commit), IsPrefix(h, origin) PROVE IsPrefix(h, origin')
      BY <2>3, <2>4, <3>1, PrefixOfPrefix
    <3> QED BY <2>1, <2>5, <3>1 DEF Sound, BranchInv
  <2>11. CountInv'
    <3> SUFFICES ASSUME NEW g \in Grants
                 PROVE  Cardinality(MergedUnder(g))' <= Charged(g)' + lost' + Pending(g)'
      BY DEF CountInv
    <3>1. Theirs \notin Under(g)
      BY <2>2 DEF Under
    <3>2. Cardinality(MergedUnder(g)) \in Nat
          /\ Cardinality(MergedUnder(g))' = Cardinality(MergedUnder(g))
      <4>1. Cardinality(MergedUnder(g)) \in Nat
            /\ Cardinality(MergedUnder(g))' =
                 Cardinality(MergedUnder(g)) + (IF Theirs \in Under(g) THEN 1 ELSE 0)
        BY <2>1, <2>2, <2>3, MergesCount
      <4> QED BY <3>1, <4>1
    <3>3. Charged(g)' = Charged(g) /\ Pending(g)' = Pending(g) /\ lost' = lost
      BY <2>1 DEF Charged, Pending
    <3> QED BY <3>2, <3>3 DEF Sound, CountInv
  <2> QED BY <2>8, <2>9, <2>10, <2>11 DEF Sound
<1>5. CASE Tidy
  <2>1. /\ run' = run /\ run.pc = "idle" /\ UNCHANGED <<origin, merges, lost>>
        /\ tracked' \in {tracked, origin}
    BY <1>5 DEF Tidy
  <2>2. ~Prepared' /\ ~Scoped' /\ ~Merging'
    BY <2>1 DEF Prepared, Scoped, Merging, Passed
  <2>3. IsPrefix(tracked', origin')
    BY <1>w, <2>1, PrefixIs DEF WorldTyped, Sound, HistoryInv
  <2>4. CountInv'
    BY <2>1, CountKept DEF Sound
  <2> QED BY <2>1, <2>2, <2>3, <2>4 DEF Sound, HistoryInv, DecisionInv, BranchInv
<1>6. CASE StopDispatching \/ UNCHANGED vars
  <2>1. UNCHANGED <<origin, tracked, main, branches, head, merges, run, lost>>
    BY <1>6 DEF StopDispatching, vars
  <2>2. HistoryInv' /\ DecisionInv'
    BY <2>1 DEF Sound, HistoryInv, DecisionInv, Prepared, Scoped, Passed, Tip, Reviewable, Allowed,
                Covers
  <2>3. BranchInv'
    BY <2>1 DEF Sound, BranchInv, Merging
  <2>4. CountInv'
    BY <2>1 DEF Sound, CountInv, Pending, Charged, MergedUnder, OfDispatcher
  <2> QED BY <2>2, <2>3, <2>4 DEF Sound
<1> QED BY <1>1, <1>2, <1>3, <1>4, <1>5, <1>6

\* The invariant holds at the start.
LEMMA InvInit == ASSUME Init PROVE IInv
<1>1. TypeOK
  BY TypeInit
<1>2. ~Publishing /\ ~Prepared /\ ~Scoped /\ ~Merging /\ run.pc = "idle"
  BY IdleTyped DEF Init, Publishing, Prepared, Scoped, Merging, Passed
<1>3. \A g \in Grants : Charged(g) = 0 /\ Cardinality(MergedUnder(g)) = 0
  <2>1. ASSUME NEW g \in Grants PROVE Charged(g) = 0 /\ Cardinality(MergedUnder(g)) = 0
    <3>1. {i \in DOMAIN merges : merges[i] = g.id} = {} /\ MergedUnder(g) = {}
      BY DEF Init, MergedUnder, OfDispatcher
    <3> QED BY <3>1, FS_EmptySet DEF Charged
  <2> QED BY <2>1
<1>4. ChargeInv
  BY <1>2, <1>3, DispatcherAssumption DEF ChargeInv, Publishing
<1>5. HistoryInv /\ DecisionInv /\ BranchInv
  <2>1. tracked = <<>> /\ origin = <<>>
    BY DEF Init
  <2>2. IsPrefix(<<>>, <<>>)
    BY DEF IsPrefix
  <2> QED BY <1>2, <2>1, <2>2 DEF HistoryInv, DecisionInv, BranchInv
<1>6. CountInv
  BY <1>2, <1>3 DEF Init, CountInv, Pending
<1> QED BY <1>1, <1>4, <1>5, <1>6 DEF IInv

\* Every step keeps the invariant.
LEMMA InvStep == ASSUME IInv, [Next]_vars PROVE IInv'
<1>1. TypeOK' /\ ChargeInv'
  BY TypeStep, ChargeStep DEF IInv
<1>2. ASSUME ~blind' PROVE Sound'
  <2>1. TypeOK /\ Sound
    BY <1>2, BlindStays DEF IInv, Sound
  <2> QED BY <1>2, <2>1, LoopSound, DecideSound, CommitSound, MergeSound, PushSound, RecordSound,
             OthersSound DEF Next, Work, LoopStep
<1> QED BY <1>1, <1>2 DEF IInv, Sound

\* The inductive invariant (IInv) behind the two theorems that follow.
THEOREM InvariantHolds == Spec => []IInv
<1>1. Init => IInv
  BY InvInit
<1>2. IInv /\ [Next]_vars => IInv'
  BY InvStep
<1> QED BY <1>1, <1>2, PTL DEF Spec

\* As long as no failed git command passed for a clean answer, what the dispatcher brings to
\* origin/main was decided as a merge, and each path that it changes is inside the scope of its
\* task, off the protected paths and under the one recorded authorization of the merge, or was
\* renamed to a path that is, whatever crashed or was left behind before it.
THEOREM OnlyGrantedReachesMain == Spec => []MainOnlyGranted
<1>1. IInv => MainOnlyGranted
  <2> SUFFICES ASSUME IInv, ~blind, NEW i \in OfDispatcher
               PROVE  LET c == origin[i] IN
                      /\ c.action = "merge"
                      /\ \E g \in Grants :
                           /\ g.id = c.grant
                           /\ \A f \in c.files :
                                Authorized(c, g, f) \/ RenamedInto(c, g, f)
    BY DEF MainOnlyGranted
  <2>1. Admissible(origin[i]) /\ origin[i].action # "theirs"
    BY DEF IInv, HistoryInv, OfDispatcher
  <2> QED BY <2>1 DEF Admissible
<1> QED BY <1>1, InvariantHolds, PTL

\* The merges made under an authorization stay within its max_merges, apart from those whose
\* charge was lost with a process or a reply.
THEOREM GrantsStayBounded == Spec => []GrantsBounded
<1>1. IInv => GrantsBounded
  <2> SUFFICES ASSUME IInv, ~blind, NEW g \in Grants
               PROVE  \E h \in Grants :
                        h.id = g.id /\ Cardinality(MergedUnder(g)) <= h.max + lost
    BY DEF GrantsBounded
  <2>1. CASE run.pc = "record" /\ run.grant = g.id
    <3>1. PICK h \in Grants : h.id = run.grant /\ Charged(h) < h.max
      BY <2>1 DEF IInv, ChargeInv
    <3>2. Charged(g) = Charged(h) /\ h.id = g.id
      BY <2>1, <3>1 DEF Charged
    <3>3. Cardinality(MergedUnder(g)) <= Charged(g) + lost + 1
      BY <2>1 DEF IInv, CountInv, Pending
    <3>4. Charged(g) \in Nat /\ lost \in Nat /\ h.max \in Nat /\ Cardinality(MergedUnder(g)) \in Nat
      BY ChargedCounts, MergesCount, DispatcherAssumption DEF IInv, TypeOK
    <3> QED BY <3>1, <3>2, <3>3, <3>4
  <2>2. CASE ~(run.pc = "record" /\ run.grant = g.id)
    <3>1. PICK h \in Grants : h.id = g.id /\ Charged(g) <= h.max
      BY DEF IInv, ChargeInv
    <3>2. Cardinality(MergedUnder(g)) <= Charged(g) + lost + 0
      BY <2>2 DEF IInv, CountInv, Pending
    <3>3. Charged(g) \in Nat /\ lost \in Nat /\ h.max \in Nat /\ Cardinality(MergedUnder(g)) \in Nat
      BY ChargedCounts, MergesCount, DispatcherAssumption DEF IInv, TypeOK
    <3> QED BY <3>1, <3>2, <3>3
  <2> QED BY <2>1, <2>2
<1> QED BY <1>1, InvariantHolds, PTL
=============================================================================
