-------------------------- MODULE IdempotentArchive --------------------------
(***************************************************************************)
(* What the forecast archive promises its callers, without transactions,   *)
(* locks or lost connections: a write-once set of runs in which a retry    *)
(* key, or a scheduled opportunity, names at most one run, and answers     *)
(* that never contradict the archive, now or later.                        *)
(***************************************************************************)
CONSTANTS
  Attempts,       \* executions; also the forecast ids they compute
  Call, NoCall,   \* what an execution is asked for
  Clash(_, _)     \* two calls whose runs the archive may not both hold

VARIABLES
  runs,    \* the archive: the attempts whose run is stored
  call,    \* what each attempt was asked for
  reply    \* the answer of each attempt: [kind, run]

\* The answers that tell the caller that its own run was not archived.
Definite == {"conflict", "in_progress", "unavailable", "rejected"}
Kinds    == {"none", "ok", "lost", "unknown"} \cup Definite
NoReply  == [kind |-> "none", run |-> 0]

Init ==
  /\ runs = {}
  /\ call = [i \in Attempts |-> NoCall]
  /\ reply = [i \in Attempts |-> NoReply]

Invoke(i) ==
  /\ call[i] = NoCall
  /\ \E q \in Call : call' = [call EXCEPT ![i] = q]
  /\ UNCHANGED <<runs, reply>>

\* A run is archived once, if no archived run excludes it, and never after
\* its caller was told that it was not.
Store(i) ==
  /\ call[i] # NoCall /\ i \notin runs
  /\ reply[i].kind \notin Definite
  /\ \A j \in runs : ~ Clash(call[i], call[j])
  /\ runs' = runs \cup {i}
  /\ UNCHANGED <<call, reply>>

\* A success hands out an archived run for the same call; a conflict is
\* reported only when an archived run for another request stands in the way.
Justified(i, r) ==
  /\ r.kind = "ok"        => r.run \in runs /\ call[r.run] = call[i]
  /\ r.kind = "conflict"  => \E j \in runs : Clash(call[i], call[j]) /\ call[j] # call[i]
  /\ r.kind \in Definite  => i \notin runs

Respond(i) ==
  /\ call[i] # NoCall /\ reply[i].kind = "none"
  /\ \E k \in Kinds \ {"none"}, j \in Attempts \cup {0} :
       LET r == [kind |-> k, run |-> j] IN
       Justified(i, r) /\ reply' = [reply EXCEPT ![i] = r]
  /\ UNCHANGED <<runs, call>>

Next == \E i \in Attempts : Invoke(i) \/ Store(i) \/ Respond(i)

vars == <<runs, call, reply>>

Spec == Init /\ [][Next]_vars
=============================================================================
