---------------------------- MODULE MCBarStore ----------------------------
(* A small instance of BarStore for TLC. *)
EXTENDS BarStore, TLC

CloseTimes == [k \in Keys |-> k - 1]

\* A worker may run one transaction more than the other clients: it can die
\* between the two of one task and still complete a later task.
MCInit ==
  /\ clock = 0
  /\ bars = NoWrites /\ revisions = {} /\ receipts = {}
  /\ snap = [c \in Cutoffs |-> NoRows]
  /\ fence = NoClient
  /\ rowLock = [k \in Keys |-> NoClient]
  /\ pc = [a \in Clients |-> "idle"]
  /\ txn = [a \in Clients |-> IF a \in Workers THEN 0 ELSE 1]
  /\ batch = [w \in Workers |-> {}]
  /\ newBars = [a \in Clients |-> NoWrites]
  /\ newRevs = [a \in Clients |-> {}]
  /\ newRcpts = [a \in Clients |-> {}]
  /\ job = [b \in Builders |-> NoJob]
  /\ result = [b \in Builders |-> "none"]
  /\ seen = [c \in Cutoffs |-> NoRows]

MCSpec == MCInit /\ [][Next]_vars

\* Bar values are interchangeable.
Symmetry == Permutations(Vals)
=============================================================================
