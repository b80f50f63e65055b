----------------------------- MODULE MCOutcomes -----------------------------
(* A small instance of Outcomes for TLC. *)
EXTENDS Outcomes
CONSTANTS b1, m1

\* One bar, closed at 2, and one policy with a lag of one tick.
CutoffAt(k) == 3
ClosesAt(b) == 2
TheBar(k)   == b1
TheKey(m)   == CHOOSE k \in Keys : TRUE

\* The members of one key are interchangeable: collections are for the first.
MCInit == Init /\ \A p \in Collectors : member[p] = m1
MCSpec == MCInit /\ [][Next]_vars /\ Fairness
=============================================================================
