------------------------ MODULE MCAdjustedSnapshots ------------------------
(* Small instances of AdjustedSnapshots for TLC. *)
EXTENDS AdjustedSnapshots

Doc(s, n) == [series |-> s, id |-> n, page |-> <<>>]

Action(date, id) == [date |-> date, provider |-> id]

\* Two collections that have two actions of one day in common, which the
\* provider lists in either order.
Shared == <<[Doc("split", 4) EXCEPT !.page = <<Action(1, 2), Action(1, 1)>>],
            [Doc("split", 5) EXCEPT !.page = <<Action(1, 1), Action(1, 2), Action(2, 1)>>]>>

\* Each series has one collection, available at 1.
Beginning == {Row(table, Doc(s, 1), 1) : table \in {"content", "receipt"}, s \in Series}

Late == {Doc("split", 2), Doc("split", 3), Doc("dividend", 2)} \cup Range(Shared)

Gather(d)    == [op |-> "collect", doc |-> d]
SealAt(time) == [op |-> "seal", cutoff |-> time]

\* Collections that arrive while a set is planned at 3; three seals, two of them
\* of one plan; a seal with an earlier cutoff that is overtaken; collections
\* that share their actions.
CallList ==
  <<<<Gather(Doc("split", 2)), Gather(Doc("split", 3)), SealAt(3)>>,
    <<SealAt(1), SealAt(1), SealAt(2)>>,
    <<Gather(Doc("dividend", 2)), SealAt(1), SealAt(3)>>,
    <<Gather(Shared[1]), Gather(Shared[2]), Gather(Shared[1])>>>>

Calls == UNION {Range(CallList[i]) : i \in DOMAIN CallList}

Reads == <<"split", "dividend">>
Locks == <<"dividend", "split">>

MCInit == Init /\ \E i \in DOMAIN CallList : request = CallList[i]

MCSpec == MCInit /\ [][Next]_vars /\ Fairness
=============================================================================
