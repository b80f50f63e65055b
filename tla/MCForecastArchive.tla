------------------------- MODULE MCForecastArchive -------------------------
(* Small instances of ForecastArchive for TLC. *)
EXTENDS ForecastArchive

\* All requests resolve to the same opportunity.
SameOpportunity(r) == "opportunity"
\* Requests are interchangeable: the first attempt names the first of them.
FirstNamed(i) == {q \in Call : i = 1 => q.req = CHOOSE r \in Requests : TRUE}
=============================================================================
