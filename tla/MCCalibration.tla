--------------------------- MODULE MCCalibration ---------------------------
(* Small instances of Calibration for TLC. *)
EXTENDS Calibration, Sequences

Epoch == [lag |-> 1]

\* Each sees its own days as fit and held-out days; day 2 is a fit day of the
\* first and a held-out day of the second.
First  == [epoch |-> Epoch, lag |-> 1, fit |-> <<1, 2>>, heldout |-> <<3, 4>>, lead |-> 4, steps |-> {1}]
Second == [epoch |-> Epoch, lag |-> 1, fit |-> <<1, 1>>, heldout |-> <<2, 3>>, lead |-> 4, steps |-> {1}]

\* Refused: its windows touch; its lag is not the one of its epoch.
Touching == [First EXCEPT !.heldout = <<2, 4>>]
Lagging  == [First EXCEPT !.lag = 2]

Beginnings == {{}, {Epoch, First}, {Epoch, First, Second}}

Member(o, t) == [opp |-> o, step |-> 1, target |-> t]

Fit      == [policy |-> First, purpose |-> "calibration_fit", members |-> {Member("a", 1), Member("b", 2)}]
Heldout  == [policy |-> First, purpose |-> "heldout_evaluation", members |-> {Member("c", 3)}]
Overlaps == [policy |-> Second, purpose |-> "heldout_evaluation", members |-> {Member("d", 2)}]

AllCohorts == {Fit, Heldout, Overlaps}

Truth(m) == [truth |-> CASE m.opp = "a" -> 5 [] m.opp = "b" -> 8 [] m.opp = "c" -> 7 [] OTHER -> 8,
             point |-> 5, lower |-> 4, upper |-> 6]

Observed == [m \in UNION {c.members : c \in AllCohorts} |-> Truth(m)]

FitOf(method, S, bucket) == [cohort |-> Fit, method |-> method, digest |-> S, buckets |-> [h \in {1} |-> bucket]]

Bucket(sample, rank, value) == [sample |-> sample, rank |-> rank, value |-> value]

Both     == Fit.members
Residual == FitOf("empirical_residual", Both, Bucket(2, 2, 3))
Signed   == FitOf("conformal_quantile_regression", Both, Bucket(2, 2, 2))
Early    == FitOf("empirical_residual", {Member("a", 1)}, Bucket(1, 1, 0))
Forged   == FitOf("empirical_residual", Both, Bucket(2, 2, 9))

Ask(op, set, heldout, confidence) == [op |-> op, set |-> set, heldout |-> heldout, confidence |-> confidence]

\* Two analyses of one fit, a fit by the other method, one made before all
\* outcomes were in, one with a forged correction, an overlapping evaluation,
\* and a reader.
AskList ==
  <<Ask("publish", Residual, Heldout, 95), Ask("publish", Residual, Heldout, 99),
    Ask("publish", Signed, Heldout, 95),   Ask("publish", Early, Heldout, 95),
    Ask("publish", Forged, Heldout, 95),   Ask("publish", Residual, Overlaps, 95),
    Ask("read", Residual, Heldout, 95)>>

PolicyList == <<Epoch, First, Second, Touching, Lagging>>

Asks         == {AskList[i] : i \in DOMAIN AskList}
OneEpoch     == {Epoch}
SomePolicies == {PolicyList[i] : i \in DOMAIN PolicyList} \ OneEpoch

\* The clients are interchangeable: only one order of their calls is explored.
CallNumber(p) ==
  IF asked[p] = NoPolicy THEN CHOOSE i \in DOMAIN AskList : AskList[i] = request[p]
  ELSE Len(AskList) + CHOOSE i \in DOMAIN PolicyList : PolicyList[i] = asked[p]

\* The second policy is there from the start when its cohort is asked about.
MCInit ==
  /\ Init
  /\ \A p, q \in Clients : p < q => CallNumber(p) <= CallNumber(q)
  /\ Registered(Second) => \E p \in Clients : asked[p] = NoPolicy /\ request[p].heldout = Overlaps

MCSpec == MCInit /\ [][Next]_vars /\ Fairness
=============================================================================
