----------------------------- MODULE MCCohorts -----------------------------
(* Small instances of Cohorts for TLC. *)
EXTENDS Cohorts

Slot(opp, step)        == [opp |-> opp, step |-> step]
Cohort(purpose, slots) == [policy |-> "policy", purpose |-> purpose, slots |-> slots]

\* Two opportunities of one selected step; two cohorts want both of them, the
\* third wants a step that is not selected.
TwoRuns      == {Slot(opp, 1) : opp \in {1, 2}}
Fit          == Cohort("calibration_fit", TwoRuns)
Held         == Cohort("heldout_evaluation", TwoRuns)
Misfit       == Cohort("heldout_evaluation", {Slot(1, 2)})
ThreeCohorts == {Fit, Held, Misfit}
OneStep(q)   == {1}

\* The first step is due at 3.
AfterTwo(s)        == s.step + 2
Canonical(s)       == s.opp * 2 + s.step
AnyTime(q, use, t) == TRUE

\* Publications are interchangeable, and so are the two purposes; a cohort that
\* violates the policy is never recorded, so that one partner is enough for it.
Worthwhile == {<<Fit, Fit>>, <<Fit, Held>>, <<Fit, Misfit>>}
MCInit     == Init /\ manifest \in Worthwhile
MCSpec     == MCInit /\ [][Next]_vars
MCFairSpec == MCSpec /\ Fairness
=============================================================================
