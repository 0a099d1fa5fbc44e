--------------------------- MODULE MCRunLifecycle ---------------------------
EXTENDS RunLifecycle, TLC

CONSTANTS p1, p2, q1, q2, r1, r2

MCProfiles == {p1, p2}
OneProfile == {p1}
NoneScheduled == {}
MCRequests == {q1, q2}
OneRequest == {q1}
OneRun     == {r1}
TwoRuns    == {r1, r2}

\* Sound for the safety properties: none of them names a particular value.
Symmetry == Permutations(Profiles) \cup Permutations(Requests) \cup Permutations(Runs)
=============================================================================
