----------------------------- MODULE MCJobQueue -----------------------------
EXTENDS JobQueue, TLC

CONSTANTS j1, j2, j3, j4

MCJobs    == {j1, j2, j3, j4}
ThreeJobs == {j1, j2, j3}
=============================================================================
