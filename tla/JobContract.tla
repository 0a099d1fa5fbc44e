---------------------------- MODULE JobContract ----------------------------
(***************************************************************************)
(* What the dashboard's job queue promises a client that polls             *)
(* /api/jobs/<id>: the answers for one id go queued, running, finished and *)
(* then 404 ("expired"), never backwards and never 404 before the result   *)
(* existed; at most Workers jobs run at once and at most Limit are active. *)
(* JobQueue is shown to implement it.                                      *)
(***************************************************************************)
EXTENDS Naturals, FiniteSets

CONSTANTS Jobs,     \* job ids, one for each call of enqueue
          Workers,  \* threads of the pool
          Limit     \* largest number of active jobs

VARIABLE phase      \* what a poll of each id would answer

Phase == {"unknown", "queued", "running", "finished", "gone"}

In(p) == {j \in Jobs : phase[j] = p}

Become(j, from, to) == /\ phase[j] = from
                       /\ phase' = [phase EXCEPT ![j] = to]

Init == phase = [j \in Jobs |-> "unknown"]

\* A job is accepted while there is room for it.
Accept(j) == /\ Cardinality(In("queued") \cup In("running")) < Limit
             /\ Become(j, "unknown", "queued")

Begin(j) == /\ Cardinality(In("running")) < Workers
            /\ Become(j, "queued", "running")

Complete(j) == Become(j, "running", "finished")

\* A cancellation that succeeds: the job never runs.
Revoke(j) == Become(j, "queued", "finished")

\* Results are collected after their time to live, any number at once.
Forget(S) == /\ S \subseteq In("finished")
             /\ phase' = [j \in Jobs |-> IF j \in S THEN "gone" ELSE phase[j]]

Next == \/ \E j \in Jobs : Accept(j) \/ Begin(j) \/ Complete(j) \/ Revoke(j)
        \/ \E S \in SUBSET Jobs : Forget(S)

Spec == Init /\ [][Next]_phase
=============================================================================
