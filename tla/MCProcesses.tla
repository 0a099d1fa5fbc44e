------------------------------ MODULE MCProcesses ------------------------------
(* The two kinds of processes the dashboard starts: the scheduler, with its   *)
(* pid file, and a monitor, with what its runs leave behind.  Neither reads   *)
(* the other's state, so each is explored with the other at rest.             *)
EXTENDS SchedulerControl, MonitorRun
CONSTANTS h1, s1, s2, s3, e1, e2

VARIABLE part
partVars == <<part, vars, monitorVars>>

Rotating == [rotating |-> TRUE, api |-> TRUE, onStart |-> TRUE, every |-> 2, check |-> FALSE, checkEvery |-> 2,
             geo |-> "rotate", forced |-> FALSE, restart |-> TRUE, flow |-> FALSE]
Static   == [Rotating EXCEPT !.rotating = FALSE]
MCSetups == {Rotating, [Rotating EXCEPT !.flow = TRUE, !.restart = FALSE, !.onStart = FALSE],
             [Static EXCEPT !.flow = TRUE], [Static EXCEPT !.forced = TRUE, !.geo = "warn"]}

PartsInit == /\ part \in {"scheduler", "monitor"}
             /\ Init /\ MonitorInit
             /\ part = "monitor" \/ setup = Rotating

PartsNext == \/ part = "scheduler" /\ Next /\ UNCHANGED <<part, monitorVars>>
             \/ part = "monitor" /\ MonitorNext /\ UNCHANGED <<part, vars>>

MonitorPart == part = "monitor" /\ MonitorStep /\ UNCHANGED <<part, vars>>

\* Page loads and scripts have timeouts: a monitor's main thread goes on.
PartsSpec == PartsInit /\ [][PartsNext]_partVars /\ WF_partVars(MonitorPart)
=============================================================================
