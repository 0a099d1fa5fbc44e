--------------------------- MODULE MCScheduling ---------------------------
(* The scheduler's loop and its pass over the scheduled tasks.  They share  *)
(* no state that either reads, so each is explored with the other at rest.  *)
EXTENDS SchedulerLoop, ScheduledTasks
CONSTANTS p1

VARIABLE part
vars == <<part, loopVars, tasksVars>>

Set(from, to, days, mode, members, serial) ==
  [from |-> from, to |-> to, days |-> days, mode |-> mode, members |-> members, serial |-> serial]

AllDay      == Set(0, 3, {}, "density", 0, FALSE)
MCSettings  == {AllDay, Set(1, 2, {}, "density", 0, FALSE),
                Set(0, 2, {2}, "interval", 2, TRUE), Set(0, 2, {2}, "interval", 2, FALSE)}
MCCrons     == {{1, 2, 4, 5}, {2}}

LoopPart  == part = "loop" /\ Loop /\ UNCHANGED <<part, tasksVars>>
TickPart  == part = "loop" /\ Tick /\ UNCHANGED <<part, tasksVars>>
HourPart  == part = "loop" /\ Elapse1 /\ UNCHANGED <<part, tasksVars>>
PassPart  == part = "tasks" /\ Pass /\ UNCHANGED <<part, loopVars>>
UpPart    == part = "tasks" /\ DashUp /\ UNCHANGED <<part, loopVars>>

Init == /\ LoopInit /\ TasksInit
        /\ \/ part = "loop" /\ \A t \in Tasks : row[t] = Gone
           \/ part = "tasks" /\ cfg = AllDay

Next == \/ part = "loop" /\ LoopNext /\ UNCHANGED <<part, tasksVars>>
        \/ part = "tasks" /\ TasksNext /\ UNCHANGED <<part, loopVars>>

\* LoopFairness and TasksFairness, each for its part.
Spec == /\ Init /\ [][Next]_vars
        /\ WF_vars(LoopPart) /\ WF_vars(HourPart) /\ SF_vars(TickPart)
        /\ WF_vars(PassPart) /\ WF_vars(UpPart)
=============================================================================
