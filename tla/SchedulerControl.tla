-------------------------- MODULE SchedulerControl --------------------------
(***************************************************************************)
(* Starting and stopping the scheduler process from the dashboard: the     *)
(* start, stop and status handlers of dashboard/server.py, the pid file    *)
(* .scheduler.pid they share, and the scheduler process with its heartbeat *)
(* (scheduler/scheduler.py).  Every look at the pid file may delete it, so *)
(* a handler is modelled one access of the file at a time.                 *)
(***************************************************************************)
EXTENDS Naturals, FiniteSets

CONSTANTS Handlers,  \* request threads in these endpoints at the same time
          Pids,      \* process ids; also bounds the number of starts
          NoPid      \* no process id

ASSUME PidsAssumption == NoPid \notin Pids /\ {"absent", "pending"} \cap Pids = {}

VARIABLES
  file,   \* .scheduler.pid: "absent", "pending" (or not a number), or a pid
  proc,   \* the scheduler processes
  ticker, \* processes whose heartbeat thread has passed its _shutdown check
  beat,   \* scheduler.heartbeat_at is set
  kind,   \* the endpoint a handler serves
  at,     \* where the handler is
  seen,   \* what it read in the pid file
  pid     \* the process it works on

vars == <<file, proc, ticker, beat, kind, at, seen, pid>>
process == <<proc, ticker>>
local   == <<kind, seen, pid>>

Live == {p \in Pids : proc[p] \in {"running", "stopping", "closing"}}
File == Pids \cup {"absent", "pending"}
At   == {"idle", "look", "judge", "reserve", "spawn", "write", "resolve", "terminate", "wait", "clean"}

Goto(h, place) == at' = [at EXCEPT ![h] = place]

Init == /\ file   = "absent"
        /\ proc   = [p \in Pids |-> "none"]
        /\ ticker = {}
        /\ beat   = FALSE
        /\ kind   = [h \in Handlers |-> "status"]
        /\ at     = [h \in Handlers |-> "idle"]
        /\ seen   = [h \in Handlers |-> "absent"]
        /\ pid    = [h \in Handlers |-> NoPid]
-----------------------------------------------------------------------------
(* _scheduler_pid_alive, the first thing every endpoint does.              *)

\* A request arrives at start, stop or status (reap-zombies looks likewise).
Request(h, k) == /\ at[h] = "idle"
                 /\ kind' = [kind EXCEPT ![h] = k]
                 /\ Goto(h, "look")
                 /\ UNCHANGED <<file, process, beat, seen, pid>>

\* The pid file is read ...
Look(h) == /\ at[h] = "look"
           /\ seen' = [seen EXCEPT ![h] = file]
           /\ Goto(h, "judge")
           /\ UNCHANGED <<file, process, beat, kind, pid>>

\* What the endpoint does with the answer.
AfterCheck(h, alive) == CASE kind[h] = "status" -> "idle"
                          [] kind[h] = "start"  -> IF alive THEN "idle" ELSE "reserve"
                          [] kind[h] = "stop"   -> IF alive THEN "terminate" ELSE "resolve"

\* Seeded faults: a stale file stays; a scheduler without a heartbeat is stale.
JudgeKeepsFault(h) ==
  /\ at[h] = "judge"
  /\ LET alive == seen[h] \in Live IN
       /\ pid' = [pid EXCEPT ![h] = IF alive THEN seen[h] ELSE NoPid]
       /\ UNCHANGED <<file, beat>>
       /\ Goto(h, AfterCheck(h, alive))
  /\ UNCHANGED <<process, kind, seen>>

JudgeByBeatFault(h) ==
  /\ at[h] = "judge"
  /\ LET alive == seen[h] \in Live /\ beat IN
       /\ pid' = [pid EXCEPT ![h] = IF alive THEN seen[h] ELSE NoPid]
       /\ IF alive \/ seen[h] = "absent"
          THEN UNCHANGED <<file, beat>>
          ELSE file' = "absent" /\ beat' = FALSE
       /\ Goto(h, AfterCheck(h, alive))
  /\ UNCHANGED <<process, kind, seen>>

\* ... and what it says is checked; a file that names no live scheduler is
\* removed, whatever it says by now, together with the heartbeat.
Judge(h) ==
  /\ at[h] = "judge"
  /\ LET alive == seen[h] \in Live IN
       /\ pid' = [pid EXCEPT ![h] = IF alive THEN seen[h] ELSE NoPid]
       /\ IF alive \/ seen[h] = "absent"
          THEN UNCHANGED <<file, beat>>
          ELSE file' = "absent" /\ beat' = FALSE
       /\ Goto(h, AfterCheck(h, alive))
  /\ UNCHANGED <<process, kind, seen>>
-----------------------------------------------------------------------------
(* api_scheduler_start.                                                    *)

\* O_CREAT | O_EXCL with the placeholder, or 409.
Reserve(h) == /\ at[h] = "reserve"
              /\ IF file = "absent"
                 THEN file' = "pending" /\ Goto(h, "spawn")
                 ELSE UNCHANGED file /\ Goto(h, "idle")
              /\ UNCHANGED <<process, beat, local>>

Spawn(h) == /\ at[h] = "spawn"
            /\ \E p \in Pids : /\ proc[p] = "none"
                               /\ proc' = [proc EXCEPT ![p] = "running"]
                               /\ pid'  = [pid EXCEPT ![h] = p]
            /\ Goto(h, "write")
            /\ UNCHANGED <<file, ticker, beat, kind, seen>>

\* Popen raises: the placeholder is removed.
SpawnFails(h) == /\ at[h] = "spawn"
                 /\ file' = "absent"
                 /\ Goto(h, "idle")
                 /\ UNCHANGED <<process, beat, local>>

\* Seeded fault: the placeholder is never replaced.
WritePidFault(h) == /\ at[h] = "write"
                    /\ Goto(h, "idle")
                    /\ UNCHANGED <<file, process, beat, local>>

\* The placeholder is overwritten (or the file is made again).
WritePid(h) == /\ at[h] = "write"
               /\ file' = pid[h]
               /\ Goto(h, "idle")
               /\ UNCHANGED <<process, beat, local>>
-----------------------------------------------------------------------------
(* api_scheduler_stop.                                                     *)

\* No validated pid: the file is read once more, without validation.
Resolve(h) == /\ at[h] = "resolve"
              /\ IF file \in Pids
                 THEN /\ pid' = [pid EXCEPT ![h] = file]
                      /\ Goto(h, "terminate")
                      /\ UNCHANGED beat
                 ELSE /\ beat' = FALSE
                      /\ Goto(h, "idle")
                      /\ UNCHANGED pid
              /\ UNCHANGED <<file, process, kind, seen>>

\* terminate() is a signal, or an immediate end (Windows, or ?force=1).
Terminate(h) ==
  /\ at[h] = "terminate"
  /\ \E end \in {"stopping", "dead"} :
       proc' = IF proc[pid[h]] = "running" THEN [proc EXCEPT ![pid[h]] = end] ELSE proc
  /\ Goto(h, "wait")
  /\ UNCHANGED <<file, ticker, beat, local>>

\* Seeded fault: the answer does not wait for the process to be gone.
AwaitFault(h) == /\ at[h] = "wait"
                 /\ Goto(h, "clean")
                 /\ UNCHANGED <<file, process, beat, local>>

\* It ended within eight seconds, or is killed.
Await(h) == /\ at[h] = "wait"
            /\ proc' = [proc EXCEPT ![pid[h]] = "dead"]
            /\ Goto(h, "clean")
            /\ UNCHANGED <<file, ticker, beat, local>>

\* "ALWAYS clean up state".
Clean(h) == /\ at[h] = "clean"
            /\ file' = "absent"
            /\ beat' = FALSE
            /\ Goto(h, "idle")
            /\ UNCHANGED <<process, local>>

\* The dashboard is killed inside a handler.  Bound: not between Popen and the
\* write of the pid, where the process it leaves is known to nobody.
Abandon(h) == /\ at[h] \notin {"idle", "write"}
              /\ Goto(h, "idle")
              /\ UNCHANGED <<file, process, beat, local>>
-----------------------------------------------------------------------------
(* The scheduler process.                                                  *)

\* The ticker checks _shutdown, and then writes the heartbeat.
Tick(p) == /\ proc[p] = "running"
           /\ ticker' = ticker \cup {p}
           /\ UNCHANGED <<file, proc, beat, at, local>>

Beat(p) == /\ p \in ticker /\ p \in Live
           /\ ticker' = ticker \ {p}
           /\ beat' = TRUE
           /\ UNCHANGED <<file, proc, at, local>>

\* Ctrl+C in its terminal: the handler of the signal sets _shutdown.
Interrupt(p) == /\ proc[p] = "running"
                /\ proc' = [proc EXCEPT ![p] = "stopping"]
                /\ UNCHANGED <<file, ticker, beat, at, local>>

\* The finally block of main: mark_stopped, then the process ends.
MarkStopped(p) == /\ proc[p] = "stopping"
                  /\ proc' = [proc EXCEPT ![p] = "closing"]
                  /\ beat' = FALSE
                  /\ UNCHANGED <<file, ticker, at, local>>

Exit(p) == /\ proc[p] = "closing"
           /\ proc' = [proc EXCEPT ![p] = "dead"]
           /\ UNCHANGED <<file, ticker, beat, at, local>>

\* A crash, or a kill from outside; the pid file stays.
Crash(p) == /\ p \in Live
            /\ proc' = [proc EXCEPT ![p] = "dead"]
            /\ UNCHANGED <<file, ticker, beat, at, local>>

Serve(h) == \/ Look(h) \/ Judge(h) \/ Reserve(h) \/ Spawn(h) \/ SpawnFails(h) \/ WritePid(h)
            \/ Resolve(h) \/ Terminate(h) \/ Await(h) \/ Clean(h)

Next == \/ \E h \in Handlers : \/ \E k \in {"start", "stop", "status"} : Request(h, k)
                               \/ Serve(h) \/ Abandon(h)
        \/ \E p \in Pids : Tick(p) \/ Beat(p) \/ Interrupt(p) \/ MarkStopped(p) \/ Exit(p) \/ Crash(p)

Spec == Init /\ [][Next]_vars
-----------------------------------------------------------------------------
TypeOK == /\ file \in File
          /\ proc \in [Pids -> {"none", "running", "stopping", "closing", "dead"}]
          /\ ticker \subseteq Pids
          /\ beat \in BOOLEAN
          /\ kind \in [Handlers -> {"start", "stop", "status"}]
          /\ at \in [Handlers -> At]
          /\ seen \in [Handlers -> File]
          /\ pid \in [Handlers -> Pids \cup {NoPid}]

\* api_scheduler_start: "a double-click on Start could spawn two scheduler
\* processes" is what the atomic pid file is for.  Holds for requests one after
\* another, through crashes of either side; refuted for two at a time.
AtMostOneScheduler == Cardinality(Live) <= 1

\* Between requests a live scheduler is the one in the pid file, so status shows
\* it and stop reaches it; no read of the file has lost it.
SchedulerIsTracked ==
  (\A h \in Handlers : at[h] = "idle") => \A p \in Live : file = p

\* _clear_scheduler_pid_file "makes the next Start work": whatever a crash left
\* behind, a start that passed the check is not refused by a file.
StaleFileNeverBlocks == \A h \in Handlers : at[h] = "reserve" => file = "absent"

\* When stop has answered, nothing runs and nothing says that anything does, also
\* when the scheduler's own shutdown was overtaken by the kill.
StopIsFinal ==
  [][\A h \in Handlers :
       at[h] \in {"resolve", "clean"} /\ Serve(h) /\ at'[h] = "idle"
         => Live' = {} /\ file' \notin Pids /\ ~beat']_vars
=============================================================================
