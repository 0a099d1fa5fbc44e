---------------------------- MODULE RunLifecycle ----------------------------
(***************************************************************************)
(* The life of a run: who may launch one, the operating-system process     *)
(* that executes it, its row in the runs table and its slot in the         *)
(* dashboard's RunnerPool.                                                 *)
(*                                                                         *)
(*   dashboard/server.py   request threads inside _spawn_run, the          *)
(*                         run_thread of every launch, the stop, mark-     *)
(*                         failed and reap-zombies handlers, the cleanup   *)
(*                         at startup and the shutdown handler             *)
(*   core/process_reaper   classify_run_liveness, reap_stale_runs and the  *)
(*                         pre-spawn guards built from them                *)
(*   scheduler/scheduler   the direct launch when the dashboard is offline *)
(*   main.py               the monitor process: heartbeat and own outcome  *)
(*   db/database.py        the run_* statements, each one atomic           *)
(***************************************************************************)
EXTENDS Naturals, FiniteSets

CONSTANTS Profiles,     \* profile names
          Scheduled,    \* profiles the scheduler may launch by itself
          Runs,         \* run ids; also bounds the number of launches
          Requests,     \* request threads that may be inside _spawn_run
          MaxParallel,  \* runner.max_parallel
          NoProfile,    \* profile of a run id that was never handed out
          Free          \* _SPAWN_LOCK is not held

ASSUME CapAssumption == MaxParallel \in Nat \ {0}
ASSUME RunsFinite == IsFiniteSet(Runs)
ASSUME NoProfileAssumption == NoProfile \notin Profiles
ASSUME ScheduledAssumption == Scheduled \subseteq Profiles
ASSUME AgentsAssumption == /\ Free \notin Requests
                           /\ "scheduler" \notin Requests
                           /\ "startup" \notin Requests

\* Whoever walks the runs table: launchers, and the cleanup thread at startup
\* ("startup" also stands for a reap-zombies handler).
Launchers == Requests \cup {"scheduler"}
Agents    == Launchers \cup {"startup"}

VARIABLES
  dash,     \* the dashboard process: "up", "stopping" (in its signal handler), "down"
  lock,     \* holder of _SPAWN_LOCK
  at,       \* control state of each agent
  target,   \* the profile a launcher is working for
  todo,     \* rows an agent read and has not yet dealt with, in reap_stale_runs
  profile,  \* runs.profile_name
  row,      \* runs.finished_at / exit_code, and who wrote it
  pid,      \* runs.pid is recorded
  fresh,    \* runs.heartbeat_at is younger than STALE_HEARTBEAT_SEC
  proc,     \* what the operating system has at the run's pid
  slot,     \* the RunnerSlot in RUNNER_POOL
  thread,   \* the run_thread of the slot
  stops,    \* stop handlers between the kill and the bookkeeping
  doomed    \* slots the shutdown handler has still to kill

table == <<profile, row, pid, fresh>>
pool  == <<slot, thread, stops, doomed>>
ctl   == <<lock, at, target, todo>>
vars  == <<dash, lock, at, target, todo, profile, row, pid, fresh, proc,
           slot, thread, stops, doomed>>

Alive  == {"booting", "live", "exiting"}
Dash   == {"up", "stopping", "down"}
At     == {"idle", "check", "reap", "reserve", "fork"}
Row    == {"none", "open", "own", "died", "minus1", "minus99"}
Proc   == {"none", "exited", "killed", "chrome"} \cup Alive
Slot   == {"none", "reserved", "live", "finished"}
Thread == {"none", "launching", "starting", "forked", "pumping", "closing", "closed"}
Seen   == [run : Runs, pid : BOOLEAN, fresh : BOOLEAN]

Running   == {r \in Runs : slot[r] \in {"reserved", "live"}}   \* slot.is_running
OpenRuns  == {r \in Runs : row[r] = "open"}                    \* finished_at IS NULL
LiveOf(p) == {r \in OpenRuns : profile[r] = p}                 \* runs_live_for_profile
Unused    == {r \in Runs : profile[r] = NoProfile}
InPool(p) == \E r \in Running : profile[r] = p                 \* is_profile_running

Init == /\ dash    = "up"
        /\ lock    = Free
        /\ at      = [a \in Agents |-> "idle"]
        /\ target  = [a \in Launchers |-> NoProfile]
        /\ todo    = [a \in Agents |-> {}]
        /\ profile = [r \in Runs |-> NoProfile]
        /\ row     = [r \in Runs |-> "none"]
        /\ pid     = [r \in Runs |-> FALSE]
        /\ fresh   = [r \in Runs |-> FALSE]
        /\ proc    = [r \in Runs |-> "none"]
        /\ slot    = [r \in Runs |-> "none"]
        /\ thread  = [r \in Runs |-> "none"]
        /\ stops   = {}
        /\ doomed  = {}
-----------------------------------------------------------------------------
(* core/process_reaper.py                                                  *)

\* pid_looks_like_ghost_shell asks for main.py or scheduler.py in a python
\* command line, or for one of our profiles in a Chrome's.  Monitors run as
\* "python -u -m ghost_shell monitor", so only a Chrome ever passes: a pid
\* that was recycled for another run's browser.
LooksOurs(r) == proc[r] = "chrome"

\* classify_run_liveness of a row as it was read, against the process table now.
Classify(s) ==
  IF ~s.pid
  THEN IF s.fresh THEN "alive" ELSE "dead"
  ELSE IF ~LooksOurs(s.run) THEN "dead"      \* no such process, or "recycled"
       ELSE IF s.fresh THEN "alive" ELSE "wedged"

Read(r) == [run |-> r, pid |-> pid[r], fresh |-> fresh[r]]

Kill(r) == IF proc[r] \in Alive \cup {"chrome"} THEN "killed" ELSE proc[r]

\* One row of reap_stale_runs: alive rows are left alone, wedged trees are
\* killed, and what is not alive is finished with -99, unconditionally.
ReapRow(a, s) ==
  /\ at[a] = "reap" /\ s \in todo[a]
  /\ todo' = [todo EXCEPT ![a] = @ \ {s}]
  /\ row'  = IF Classify(s) = "alive" THEN row ELSE [row EXCEPT ![s.run] = "minus99"]
  /\ proc' = IF Classify(s) = "wedged" THEN [proc EXCEPT ![s.run] = Kill(s.run)] ELSE proc
  /\ UNCHANGED <<dash, lock, at, target, profile, pid, fresh, pool>>

\* A launcher goes on to its next step, or gives up (and leaves the lock).
Proceed(a) == /\ at' = [at EXCEPT ![a] = IF a = "scheduler" THEN "fork" ELSE "reserve"]
              /\ UNCHANGED <<lock, target>>

\* Seeded fault: a refusal that keeps the lock.
RefuseFault(a) == /\ at'     = [at EXCEPT ![a] = "idle"]
                  /\ target' = [target EXCEPT ![a] = NoProfile]
                  /\ lock'   = lock

Refuse(a) == /\ at'     = [at EXCEPT ![a] = "idle"]
             /\ target' = [target EXCEPT ![a] = NoProfile]
             /\ lock'   = IF lock = a THEN Free ELSE lock

\* is_profile_actually_running (dashboard only), then the first look of
\* ensure_no_live_run_for_profile: no live row, or reap before looking again.
CheckRows(a) ==
  /\ at[a] = "check" /\ a # "startup"
  /\ LET live == LiveOf(target[a]) IN
       \/ /\ a # "scheduler"
          /\ \E r \in live : Classify(Read(r)) # "dead"
          /\ Refuse(a)
          /\ UNCHANGED todo
       \/ /\ live = {}
          /\ Proceed(a)
          /\ UNCHANGED todo
       \/ /\ live # {}
          /\ a # "scheduler" => \A r \in live : Classify(Read(r)) = "dead"
          /\ at'   = [at EXCEPT ![a] = "reap"]
          /\ todo' = [todo EXCEPT ![a] = {Read(r) : r \in OpenRuns}]
          /\ UNCHANGED <<lock, target>>
  /\ UNCHANGED <<dash, table, proc, pool>>

\* ... and its second look, after reap_stale_runs.
RecheckRows(a) ==
  /\ at[a] = "reap" /\ a # "startup" /\ todo[a] = {}
  /\ IF LiveOf(target[a]) = {} THEN Proceed(a) ELSE Refuse(a)
  /\ UNCHANGED <<dash, todo, table, proc, pool>>
-----------------------------------------------------------------------------
(* _spawn_run and _launch_run_thread.                                      *)

\* Seeded faults: no lock around check and reserve; the pool is not asked.
BeginUnlockedFault(q, p) ==
  /\ dash # "down" /\ at[q] = "idle"
  /\ Cardinality({a \in Launchers : at[a] # "idle"}) < Cardinality(Unused)
  /\ ~InPool(p)
  /\ lock'   = q
  /\ at'     = [at EXCEPT ![q] = "check"]
  /\ target' = [target EXCEPT ![q] = p]
  /\ UNCHANGED <<dash, todo, table, proc, pool>>

BeginUnaskedFault(q, p) ==
  /\ dash # "down" /\ at[q] = "idle" /\ lock = Free
  /\ Cardinality({a \in Launchers : at[a] # "idle"}) < Cardinality(Unused)
  /\ lock'   = q
  /\ at'     = [at EXCEPT ![q] = "check"]
  /\ target' = [target EXCEPT ![q] = p]
  /\ UNCHANGED <<dash, todo, table, proc, pool>>

\* The lock is taken and RunnerPool asked; a busy profile is refused at once.
Begin(q, p) ==
  /\ dash # "down" /\ at[q] = "idle" /\ lock = Free
  /\ Cardinality({a \in Launchers : at[a] # "idle"}) < Cardinality(Unused)  \* bound
  /\ ~InPool(p)
  /\ lock'   = q
  /\ at'     = [at EXCEPT ![q] = "check"]
  /\ target' = [target EXCEPT ![q] = p]
  /\ UNCHANGED <<dash, todo, table, proc, pool>>

\* Seeded fault: the cap is off by one.
ReserveFault(q, r) ==
  /\ at[q] = "reserve" /\ q # "scheduler"
  /\ r \in Unused
  /\ IF Cardinality(Running) <= MaxParallel
     THEN /\ profile' = [profile EXCEPT ![r] = target[q]]
          /\ row'     = [row EXCEPT ![r] = "open"]
          /\ fresh'   = [fresh EXCEPT ![r] = TRUE]
          /\ slot'    = [slot EXCEPT ![r] = "reserved"]
          /\ thread'  = [thread EXCEPT ![r] = "launching"]
     ELSE UNCHANGED <<profile, row, fresh, slot, thread>>
  /\ Refuse(q)
  /\ UNCHANGED <<dash, todo, pid, proc, stops, doomed>>

\* The cap, then run_start and RUNNER_POOL.add; the lock is released.
Reserve(q, r) ==
  /\ at[q] = "reserve" /\ q # "scheduler"
  /\ r \in Unused
  /\ IF Cardinality(Running) < MaxParallel
     THEN /\ profile' = [profile EXCEPT ![r] = target[q]]
          /\ row'     = [row EXCEPT ![r] = "open"]
          /\ fresh'   = [fresh EXCEPT ![r] = TRUE]
          /\ slot'    = [slot EXCEPT ![r] = "reserved"]
          /\ thread'  = [thread EXCEPT ![r] = "launching"]
     ELSE UNCHANGED <<profile, row, fresh, slot, thread>>
  /\ Refuse(q)
  /\ UNCHANGED <<dash, todo, pid, proc, stops, doomed>>

\* Thread.start() succeeds, or the slot-leak guard cleans up.
StartThread(r) ==
  /\ thread[r] = "launching"
  /\ thread' = [thread EXCEPT ![r] = "starting"]
  /\ UNCHANGED <<dash, ctl, table, proc, slot, stops, doomed>>

StartThreadFails(r) ==
  /\ thread[r] = "launching"
  /\ row'    = [row EXCEPT ![r] = "minus1"]
  /\ slot'   = [slot EXCEPT ![r] = "none"]
  /\ thread' = [thread EXCEPT ![r] = "none"]
  /\ UNCHANGED <<dash, ctl, profile, pid, fresh, proc, stops, doomed>>

\* run_thread: Popen, with slot.process still None when it returns ...
Fork(r) ==
  /\ thread[r] = "starting"
  /\ proc'   = [proc EXCEPT ![r] = "booting"]
  /\ thread' = [thread EXCEPT ![r] = "forked"]
  /\ UNCHANGED <<dash, ctl, table, slot, stops, doomed>>

\* Seeded fault: the failure is recorded in the pool only.
ForkFailsFault(r) ==
  /\ thread[r] = "starting"
  /\ slot'   = [slot EXCEPT ![r] = "finished"]
  /\ thread' = [thread EXCEPT ![r] = "closed"]
  /\ UNCHANGED <<dash, ctl, table, proc, stops, doomed>>

\* ... or Popen raises: run_finish(-1), mark_finished(-1).
ForkFails(r) ==
  /\ thread[r] = "starting"
  /\ row'    = [row EXCEPT ![r] = "minus1"]
  /\ slot'   = [slot EXCEPT ![r] = "finished"]
  /\ thread' = [thread EXCEPT ![r] = "closed"]
  /\ UNCHANGED <<dash, ctl, profile, pid, fresh, proc, stops, doomed>>

\* slot.process = proc; run_set_pid.
Attach(r) ==
  /\ thread[r] = "forked"
  /\ slot'   = [slot EXCEPT ![r] = "live"]
  /\ pid'    = [pid EXCEPT ![r] = TRUE]
  /\ thread' = [thread EXCEPT ![r] = "pumping"]
  /\ UNCHANGED <<dash, ctl, profile, row, fresh, proc, stops, doomed>>

\* Seeded fault: a child that was killed is never waited for.
CloseRowFault(r) ==
  /\ thread[r] = "pumping" /\ proc[r] = "exited"
  /\ row'    = [row EXCEPT ![r] = "own"]
  /\ thread' = [thread EXCEPT ![r] = "closing"]
  /\ UNCHANGED <<dash, ctl, profile, pid, fresh, proc, slot, stops, doomed>>

\* proc.wait() returned: run_finish(returncode), whatever the row says.
CloseRow(r) ==
  /\ thread[r] = "pumping" /\ proc[r] \in {"exited", "killed"}
  /\ row'    = [row EXCEPT ![r] = IF proc[r] = "exited" THEN "own" ELSE "died"]
  /\ thread' = [thread EXCEPT ![r] = "closing"]
  /\ UNCHANGED <<dash, ctl, profile, pid, fresh, proc, slot, stops, doomed>>

\* RUNNER_POOL.mark_finished.
CloseSlot(r) ==
  /\ thread[r] = "closing"
  /\ slot'   = [slot EXCEPT ![r] = "finished"]
  /\ thread' = [thread EXCEPT ![r] = "closed"]
  /\ UNCHANGED <<dash, ctl, table, proc, stops, doomed>>

\* A minute later the slot is dropped.
Collect(r) ==
  /\ thread[r] = "closed"
  /\ slot'   = [slot EXCEPT ![r] = "none"]
  /\ thread' = [thread EXCEPT ![r] = "none"]
  /\ UNCHANGED <<dash, ctl, table, proc, stops, doomed>>
-----------------------------------------------------------------------------
(* Handlers of the dashboard that end a run.                               *)

\* Seeded fault: the stop is accepted before the slot has a process.
StopKillFault(r) ==
  /\ r \in Running /\ r \notin stops
  /\ proc'  = [proc EXCEPT ![r] = Kill(r)]
  /\ stops' = stops \cup {r}
  /\ UNCHANGED <<dash, ctl, table, slot, thread, doomed>>

\* api_runs_stop_specific: refused while the slot has no process ...
StopKill(r) ==
  /\ slot[r] = "live" /\ r \notin stops
  /\ proc'  = [proc EXCEPT ![r] = Kill(r)]
  /\ stops' = stops \cup {r}
  /\ UNCHANGED <<dash, ctl, table, slot, thread, doomed>>

\* ... and after the kill: the row if it is unfinished, then the slot.
StopRecord(r) ==
  /\ r \in stops
  /\ row'   = IF row[r] = "open" THEN [row EXCEPT ![r] = "minus99"] ELSE row
  /\ slot'  = IF slot[r] # "none" THEN [slot EXCEPT ![r] = "finished"] ELSE slot
  /\ stops' = stops \ {r}
  /\ UNCHANGED <<dash, ctl, profile, pid, fresh, proc, thread, doomed>>

\* api_run_mark_failed touches the table only.
MarkFailed(r) ==
  /\ dash # "down" /\ row[r] = "open"
  /\ row' = [row EXCEPT ![r] = "minus99"]
  /\ UNCHANGED <<dash, ctl, profile, pid, fresh, proc, pool>>

\* _shutdown_reap_all_runs: the slots that have a process are listed once ...
Shutdown ==
  /\ dash = "up"
  /\ dash'   = "stopping"
  /\ doomed' = {r \in Runs : slot[r] = "live"}
  /\ UNCHANGED <<ctl, table, proc, slot, thread, stops>>

\* ... and killed one by one, their rows finished with -1.
ShutdownKill(r) ==
  /\ r \in doomed
  /\ proc'   = [proc EXCEPT ![r] = Kill(r)]
  /\ row'    = [row EXCEPT ![r] = "minus1"]
  /\ doomed' = doomed \ {r}
  /\ UNCHANGED <<dash, ctl, profile, pid, fresh, slot, thread, stops>>

\* The process ends: after the handler, or at any time when it is killed.
Down ==
  /\ dash # "down"
  /\ dash'   = "down"
  /\ lock'   = Free
  /\ at'     = [a \in Agents |-> IF a = "scheduler" THEN at[a] ELSE "idle"]
  /\ target' = [a \in Launchers |-> IF a = "scheduler" THEN target[a] ELSE NoProfile]
  /\ todo'   = [a \in Agents |-> IF a = "scheduler" THEN todo[a] ELSE {}]
  /\ slot'   = [r \in Runs |-> "none"]
  /\ thread' = [r \in Runs |-> "none"]
  /\ stops'  = {}
  /\ doomed' = {}
  /\ UNCHANGED <<table, proc>>

\* cleanup_stale_runs, phase A: rows older than an hour are finished unseen.
Up ==
  /\ dash = "down"
  /\ dash' = "up"
  /\ \E ancient \in SUBSET OpenRuns :
       row' = [r \in Runs |-> IF r \in ancient THEN "minus99" ELSE row[r]]
  /\ at' = [at EXCEPT !["startup"] = "check"]
  /\ UNCHANGED <<lock, target, todo, profile, pid, fresh, proc, pool>>

\* Phase B, in a thread: reap_stale_runs over what is left.
StartupReap ==
  /\ at["startup"] = "check"
  /\ at'   = [at EXCEPT !["startup"] = "reap"]
  /\ todo' = [todo EXCEPT !["startup"] = {Read(r) : r \in OpenRuns}]
  /\ UNCHANGED <<dash, lock, target, table, proc, pool>>

\* api_admin_reap_zombies: the same walk at the operator's request.
ReapZombies ==
  /\ dash # "down" /\ at["startup"] = "idle"
  /\ at'   = [at EXCEPT !["startup"] = "reap"]
  /\ todo' = [todo EXCEPT !["startup"] = {Read(r) : r \in OpenRuns}]
  /\ UNCHANGED <<dash, lock, target, table, proc, pool>>

StartupDone ==
  /\ at["startup"] = "reap" /\ todo["startup"] = {}
  /\ at' = [at EXCEPT !["startup"] = "idle"]
  /\ UNCHANGED <<dash, lock, target, todo, table, proc, pool>>
-----------------------------------------------------------------------------
(* The scheduler's fallback, when its request to the dashboard got no answer. *)

FallbackBegin(p) ==
  /\ at["scheduler"] = "idle"
  /\ Cardinality({a \in Launchers : at[a] # "idle"}) < Cardinality(Unused)  \* bound
  /\ at'     = [at EXCEPT !["scheduler"] = "check"]
  /\ target' = [target EXCEPT !["scheduler"] = p]
  /\ UNCHANGED <<dash, lock, todo, table, proc, pool>>

\* Popen without a run id: the monitor inserts its own row when it has booted.
FallbackFork(r) ==
  /\ at["scheduler"] = "fork" /\ r \in Unused
  /\ profile' = [profile EXCEPT ![r] = target["scheduler"]]
  /\ proc'    = [proc EXCEPT ![r] = "booting"]
  /\ Refuse("scheduler")
  /\ UNCHANGED <<dash, todo, row, pid, fresh, pool>>
-----------------------------------------------------------------------------
(* main.py, and the operating system.                                      *)

\* Import of main.py: run_start unless the id came in the environment,
\* run_set_pid, and the heartbeat thread with its first ping.
Boot(r) ==
  /\ proc[r] = "booting"
  /\ proc'  = [proc EXCEPT ![r] = "live"]
  /\ row'   = [row EXCEPT ![r] = IF @ = "none" THEN "open" ELSE @]
  /\ pid'   = [pid EXCEPT ![r] = TRUE]
  /\ fresh' = [fresh EXCEPT ![r] = TRUE]
  /\ UNCHANGED <<dash, ctl, profile, pool>>

\* run_heartbeat, also when the row is finished.
Heartbeat(r) ==
  /\ proc[r] = "live"
  /\ fresh' = [fresh EXCEPT ![r] = TRUE]
  /\ UNCHANGED <<dash, ctl, profile, row, pid, proc, pool>>

\* Three minutes without a ping: process gone, hung, or the host was asleep.
GoStale(r) ==
  /\ row[r] = "open" /\ fresh[r]
  /\ fresh' = [fresh EXCEPT ![r] = FALSE]
  /\ UNCHANGED <<dash, ctl, profile, row, pid, proc, pool>>

\* The finally block: the monitor records its own outcome, unconditionally ...
OwnFinish(r) ==
  /\ proc[r] = "live"
  /\ row'  = [row EXCEPT ![r] = "own"]
  /\ proc' = [proc EXCEPT ![r] = "exiting"]
  /\ UNCHANGED <<dash, ctl, profile, pid, fresh, pool>>

\* ... and exits with it.
Exit(r) ==
  /\ proc[r] = "exiting"
  /\ proc' = [proc EXCEPT ![r] = "exited"]
  /\ UNCHANGED <<dash, ctl, table, pool>>

\* An import error, a kill from outside, a hard crash.
Crash(r) ==
  /\ proc[r] \in Alive
  /\ proc' = [proc EXCEPT ![r] = "killed"]
  /\ UNCHANGED <<dash, ctl, table, pool>>

\* The pid is reused by a Chrome of ours, once nobody has to wait for the process.
\* Bound: only while the row is open, later it makes no difference to anybody.
Recycle(r) ==
  /\ proc[r] \in {"exited", "killed"} /\ thread[r] \in {"none", "closing", "closed"}
  /\ row[r] = "open"
  /\ proc' = [proc EXCEPT ![r] = "chrome"]
  /\ UNCHANGED <<dash, ctl, table, pool>>
-----------------------------------------------------------------------------
Launch(r) == \/ StartThread(r) \/ StartThreadFails(r) \/ Fork(r) \/ ForkFails(r)
             \/ Attach(r) \/ CloseRow(r) \/ CloseSlot(r) \/ Collect(r)
Operator(r) == StopKill(r) \/ StopRecord(r) \/ MarkFailed(r)
Monitor(r) == \/ Boot(r) \/ Heartbeat(r) \/ GoStale(r) \/ OwnFinish(r)
              \/ Exit(r) \/ Crash(r) \/ Recycle(r)

Next == \/ \E q \in Requests, p \in Profiles : Begin(q, p)
        \/ \E q \in Requests, r \in Runs : Reserve(q, r)
        \/ \E p \in Scheduled : FallbackBegin(p)
        \/ \E a \in Launchers : CheckRows(a) \/ RecheckRows(a)
        \/ \E a \in Agents : \E s \in todo[a] : ReapRow(a, s)
        \/ \E r \in Runs : \/ Launch(r) \/ Operator(r) \/ Monitor(r)
                           \/ FallbackFork(r) \/ ShutdownKill(r)
        \/ Shutdown \/ Down \/ Up \/ StartupReap \/ ReapZombies \/ StartupDone

Spec == Init /\ [][Next]_vars

\* Threads of a running dashboard make progress; nothing is assumed of the
\* monitors, of the operator, or of the dashboard staying up.
Fairness == /\ \A q \in Requests : /\ WF_vars(CheckRows(q))
                                   /\ WF_vars(\E s \in todo[q] : ReapRow(q, s))
                                   /\ WF_vars(RecheckRows(q))
                                   /\ WF_vars(\E r \in Runs : Reserve(q, r))
            /\ \A r \in Runs : WF_vars(CloseRow(r)) /\ WF_vars(CloseSlot(r))

FairSpec == Spec /\ Fairness
-----------------------------------------------------------------------------
TypeOK == /\ dash \in Dash
          /\ lock \in Requests \cup {Free}
          /\ at \in [Agents -> At]
          /\ target \in [Launchers -> Profiles \cup {NoProfile}]
          /\ todo \in [Agents -> SUBSET Seen]
          /\ profile \in [Runs -> Profiles \cup {NoProfile}]
          /\ row \in [Runs -> Row]
          /\ pid \in [Runs -> BOOLEAN]
          /\ fresh \in [Runs -> BOOLEAN]
          /\ proc \in [Runs -> Proc]
          /\ slot \in [Runs -> Slot]
          /\ thread \in [Runs -> Thread]
          /\ stops \subseteq Runs
          /\ doomed \subseteq Runs

\* A monitor this dashboard started and that is alive.
Child(r) == thread[r] # "none" /\ proc[r] \in Alive

\* Every guard of _spawn_run trusts RunnerPool: a live child's slot says
\* is_running, through stop, exit, failed launch and shutdown alike.
LiveChildHasSlot == \A r \in Runs : Child(r) => r \in Running

\* _spawn_run: "two main.py processes on the same profile, both trashing the same
\* user-data-dir" never come from one dashboard, however its requests interleave.
OneChildPerProfile == \A r, s \in Runs : Child(r) /\ Child(s) /\ profile[r] = profile[s] => r = s

\* runner.max_parallel bounds the processes, not only the slots.
ChildrenBounded == Cardinality({r \in Runs : Child(r)}) <= MaxParallel

\* A profile whose slot was freed has no open row of that run left to refuse the
\* next launch: the row is finished before the slot on every path.
FreedSlotHasClosedRow == \A r \in Runs : slot[r] = "finished" => row[r] # "open"

\* RunnerPool leases profiles to runs (ProfileLease).
Lease == INSTANCE ProfileLease
           WITH lease <- {<<r, profile[r]>> : r \in Running},
                spent <- Runs \ Unused,
                Cap   <- MaxParallel

ImplementsLease == Lease!Spec

\* The slot of a child that died does not lock its profile out for ever.
DeadChildFreesSlot ==
  \A r \in Runs : (slot[r] = "live" /\ proc[r] \in {"exited", "killed"}) ~> (r \notin Running)

\* _SPAWN_LOCK is always released, through every refusal in the middle.
LaunchAnswered == \A q \in Requests : (lock = q) ~> (lock # q)

\* Said by reap_stale_runs ("PID is alive, heartbeat is fresh -> leave alone (still
\* running)"): refuted, a healthy monitor is taken for a recycled pid.
FreshRunLeftAlone ==
  [][\A a \in Agents : \A s \in todo[a] :
       /\ s \notin todo'[a] /\ s.pid /\ s.fresh
       /\ proc[s.run] = "live" /\ row[s.run] = "open"
       => row'[s.run] = "open"]_vars

\* Said by _shutdown_reap_all_runs ("Ctrl+C / killed terminal doesn't leave orphan
\* ... main.py processes running"): refuted for a launch in progress.
NoOrphanAfterShutdown ==
  [][dash = "stopping" /\ dash' = "down" /\ doomed = {} => \A r \in Runs : ~Child(r)]_vars
=============================================================================
