--------------------------- MODULE ScheduledTasks ---------------------------
(***************************************************************************)
(* Per-script schedules: the rows of the table scheduled_tasks, the pass   *)
(* the scheduler makes over them at every tick (_fire_scheduled_tasks in   *)
(* scheduler/scheduler.py), and what the dashboard, the user and the host  *)
(* do to the same rows in between.  A cron expression is the set of the    *)
(* minutes it matches.                                                     *)
(***************************************************************************)
EXTENDS Integers, FiniteSets

CONSTANTS Tasks,     \* row ids, walked in ascending order
          Profiles,  \* profile names
          Crons,     \* cron expressions, each a set of minutes
          Gone,      \* no row
          Horizon,   \* bound: the last minute of the wall clock
          Lookahead, \* how far next_fire searches (366 days)
          SkewLimit, \* CLOCK_SKEW_FUTURE_THRESHOLD
          MaxFaults  \* bound: crashes, failed writes, clock jumps, outages

ASSUME TasksAssumption == /\ Tasks \subseteq Nat /\ IsFiniteSet(Tasks)
                          /\ \A e \in Crons : e \subseteq Nat
                          /\ {Horizon, Lookahead, SkewLimit, MaxFaults} \subseteq Nat

VARIABLES
  time,    \* the wall clock
  row,     \* the table: Gone, or what the row says
  missing, \* profiles that do not exist
  flagged, \* profiles with needs_attention = 1
  dash,    \* the dashboard answers
  step,    \* where the pass over the rows is
  snap,    \* the rows as they were read when the pass began
  known,   \* the profiles as they were read when the pass began
  todo,    \* rows the pass has not come to
  now,     \* the time the pass works with
  served,  \* history: the slot a row was last fired for
  doubt,   \* history: rows whose bump did not reach the table, or fired across a clock jump
  off,     \* history: rows switched off, but not while they were being posted
  faults   \* faults so far

tasksVars == <<time, row, missing, flagged, dash, step, snap, known, todo, now, served, doubt, off, faults>>
world     == <<time, missing, flagged, dash>>
pass      == <<snap, known, now>>
history   == <<served, doubt, off>>

None == -1
Due  == Nat \cup {None}
Rows == [enabled : BOOLEAN, cron : Crons, due : Due, profiles : SUBSET Profiles]

ASSUME GoneAssumption == Gone \notin Rows

There(t) == row[t] # Gone
On(t)    == There(t) /\ row[t].enabled
Cur      == CHOOSE t \in todo : \A u \in todo : t <= u

\* cron.next_fire: the first match after the minute of t, or None.
NextFire(e, t) ==
  LET ahead == {u \in e : t < u /\ u <= t + Lookahead}
  IN  IF ahead = {} THEN None ELSE CHOOSE u \in ahead : \A v \in ahead : u <= v

TasksInit == /\ time = 0
             /\ row \in [Tasks -> {[enabled |-> TRUE, cron |-> e, due |-> None, profiles |-> Profiles] : e \in Crons}
                                  \cup {Gone}]
             /\ missing = {} /\ flagged = {} /\ dash = TRUE
             /\ step = "idle"
             /\ snap = [t \in Tasks |-> Gone] /\ known = {} /\ todo = {} /\ now = 0
             /\ served = [t \in Tasks |-> None]
             /\ doubt = {} /\ off = {}
             /\ faults = 0
-----------------------------------------------------------------------------
(* The pass.                                                               *)

BeginPass == /\ step = "idle"
             /\ snap'  = row
             /\ known' = Profiles \ missing
             /\ todo'  = {t \in Tasks : There(t)}
             /\ now'   = time
             /\ step'  = "walk"
             /\ UNCHANGED <<world, row, history, faults>>

\* The pass is over: its local variables are gone.
Forget == step' = "idle" /\ snap' = [t \in Tasks |-> Gone] /\ known' = {} /\ now' = 0

EndPass == /\ step = "walk" /\ todo = {}
           /\ Forget
           /\ UNCHANGED <<world, row, todo, history, faults>>

\* UPDATE ... WHERE id: next_run_at, where None leaves the column alone.
WithDue(t, due) == IF There(t) /\ due # None THEN [row EXCEPT ![t].due = due] ELSE row

Done(t) == todo' = todo \ {t} /\ step' = "walk"

\* Seeded fault: a row set far ahead is taken for one not yet due.
NotNowFault(t) == /\ ~snap[t].enabled \/ snap[t].due > now
                  /\ Done(t)
                  /\ UNCHANGED <<world, pass, row, history, faults>>

\* Disabled, or not yet due.
NotNow(t) == /\ \/ ~snap[t].enabled
                \/ snap[t].due # None /\ snap[t].due > now /\ snap[t].due - now <= SkewLimit
             /\ Done(t)
             /\ UNCHANGED <<world, pass, row, history, faults>>

\* Never computed, or so far ahead that the clock must have been set back.
Compute(t) == /\ snap[t].enabled
              /\ snap[t].due = None \/ snap[t].due - now > SkewLimit
              /\ row' = WithDue(t, NextFire(snap[t].cron, now))
              /\ Done(t)
              /\ UNCHANGED <<world, pass, history, faults>>

IsDue(t) == snap[t].enabled /\ snap[t].due # None /\ snap[t].due <= now

\* Nobody to run it for: only next_run_at is moved.
NobodyToRun(t) == /\ IsDue(t) /\ snap[t].profiles = {}
                  /\ row' = WithDue(t, NextFire(snap[t].cron, now))
                  /\ Done(t)
                  /\ UNCHANGED <<world, pass, history, faults>>

\* The profiles of the row as re-read, else those of the snapshot.
Wanted(t) == IF row[t].profiles # {} THEN row[t].profiles ELSE snap[t].profiles

\* Seeded fault: the snapshot is trusted, the row is not read again.
RereadFault(t) ==
  /\ IsDue(t) /\ snap[t].profiles # {}
  /\ step' = IF snap[t].profiles \subseteq flagged THEN "bump" ELSE "post"
  /\ UNCHANGED <<world, pass, row, todo, history, faults>>

\* The row is read again: deleted or disabled rows are left alone, one whose
\* profiles are all unknown is disabled, one whose profiles all need attention
\* is bumped without being fired.
Reread(t) ==
  /\ IsDue(t) /\ snap[t].profiles # {}
  /\ \/ /\ ~On(t)
        /\ Done(t)
        /\ UNCHANGED row
     \/ /\ On(t)
        /\ known # {} /\ Wanted(t) \cap known = {}
        /\ row' = [row EXCEPT ![t].enabled = FALSE]
        /\ Done(t)
     \/ /\ On(t)
        /\ known = {} \/ Wanted(t) \cap known # {}
        /\ step' = IF Wanted(t) \subseteq flagged THEN "bump" ELSE "post"
        /\ UNCHANGED <<row, todo>>
  /\ UNCHANGED <<world, pass, history, faults>>

\* POST /api/scripts/<id>/run: the runs are started; the answer may get lost.
Fire(t) == /\ step = "post" /\ dash
           /\ served' = [served EXCEPT ![t] = snap[t].due]
           /\ doubt'  = IF time < now THEN doubt \cup {t} ELSE doubt \ {t}
           /\ step'   = "bump"
           /\ UNCHANGED <<world, pass, row, todo, off, faults>>

\* An HTTP error, or any other that is not "offline": bumped all the same.
Refused == /\ step = "post" /\ dash
           /\ step' = "bump"
           /\ UNCHANGED <<world, pass, row, todo, history, faults>>

\* URLError: the row stays due for the next tick.
Offline(t) == /\ step = "post" /\ ~dash
              /\ Done(t)
              /\ UNCHANGED <<world, pass, row, history, faults>>

\* Seeded fault: next_run_at is not written.
BumpLostFault(t) == /\ step = "bump"
                    /\ Done(t)
                    /\ UNCHANGED <<world, pass, row, history, faults>>

\* next_run_at from the cron of the snapshot and the time of the pass.
Bump(t) == /\ step = "bump"
           /\ LET next == NextFire(snap[t].cron, now) IN
                /\ row'   = WithDue(t, next)
                /\ doubt' = IF next = None THEN doubt \cup {t} ELSE doubt
           /\ Done(t)
           /\ UNCHANGED <<world, pass, served, off, faults>>

Fault == faults < MaxFaults /\ faults' = faults + 1

\* "bookkeeping failed": the write raises and is logged.
BumpFails(t) == /\ step = "bump" /\ Fault
                /\ doubt' = doubt \cup {t}
                /\ Done(t)
                /\ UNCHANGED <<world, pass, row, served, off>>

\* The scheduler is killed in the middle of a pass and started again.
PassCrash == /\ step # "idle" /\ Fault
             /\ doubt' = IF step = "bump" THEN doubt \cup {Cur} ELSE doubt
             /\ todo' = {}
             /\ Forget
             /\ UNCHANGED <<world, row, served, off>>

Walk(t) == step = "walk" /\ (NotNow(t) \/ Compute(t) \/ NobodyToRun(t) \/ Reread(t))

Pass == \/ BeginPass \/ EndPass \/ Refused
        \/ todo # {} /\ (Walk(Cur) \/ Fire(Cur) \/ Offline(Cur) \/ Bump(Cur))
-----------------------------------------------------------------------------
(* The dashboard's endpoints, and the host.                                *)

SwitchedOff(t) == IF step = "post" /\ t = Cur THEN off ELSE off \cup {t}

\* PATCH /api/schedules/<id>: next_run_at is not touched.
Edit(t) == /\ There(t)
           /\ \/ \E e \in Crons : row' = [row EXCEPT ![t].cron = e]
              \/ \E ps \in SUBSET Profiles : row' = [row EXCEPT ![t].profiles = ps]
              \/ row' = [row EXCEPT ![t].enabled = ~@]
           /\ off' = IF row'[t].enabled THEN off \ {t} ELSE SwitchedOff(t)
           /\ UNCHANGED <<world, step, pass, todo, served, doubt, faults>>

DeleteTask(t) == /\ There(t)
                 /\ row' = [row EXCEPT ![t] = Gone]
                 /\ off' = SwitchedOff(t)
                 /\ UNCHANGED <<world, step, pass, todo, served, doubt, faults>>

\* A profile is deleted or made again; a run flags it or clears the flag.
ProfileChanges(p) == /\ \/ /\ missing' = IF p \in missing THEN missing \ {p} ELSE missing \cup {p}
                           /\ UNCHANGED flagged
                        \/ /\ flagged' = IF p \in flagged THEN flagged \ {p} ELSE flagged \cup {p}
                           /\ UNCHANGED missing
                     /\ UNCHANGED <<time, row, dash, step, pass, todo, history, faults>>

DashDown == /\ dash /\ Fault
            /\ dash' = FALSE
            /\ UNCHANGED <<time, row, missing, flagged, step, pass, todo, history>>

DashUp == /\ ~dash
          /\ dash' = TRUE
          /\ UNCHANGED <<time, row, missing, flagged, step, pass, todo, history, faults>>

Elapse == /\ time < Horizon
          /\ time' = time + 1
          /\ UNCHANGED <<row, missing, flagged, dash, step, pass, todo, history, faults>>

\* The clock is set back: the same minutes come a second time.
SetBack == /\ Fault
           /\ \E t \in 0..time-1 : time' = t
           /\ served' = [t \in Tasks |-> None]
           /\ UNCHANGED <<row, missing, flagged, dash, step, pass, todo, doubt, off>>

TasksWorld == \/ \E t \in Tasks : Edit(t) \/ DeleteTask(t)
              \/ \E p \in Profiles : ProfileChanges(p)
              \/ DashDown \/ DashUp \/ Elapse \/ SetBack \/ PassCrash
              \/ todo # {} /\ BumpFails(Cur)

TasksNext == Pass \/ TasksWorld

TasksFairness == WF_tasksVars(Pass) /\ WF_tasksVars(DashUp)

TasksSpec == TasksInit /\ [][TasksNext]_tasksVars /\ TasksFairness
-----------------------------------------------------------------------------
TasksTypeOK == /\ time \in 0..Horizon
               /\ row \in [Tasks -> Rows \cup {Gone}]
               /\ missing \subseteq Profiles /\ flagged \subseteq Profiles
               /\ dash \in BOOLEAN
               /\ step \in {"idle", "walk", "post", "bump"}
               /\ snap \in [Tasks -> Rows \cup {Gone}]
               /\ known \subseteq Profiles
               /\ todo \subseteq {t \in Tasks : snap[t] # Gone}
               /\ now \in 0..Horizon
               /\ served \in [Tasks -> Due]
               /\ doubt \subseteq Tasks
               /\ faults \in 0..MaxFaults

\* A cron match is fired once: a row is not fired again for the slot it was
\* fired for, however ticks, edits and outages fall.  Only a bump that did not
\* reach the table (a crash, a failed write, an expression with no next match,
\* for which None leaves the column alone) lets it happen, or a clock set back.
FiredOncePerSlot ==
  [][\A t \in todo : t = Cur /\ Fire(t) => served[t] # snap[t].due \/ t \in doubt]_tasksVars

\* "The user clicks Disable / Delete thinking the next fire won't happen": it does
\* not, unless the request was on its way when the user clicked.
OffStaysOff == [][\A t \in todo : t = Cur /\ Fire(t) => t \notin off]_tasksVars

\* An enabled row does not stay due, nor wedged behind a clock that was set back:
\* again and again its next_run_at lies ahead, and beyond SkewLimit only when
\* that is where its cron says (or when the cron has no next match).
ScheduleAdvances ==
  \A t \in Tasks :
    []<>(\/ ~On(t)
         \/ NextFire(row[t].cron, time) = None
         \/ row[t].due > time /\ (\/ row[t].due - time <= SkewLimit
                                 \/ row[t].due = NextFire(row[t].cron, time)))
=============================================================================
