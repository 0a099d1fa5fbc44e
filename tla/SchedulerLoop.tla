--------------------------- MODULE SchedulerLoop ---------------------------
(***************************************************************************)
(* The main loop of the scheduler process (scheduler/scheduler.py): the    *)
(* gates of a tick, the batch it launches, the wait for it and the sleep   *)
(* until the next one, over a clock of Days days of DayLen hours that      *)
(* starts again at its end.  Of the table runs the loop only uses how many *)
(* rows began today and how the last ones ended.                           *)
(***************************************************************************)
EXTENDS Integers, Sequences

CONSTANTS DayLen,    \* hours of a day
          Days,      \* days of a week
          Settings,  \* configurations: see Setting
          Target,    \* scheduler.target_runs_per_day
          MaxFails,  \* scheduler.max_consecutive_fails
          Pool,      \* length of scheduler.profile_names
          Window,    \* bound: finished and live rows of the session kept
          MaxToday   \* bound: rows of one day

ASSUME LoopAssumption == /\ {DayLen, Days, Target, MaxFails, Pool} \subseteq Nat \ {0}
                         /\ Window \in Nat \ {0} /\ MaxToday \in Nat

\* active_hours, active_days, schedule_mode, and what a batch is: one profile of
\* the pool in turn, or the members of a group, launched "parallel" or "serial".
Setting == [from : 0..DayLen, to : 0..DayLen, days : SUBSET (1..Days),
            mode : {"density", "interval"}, members : Nat, serial : BOOLEAN]

ASSUME SettingsAssumption == Settings \subseteq Setting

VARIABLES
  clock,   \* the hour of the week
  cfg,     \* the settings
  pc,      \* where the loop is
  left,    \* hours of sleep left
  asked,   \* _shutdown
  unlaunched, \* members of the batch still to be launched
  awaited, \* launched runs the loop waits for
  late,    \* launches the dashboard is still at after the loop gave it up
  rows,    \* the session's rows: "live", "ok" or "fail", the newest last
  today,   \* rows that began today
  own,     \* history: those of them this loop launched and knows of
  rr,      \* _round_robin_idx
  saved,   \* scheduler.round_robin_idx
  ahead    \* history: per profile, how often it was picked more than the least

loopVars == <<clock, cfg, pc, left, asked, unlaunched, awaited, late, rows, today, own, rr, saved, ahead>>
runs     == <<late, rows, today, own>>
rotation == <<rr, saved, ahead>>

Hour    == clock % DayLen
Day     == (clock \div DayLen) + 1
WeekLen == Days * DayLen

LoopInit == /\ clock = 0
            /\ cfg \in Settings
            /\ pc = "down" /\ left = 0 /\ asked = FALSE
            /\ unlaunched = 0 /\ awaited = 0 /\ late = 0
            /\ rows = << >> /\ today = 0 /\ own = 0
            /\ rr = 0 /\ saved = 0
            /\ ahead = [p \in 0..Pool-1 |-> 0]
-----------------------------------------------------------------------------
(* What the gates read.                                                    *)

IsActiveDay  == cfg.days = {} \/ Day \in cfg.days
IsActiveTime == cfg.from <= Hour /\ Hour < cfg.to

\* time_until_next_window, seeded fault: today's start also after it has passed.
UntilWindowFault == IF Hour <= cfg.from THEN cfg.from - Hour ELSE DayLen

\* time_until_next_window: today's start, or tomorrow's once that has passed.
UntilWindow == IF Hour < cfg.from THEN cfg.from - Hour ELSE DayLen - Hour + cfg.from

\* time_until_next_active_day: to its midnight.
UntilActiveDay ==
  LET away == {d \in 1..Days : ((Day + d - 1) % Days) + 1 \in cfg.days}
  IN  (CHOOSE d \in away : \A e \in away : d <= e) * DayLen - Hour

Finished == SelectSeq(rows, LAMBDA s : s # "live")

\* consecutive_failures: the finished rows after the last success.
ConsecutiveFailures ==
  LET f == Finished
      streak == {n \in 0..Len(f) : \A i \in Len(f)-n+1..Len(f) : f[i] = "fail"}
  IN  CHOOSE n \in streak : \A m \in streak : m <= n

SleepFor(hours) == left' = hours /\ pc' = "sleep"
-----------------------------------------------------------------------------
(* One tick.                                                               *)

\* load_cfg and heartbeat, then the scheduled tasks (ScheduledTasks).
Tick == /\ pc = "tick" /\ ~asked
        /\ pc' = "gates"
        /\ UNCHANGED <<clock, cfg, left, asked, unlaunched, awaited, runs, rotation>>

\* Either raises: half a minute later the tick begins again.
SetupFails == /\ pc = "tick" /\ ~asked
              /\ SleepFor(0)
              /\ UNCHANGED <<clock, cfg, asked, unlaunched, awaited, runs, rotation>>

OutsideDays == /\ pc = "gates" /\ ~IsActiveDay
               /\ SleepFor(UntilActiveDay)
               /\ UNCHANGED <<clock, cfg, asked, unlaunched, awaited, runs, rotation>>

\* dtime(24) raises, and nothing in the loop catches it.
BadHours == /\ pc = "gates" /\ IsActiveDay /\ cfg.to = DayLen
            /\ pc' = "ending"
            /\ UNCHANGED <<clock, cfg, left, asked, unlaunched, awaited, runs, rotation>>

Open == pc = "gates" /\ IsActiveDay /\ cfg.to # DayLen

OutsideHours == /\ Open /\ ~IsActiveTime
                /\ SleepFor(UntilWindow)
                /\ UNCHANGED <<clock, cfg, asked, unlaunched, awaited, runs, rotation>>

QuotaMet == /\ Open /\ IsActiveTime /\ today >= Target
            /\ SleepFor(UntilWindow)
            /\ UNCHANGED <<clock, cfg, asked, unlaunched, awaited, runs, rotation>>

Pause == /\ Open /\ IsActiveTime /\ today < Target /\ ConsecutiveFailures >= MaxFails
         /\ SleepFor(1)
         /\ UNCHANGED <<clock, cfg, asked, unlaunched, awaited, runs, rotation>>

\* heartbeat, runs_today or consecutive_failures raises: outside the tick's try.
GateRaises == /\ Open
              /\ pc' = "ending"
              /\ UNCHANGED <<clock, cfg, left, asked, unlaunched, awaited, runs, rotation>>

\* The rotation index is 0 until the saved one is loaded; the code counts on where
\* Following wraps to the number above 0 with the same remainder.
Index        == IF rr = 0 THEN saved ELSE rr
Following(i) == IF i = Pool THEN 1 ELSE i + 1

\* A profile is picked: how far each is ahead of the one picked least often.
Picked(p) ==
  LET more == [ahead EXCEPT ![p] = @ + 1]
  IN  ahead' = IF \A q \in 0..Pool-1 : more[q] > 0 THEN [q \in 0..Pool-1 |-> more[q] - 1] ELSE more

\* Seeded fault: the saved index is not loaded after a start.
PickFault == Picked(rr % Pool) /\ rr' = Following(rr) /\ saved' = rr'

\* pick_batch, round-robin.  Bound: the save of the index succeeds.
Pick == Picked(Index % Pool) /\ rr' = Following(Index) /\ saved' = rr'

\* Seeded fault: one more than the quota.
PickBatchFault == /\ Open /\ IsActiveTime /\ today <= Target /\ ConsecutiveFailures < MaxFails
                  /\ pc' = "launch"
                  /\ IF cfg.members = 0
                     THEN unlaunched' = 1 /\ Pick
                     ELSE unlaunched' = cfg.members /\ UNCHANGED rotation
                  /\ UNCHANGED <<clock, cfg, left, asked, awaited, runs>>

PickBatch == /\ Open /\ IsActiveTime /\ today < Target /\ ConsecutiveFailures < MaxFails
             /\ pc' = "launch"
             /\ IF cfg.members = 0
                THEN unlaunched' = 1 /\ Pick
                ELSE unlaunched' = cfg.members /\ UNCHANGED rotation
             /\ UNCHANGED <<clock, cfg, left, asked, awaited, runs>>
-----------------------------------------------------------------------------
(* The batch.                                                              *)

Append1(s) == IF Len(s) < Window THEN Append(s, "live") ELSE Append(Tail(s), "live")

\* A row is inserted in the table runs.
Begin == today < MaxToday /\ rows' = Append1(rows) /\ today' = today + 1

AfterLaunch == /\ unlaunched' = unlaunched - 1
               /\ pc' = IF cfg.serial \/ unlaunched = 1 \/ asked THEN "wait" ELSE "launch"

\* By the dashboard, or directly when there is none.
Launch == /\ pc = "launch"
          /\ Begin
          /\ own' = own + 1
          /\ awaited' = awaited + 1
          /\ AfterLaunch
          /\ UNCHANGED <<clock, cfg, left, asked, late, rotation>>

\* 409, refused by the launch guard, or dead before it has a row.  When the guard
\* refuses after a time-out of five seconds, the dashboard may still be at it.
NoLaunch == /\ pc = "launch"
            /\ late' \in {late, IF late = 0 THEN 1 ELSE late}
            /\ AfterLaunch
            /\ UNCHANGED <<clock, cfg, left, asked, awaited, rows, today, own, rotation>>

\* The dashboard has launched what the loop had given up.
LateRow == /\ late > 0 /\ Begin
           /\ late' = late - 1
           /\ UNCHANGED <<clock, cfg, pc, left, asked, unlaunched, awaited, own, rotation>>

\* An awaited run ends, its time-out included; or twelve polls in a row fail.
WaitEnds == /\ pc = "wait" /\ awaited > 0
            /\ awaited' = awaited - 1
            /\ \/ \E i \in 1..Len(rows), end \in {"ok", "fail"} :
                    rows[i] = "live" /\ rows' = [rows EXCEPT ![i] = end]
               \/ UNCHANGED rows
            /\ UNCHANGED <<clock, cfg, pc, left, asked, unlaunched, late, today, own, rotation>>

\* _wait_for_run_via_dashboard: -1 when shutting down.
WaitCut == /\ pc = "wait" /\ awaited > 0 /\ asked
           /\ awaited' = 0
           /\ UNCHANGED <<clock, cfg, pc, left, asked, unlaunched, runs, rotation>>

\* Seeded fault: the batch goes on after its last member.
BatchDoneFault == /\ pc = "wait" /\ awaited = 0
                  /\ pc' = (IF asked THEN "ending" ELSE "launch")
                  /\ UNCHANGED <<clock, cfg, left, asked, unlaunched, awaited, runs, rotation>>

BatchDone == /\ pc = "wait" /\ awaited = 0
             /\ IF unlaunched > 0 /\ ~asked
                THEN pc' = "launch" /\ UNCHANGED unlaunched
                ELSE pc' = (IF asked THEN "ending" ELSE "delay") /\ unlaunched' = 0
             /\ UNCHANGED <<clock, cfg, left, asked, awaited, runs, rotation>>

Backoff == CASE ConsecutiveFailures = 0 -> 1
             [] ConsecutiveFailures = 1 -> 2
             [] ConsecutiveFailures = 2 -> 4
             [] OTHER -> 8

\* next_fire_delay: nothing left of the window, or a short or an hour's gap times
\* the backoff; an error counts as five minutes.
Delay == /\ pc = "delay"
         /\ IF cfg.mode = "density" /\ Hour >= cfg.to
            THEN pc' = "tick" /\ UNCHANGED left
            ELSE \E gap \in {0, 1} : SleepFor(gap * Backoff)
         /\ UNCHANGED <<clock, cfg, asked, unlaunched, awaited, runs, rotation>>

Wake == /\ pc = "sleep" /\ (left = 0 \/ asked)
        /\ pc' = "tick" /\ left' = 0
        /\ UNCHANGED <<clock, cfg, asked, unlaunched, awaited, runs, rotation>>
-----------------------------------------------------------------------------
(* Start, stop and the end of the process.                                 *)

\* main: a new session; failures of earlier ones do not count.
Start == /\ pc = "down"
         /\ pc' = "tick" /\ asked' = FALSE
         /\ rows' = << >>
         /\ rr' = 0
         /\ UNCHANGED <<clock, cfg, left, unlaunched, awaited, late, today, own, saved, ahead>>

Shutdown == /\ pc \notin {"down", "ending"} /\ ~asked
            /\ asked' = TRUE
            /\ UNCHANGED <<clock, cfg, pc, left, unlaunched, awaited, runs, rotation>>

LastTick == /\ pc = "tick" /\ asked
            /\ pc' = "ending"
            /\ UNCHANGED <<clock, cfg, left, asked, unlaunched, awaited, runs, rotation>>

\* mark_stopped and the end.
End == /\ pc = "ending"
       /\ pc' = "down" /\ left' = 0 /\ unlaunched' = 0 /\ awaited' = 0
       /\ UNCHANGED <<clock, cfg, asked, runs, rotation>>

Killed == /\ pc \notin {"down", "ending"}
          /\ pc' = "down" /\ left' = 0 /\ unlaunched' = 0 /\ awaited' = 0
          /\ asked' = TRUE
          /\ UNCHANGED <<clock, cfg, runs, rotation>>
-----------------------------------------------------------------------------
(* The rest of the system, and time.                                       *)

\* A manual run, or one of a scheduled task.
OtherBegins == /\ Begin
               /\ UNCHANGED <<clock, cfg, pc, left, asked, unlaunched, awaited, late, own, rotation>>

OtherEnds == /\ \E i \in 1..Len(rows), end \in {"ok", "fail"} :
                  rows[i] = "live" /\ rows' = [rows EXCEPT ![i] = end]
             /\ UNCHANGED <<clock, cfg, pc, left, asked, unlaunched, awaited, late, today, own, rotation>>

\* POST /api/scheduler/reset-fails: scheduler.started_at becomes now.
ResetFails == /\ rows' = << >>
              /\ UNCHANGED <<clock, cfg, pc, left, asked, unlaunched, awaited, late, today, own, rotation>>

\* An hour passes; the gates and the set-up of a tick take no time.
Elapse1 == /\ \/ pc \in {"down", "launch", "wait"}
              \/ pc = "sleep" /\ left > 0
           /\ clock' = (clock + 1) % WeekLen
           /\ left' = IF pc = "sleep" THEN left - 1 ELSE left
           /\ IF clock' \div DayLen = clock \div DayLen
              THEN UNCHANGED <<today, own>>
              ELSE today' = 0 /\ own' = 0
           /\ UNCHANGED <<cfg, pc, asked, unlaunched, awaited, late, rows, rotation>>

Gates == OutsideDays \/ BadHours \/ OutsideHours \/ QuotaMet \/ Pause \/ PickBatch

Loop == \/ Tick \/ SetupFails \/ Gates \/ GateRaises
        \/ Launch \/ NoLaunch \/ WaitEnds \/ WaitCut \/ BatchDone \/ Delay \/ Wake
        \/ LastTick \/ End

LoopWorld == \/ Start \/ Shutdown \/ Killed
             \/ LateRow \/ OtherBegins \/ OtherEnds \/ ResetFails \/ Elapse1

LoopNext == Loop \/ LoopWorld

LoopFairness == /\ WF_loopVars(Loop) /\ WF_loopVars(Elapse1)
                /\ SF_loopVars(Tick)

LoopSpec == LoopInit /\ [][LoopNext]_loopVars /\ LoopFairness
-----------------------------------------------------------------------------
LoopTypeOK == /\ clock \in 0..WeekLen-1
              /\ cfg \in Settings
              /\ pc \in {"down", "tick", "gates", "launch", "wait", "delay", "sleep", "ending"}
              /\ left \in Nat
              /\ asked \in BOOLEAN
              /\ {unlaunched, awaited, late, own, rr, saved} \subseteq Nat
              /\ today \in 0..MaxToday
              /\ rows \in Seq({"live", "ok", "fail"}) /\ Len(rows) <= Window
              /\ ahead \in [0..Pool-1 -> Nat]

BatchSize == IF cfg.members = 0 THEN 1 ELSE cfg.members

\* target_runs_per_day: runs the loop launched today never pass the target by
\* more than one batch's rest, over midnight, manual runs, launches that were
\* given up, serial batches and restarts of the scheduler.
QuotaKept == own <= Target - 1 + BatchSize

\* "Stop+Start mid-day no longer rewinds rotation to 0": no profile of the pool is
\* picked twice more than another, however often the scheduler is started again.
FairRotation == \A p \in 0..Pool-1 : ahead[p] <= 1

\* The loop does not sleep through its work: while it is up, the day's quota is
\* not met and no streak of failures is on (there is none yet, they were reset, or
\* a run succeeded since, whoever's), it gets to launch again and again.
NoStreak == Len(rows) < MaxFails \/ \E i \in Len(rows)-MaxFails+1..Len(rows) : rows[i] = "ok"

LaunchesWhenItMay ==
  <>[](/\ pc # "down" /\ ~asked /\ today < Target /\ NoStreak
       /\ cfg.from < cfg.to /\ cfg.to # DayLen)
    => []<>(pc = "launch")

\* AUDIT #104 #3, "Now the loop survives bad ticks": it ends only when asked or
\* killed.  Refuted: by hours such as [0, 24], and by an error in a gate.
SurvivesBadTicks == [][pc' = "ending" /\ pc # "ending" => asked]_loopVars
=============================================================================
