--------------------------- MODULE SchedulingProofs --------------------------
(***************************************************************************)
(* The quota, the rotation and the types of the scheduler's loop, for any  *)
(* settings, any length of a day and any number of profiles, and what the  *)
(* pass over the scheduled tasks keeps, for any rows and cron expressions. *)
(***************************************************************************)
EXTENDS SchedulerLoop, ScheduledTasks, CardinalityLemmas, TLAPS

(* The loop.                                                                 *)

Counts == /\ cfg \in Settings
          /\ own \in Nat /\ today \in Nat /\ unlaunched \in Nat

(* What a batch under way may still add to the day, and never past midnight  *)
(* more than a batch.                                                        *)
Budget == /\ own <= today
          /\ unlaunched <= BatchSize
          /\ pc = "launch" => unlaunched >= 1
          /\ pc \in {"launch", "wait"} => own + unlaunched <= Target - 1 + BatchSize

QuotaInv == Counts /\ Budget /\ QuotaKept

(* The profile whose turn it is, and those before it picked once more.       *)
Turn == IF saved = Pool THEN 0 ELSE saved

RotationInv == /\ saved \in 0..Pool /\ rr \in {0, saved}
               /\ ahead = [p \in 0..Pool-1 |-> IF p < Turn THEN 1 ELSE 0]

LEMMA BatchNat == ASSUME cfg \in Settings PROVE BatchSize \in Nat \ {0}
BY SettingsAssumption DEF Setting, BatchSize
-----------------------------------------------------------------------------
LEMMA QuotaInitial == ASSUME LoopInit PROVE QuotaInv
BY BatchNat, LoopAssumption DEF LoopInit, QuotaInv, Counts, Budget, QuotaKept

LEMMA CfgStays == ASSUME [LoopNext]_loopVars PROVE BatchSize' = BatchSize /\ cfg' = cfg
<1>1. cfg' = cfg
  BY DEF LoopNext, Loop, Gates, LoopWorld, loopVars, Tick, SetupFails, OutsideDays, BadHours, OutsideHours,
     QuotaMet, Pause, GateRaises, PickBatch, Launch, NoLaunch, WaitEnds, WaitCut, BatchDone, Delay, Wake, LastTick,
     End, Start, Shutdown, Killed, LateRow, OtherBegins, OtherEnds, ResetFails, Elapse1
<1> QED
  BY <1>1 DEF BatchSize

LEMMA QuotaStep == ASSUME QuotaInv, [LoopNext]_loopVars PROVE QuotaInv'
<1>0. /\ BatchSize' = BatchSize /\ BatchSize \in Nat \ {0} /\ cfg' = cfg
      /\ Target \in Nat \ {0}
  BY CfgStays, BatchNat, LoopAssumption DEF QuotaInv, Counts
<1> USE <1>0 DEF QuotaInv, Counts, Budget, QuotaKept, runs, rotation
<1>1. CASE Tick \/ SetupFails \/ OutsideDays \/ BadHours \/ OutsideHours \/ QuotaMet \/ Pause \/ GateRaises
  BY <1>1 DEF Tick, SetupFails, OutsideDays, BadHours, OutsideHours, QuotaMet, Pause, GateRaises, SleepFor
<1>2. CASE PickBatch
  <2>1. own <= Target - 1 /\ unlaunched' = BatchSize
    BY <1>2 DEF PickBatch, BatchSize
  <2> QED
    BY <1>2, <2>1 DEF PickBatch
<1>3. CASE Launch
  BY <1>3 DEF Launch, Begin, AfterLaunch
<1>4. CASE NoLaunch
  BY <1>4 DEF NoLaunch, AfterLaunch
<1>5. CASE WaitEnds \/ WaitCut \/ BatchDone
  BY <1>5 DEF WaitEnds, WaitCut, BatchDone
<1>6. CASE Delay \/ Wake
  BY <1>6 DEF Delay, Wake, SleepFor
<1>7. CASE LastTick \/ End \/ Start \/ Shutdown \/ Killed
  BY <1>7 DEF LastTick, End, Start, Shutdown, Killed
<1>8. CASE LateRow
  BY <1>8 DEF LateRow, Begin
<1>9. CASE OtherBegins
  BY <1>9 DEF OtherBegins, Begin
<1>10. CASE OtherEnds \/ ResetFails
  BY <1>10 DEF OtherEnds, ResetFails
<1>11. CASE Elapse1
  BY <1>11 DEF Elapse1
<1>12. CASE UNCHANGED loopVars
  BY <1>12 DEF loopVars
<1> QED
  BY <1>1, <1>2, <1>3, <1>4, <1>5, <1>6, <1>7, <1>8, <1>9, <1>10, <1>11, <1>12 DEF LoopNext, Loop, Gates, LoopWorld

(* Over any number of days, batches, restarts and rows of others, the loop's *)
(* own runs of a day pass the target by at most the rest of one batch.       *)
THEOREM QuotaHolds == LoopSpec => []QuotaKept
<1>1. LoopInit => QuotaInv
  BY QuotaInitial
<1>2. QuotaInv /\ [LoopNext]_loopVars => QuotaInv'
  BY QuotaStep
<1>3. QuotaInv => QuotaKept
  BY DEF QuotaInv
<1> QED
  BY <1>1, <1>2, <1>3, PTL DEF LoopSpec
-----------------------------------------------------------------------------
LEMMA Remainder == ASSUME NEW i \in 0..Pool PROVE i % Pool = IF i = Pool THEN 0 ELSE i
BY LoopAssumption

LEMMA PickRotates == ASSUME RotationInv, Pick PROVE RotationInv'
<1> USE LoopAssumption DEF RotationInv
<1>1. Index = saved
  BY DEF Index
<1>2. Index % Pool = Turn
  BY <1>1, Remainder DEF Turn
<1>3. saved' = Following(saved) /\ rr' = saved' /\ saved' \in 0..Pool
  BY <1>1 DEF Pick, Following
<1> DEFINE more == [ahead EXCEPT ![Turn] = @ + 1]
<1>4. Turn \in 0..Pool-1
  BY DEF Turn
<1>5. more = [p \in 0..Pool-1 |-> IF p <= Turn THEN 1 ELSE 0]
  BY <1>4, SMTT(30)
<1>6. ahead' = IF \A q \in 0..Pool-1 : more[q] > 0 THEN [q \in 0..Pool-1 |-> more[q] - 1] ELSE more
  BY <1>2 DEF Pick, Picked
<1> HIDE DEF more
<1>7. CASE Turn = Pool - 1
  <2>1. Turn' = 0
    BY <1>3, <1>7 DEF Following, Turn
  <2> QED
    BY <1>3, <1>5, <1>6, <1>7, <2>1
<1>8. CASE Turn # Pool - 1
  <2>1. Turn' = Turn + 1
    BY <1>3, <1>4, <1>8 DEF Following, Turn
  <2>2. more[Turn + 1] = 0 /\ Turn + 1 \in 0..Pool-1
    BY <1>4, <1>5, <1>8
  <2>3. ahead' = more
    BY <1>6, <2>2
  <2>4. \A p \in 0..Pool-1 : p <= Turn <=> p < Turn'
    BY <1>4, <2>1
  <2>5. ahead' = [p \in 0..Pool-1 |-> IF p < Turn' THEN 1 ELSE 0]
    BY <1>5, <2>3, <2>4
  <2> QED
    BY <1>3, <2>5
<1> QED
  BY <1>7, <1>8

LEMMA RotationStep == ASSUME RotationInv, [LoopNext]_loopVars PROVE RotationInv'
<1>1. CASE Pick
  BY <1>1, PickRotates
<1>2. CASE UNCHANGED rotation
  BY <1>2 DEF rotation, RotationInv, Turn
<1>3. CASE Start
  BY <1>3 DEF Start, RotationInv, Turn
<1>4. PickBatch => Pick \/ UNCHANGED rotation
  BY DEF PickBatch
<1> QED
  BY <1>1, <1>2, <1>3, <1>4 DEF LoopNext, Loop, Gates, LoopWorld, loopVars, rotation, Tick, SetupFails,
     OutsideDays, BadHours, OutsideHours, QuotaMet, Pause, GateRaises, Launch, NoLaunch, WaitEnds, WaitCut,
     BatchDone, Delay, Wake, LastTick, End, Shutdown, Killed, LateRow, OtherBegins, OtherEnds, ResetFails, Elapse1

(* The profiles of a pool of any size take turns: none is ever picked two    *)
(* times more than another, over any number of stops, kills and starts.      *)
THEOREM RotationFair == LoopSpec => []FairRotation
<1>1. LoopInit => RotationInv
  BY LoopAssumption DEF LoopInit, RotationInv, Turn
<1>2. RotationInv /\ [LoopNext]_loopVars => RotationInv'
  BY RotationStep
<1>3. RotationInv => FairRotation
  BY DEF RotationInv, FairRotation
<1> QED
  BY <1>1, <1>2, <1>3, PTL DEF LoopSpec

\* The product of two positive numbers, for the calendar's division.
LEMMA Positive == ASSUME NEW a1 \in Nat \ {0}, NEW b1 \in Nat \ {0} PROVE a1 * b1 \in Nat \ {0} /\ a1 * b1 >= b1
<1>1. a1 * b1 \in Nat
  OBVIOUS
<1>2. (a1 - 1) * b1 \in Nat
  OBVIOUS
<1>3. a1 * b1 = (a1 - 1) * b1 + b1
  OBVIOUS
<1> QED
  BY <1>1, <1>2, <1>3

\* The hour and the day of a time of the week.
LEMMA Calendar ==
  ASSUME clock \in 0..WeekLen-1
  PROVE  Hour \in 0..DayLen-1 /\ Day \in 1..Days /\ WeekLen \in Nat \ {0}
<1>1. DayLen \in Nat \ {0} /\ Days \in Nat \ {0}
  BY LoopAssumption
<1>2. WeekLen \in Nat \ {0}
  BY <1>1, Positive DEF WeekLen
<1>3. clock \in Nat /\ clock < Days * DayLen
  BY <1>2 DEF WeekLen
<1>4. Hour \in 0..DayLen-1
  BY <1>1, <1>3 DEF Hour
<1>5. clock \div DayLen \in Nat /\ clock \div DayLen < Days
  BY <1>1, <1>3
<1> QED
  BY <1>1, <1>2, <1>4, <1>5 DEF Day

\* The next active day is ahead, within a week.
LEMMA NextActiveDay ==
  ASSUME clock \in 0..WeekLen-1, cfg \in Settings, ~IsActiveDay PROVE UntilActiveDay \in Nat \ {0}
<1> DEFINE away == {d \in 1..Days : ((Day + d - 1) % Days) + 1 \in cfg.days}
<1>1. Hour \in 0..DayLen-1 /\ Day \in 1..Days /\ DayLen \in Nat \ {0} /\ Days \in Nat \ {0}
  BY Calendar, LoopAssumption
<1>2. PICK x \in cfg.days : x \in 1..Days
  BY SettingsAssumption DEF IsActiveDay, Setting
<1>3. away # {}
  <2>1. CASE x > Day
    <3>1. x - Day \in 1..Days /\ Day + (x - Day) - 1 = x - 1
      BY <1>1, <1>2, <2>1
    <3>2. (x - 1) % Days = x - 1
      BY <1>1, <1>2
    <3>3. x - Day \in away
      BY <1>1, <1>2, <3>1, <3>2
    <3> QED
      BY <3>3
  <2>2. CASE x <= Day
    <3>1. x - Day + Days \in 1..Days /\ Day + (x - Day + Days) - 1 = x - 1 + Days
      BY <1>1, <1>2, <2>2
    <3>2. (x - 1 + Days) % Days = x - 1
      BY <1>1, <1>2
    <3>3. x - Day + Days \in away
      BY <1>1, <1>2, <3>1, <3>2
    <3> QED
      BY <3>3
  <2> QED
    BY <1>1, <1>2, <2>1, <2>2
<1>4. away \subseteq Nat
  BY <1>1
<1> HIDE DEF away
<1>5. \E d \in away : \A e \in away : d <= e
  BY <1>3, <1>4, NatMin
<1> DEFINE first == CHOOSE d \in away : \A e \in away : d <= e
<1>6. first \in away
  BY <1>5
<1>10. UntilActiveDay = first * DayLen - Hour
  BY DEF UntilActiveDay, away
<1> HIDE DEF first
<1>7. away \subseteq 1..Days
  BY DEF away
<1>8. first \in Nat \ {0}
  BY <1>1, <1>6, <1>7
<1>9. first * DayLen \in Nat /\ first * DayLen >= DayLen
  BY <1>1, <1>8, Positive
<1> QED
  BY <1>1, <1>9, <1>10

\* So is the next window.
LEMMA NextWindow ==
  ASSUME clock \in 0..WeekLen-1, cfg \in Settings PROVE UntilWindow \in Nat \ {0}
<1>1. Hour \in 0..DayLen-1 /\ DayLen \in Nat \ {0} /\ cfg.from \in 0..DayLen
  BY Calendar, LoopAssumption, SettingsAssumption DEF Setting
<1> QED
  BY <1>1 DEF UntilWindow

\* The types, for the pick of a batch, for the start of a tick and for its
\* end.
LEMMA PickTypes == ASSUME LoopTypeOK, Pick PROVE {rr', saved'} \subseteq Nat /\ ahead' \in [0..Pool-1 -> Nat]
<1>1. Pool \in Nat \ {0}
  BY LoopAssumption
<1>2. Index \in Nat /\ Index % Pool \in 0..Pool-1
  BY <1>1 DEF Index, LoopTypeOK
<1>3. {rr', saved'} \subseteq Nat
  BY <1>2 DEF Pick, Following
<1> DEFINE more == [ahead EXCEPT ![Index % Pool] = @ + 1]
<1>4. more \in [0..Pool-1 -> Nat]
  BY <1>2 DEF LoopTypeOK
<1>5. ahead' = IF \A q \in 0..Pool-1 : more[q] > 0 THEN [q \in 0..Pool-1 |-> more[q] - 1] ELSE more
  BY DEF Pick, Picked
<1> HIDE DEF more
<1> QED
  BY <1>3, <1>4, <1>5

LEMMA BeginTypes ==
  ASSUME LoopTypeOK, Begin
  PROVE  today' \in 0..MaxToday /\ rows' \in Seq({"live", "ok", "fail"}) /\ Len(rows') <= Window
<1>1. Window \in Nat \ {0} /\ MaxToday \in Nat
  BY LoopAssumption
<1> QED
  BY <1>1 DEF LoopTypeOK, Begin, Append1

LEMMA EndTypes ==
  ASSUME LoopTypeOK, NEW i \in 1..Len(rows), NEW end \in {"ok", "fail"}
  PROVE  [rows EXCEPT ![i] = end] \in Seq({"live", "ok", "fail"}) /\ Len([rows EXCEPT ![i] = end]) = Len(rows)
BY DEF LoopTypeOK

\* Every step of the loop keeps the types.
LEMMA LoopTypesStep == ASSUME LoopTypeOK, Budget, [LoopNext]_loopVars PROVE LoopTypeOK'
<1> USE DEF runs, rotation, SleepFor
<1>1. CASE Tick \/ SetupFails \/ BadHours \/ Pause \/ GateRaises \/ Wake \/ BatchDone
  BY <1>1 DEF LoopTypeOK, Tick, SetupFails, BadHours, Pause, GateRaises, Wake, BatchDone
<1>2. CASE OutsideDays
  BY <1>2, NextActiveDay DEF LoopTypeOK, OutsideDays
<1>3. CASE OutsideHours \/ QuotaMet
  BY <1>3, NextWindow DEF LoopTypeOK, OutsideHours, QuotaMet
<1>4. CASE PickBatch
  <2>1. cfg.members \in Nat
    BY SettingsAssumption DEF LoopTypeOK, Setting
  <2>2. unlaunched' \in Nat /\ {rr', saved'} \subseteq Nat /\ ahead' \in [0..Pool-1 -> Nat]
    BY <1>4, <2>1, PickTypes DEF LoopTypeOK, PickBatch
  <2> QED
    BY <1>4, <2>2 DEF LoopTypeOK, PickBatch
<1>5. CASE Launch \/ NoLaunch
  <2>1. unlaunched' \in Nat /\ pc' \in {"wait", "launch"}
    BY <1>5 DEF Launch, NoLaunch, AfterLaunch, Budget, LoopTypeOK
  <2>2. today' \in 0..MaxToday /\ rows' \in Seq({"live", "ok", "fail"}) /\ Len(rows') <= Window
    BY <1>5, BeginTypes DEF Launch, NoLaunch, LoopTypeOK
  <2> QED
    BY <1>5, <2>1, <2>2, SMTT(30) DEF LoopTypeOK, Launch, NoLaunch
<1>6. CASE LateRow \/ OtherBegins
  BY <1>6, BeginTypes, SMTT(30) DEF LoopTypeOK, LateRow, OtherBegins
<1>7. CASE WaitEnds \/ OtherEnds
  <2>1. rows' \in Seq({"live", "ok", "fail"}) /\ Len(rows') <= Window
    BY <1>7, EndTypes DEF WaitEnds, OtherEnds, LoopTypeOK
  <2> QED
    BY <1>7, <2>1, SMTT(30) DEF LoopTypeOK, WaitEnds, OtherEnds
<1>8. CASE Delay
  <2>1. Backoff \in Nat
    BY DEF Backoff
  <2> QED
    BY <1>8, <2>1 DEF LoopTypeOK, Delay
<1>0. << >> \in Seq({"live", "ok", "fail"}) /\ Len(<< >>) <= Window
  BY LoopAssumption
<1>9. CASE WaitCut \/ Shutdown \/ LastTick \/ End \/ Killed
  <2>1. asked' \in BOOLEAN
    BY <1>9, Zenon DEF LoopTypeOK, WaitCut, Shutdown, LastTick, End, Killed
  <2> QED
    BY <1>9, <2>1 DEF LoopTypeOK, WaitCut, Shutdown, LastTick, End, Killed
<1>12. CASE Start \/ ResetFails
  <2>1. asked' \in BOOLEAN
    BY <1>12, Zenon DEF LoopTypeOK, Start, ResetFails
  <2>2. rows' \in Seq({"live", "ok", "fail"}) /\ Len(rows') <= Window
    BY <1>0, <1>12 DEF Start, ResetFails
  <2> QED
    BY <1>12, <2>1, <2>2 DEF LoopTypeOK, Start, ResetFails
<1>10. CASE Elapse1
  <2>1. WeekLen \in Nat \ {0} /\ MaxToday \in Nat
    BY Calendar, LoopAssumption DEF LoopTypeOK
  <2>2. clock' \in 0..WeekLen-1
    BY <1>10, <2>1 DEF Elapse1, LoopTypeOK
  <2> QED
    BY <1>10, <2>1, <2>2 DEF Elapse1, LoopTypeOK
<1>11. CASE UNCHANGED loopVars
  BY <1>11 DEF loopVars, LoopTypeOK
<1> QED
  BY <1>1, <1>2, <1>3, <1>4, <1>5, <1>6, <1>7, <1>8, <1>9, <1>10, <1>11, <1>12 DEF LoopNext, Loop, Gates, LoopWorld

\* They hold at first.
LEMMA LoopTypesInitial == ASSUME LoopInit PROVE LoopTypeOK
<1>1. WeekLen \in Nat \ {0}
  BY LoopAssumption, Positive DEF WeekLen
<1>2. clock \in 0..WeekLen-1 /\ today \in 0..MaxToday
  BY <1>1, LoopAssumption DEF LoopInit
<1>3. rows \in Seq({"live", "ok", "fail"}) /\ Len(rows) <= Window
  BY LoopAssumption DEF LoopInit
<1>4. ahead \in [0..Pool-1 -> Nat] /\ asked \in BOOLEAN
  BY DEF LoopInit
<1> QED
  BY <1>2, <1>3, <1>4 DEF LoopInit, LoopTypeOK

(* The loop's variables keep their types through ticks, failures and        *)
(* restarts, for any length of a day, any window and any active days. What  *)
(* is not a matter of shape in it: outside its hours the loop sleeps a      *)
(* natural number of hours, since the next active day or window it          *)
(* computes is always there and ahead.                                      *)
THEOREM LoopTypes == LoopSpec => []LoopTypeOK
<1>1. LoopInit => LoopTypeOK /\ QuotaInv
  BY LoopTypesInitial, QuotaInitial
<1>2. LoopTypeOK /\ QuotaInv /\ [LoopNext]_loopVars => (LoopTypeOK /\ QuotaInv)'
  BY LoopTypesStep, QuotaStep DEF QuotaInv
<1> QED
  BY <1>1, <1>2, PTL DEF LoopSpec
-----------------------------------------------------------------------------
(* The tasks.                                                                *)

(* The row a pass is at is one it has still to do.                           *)
Steps == /\ step \in {"post", "bump"} => todo # {} /\ IsDue(Cur)
         /\ step = "idle" => todo = {}

(* An enabled row was not switched off, nor the one being posted.            *)
OffInv == /\ \A t \in Tasks : On(t) => t \notin off
          /\ step = "post" => Cur \notin off

\* The row that has been posted and has not been moved on.
Posted(t) == step = "bump" /\ t = Cur

(* A row that is not in doubt was last fired for a slot that is past: for    *)
(* the clock, for the pass that has it before it, and for its own due time,  *)
(* in the table as in the snapshot.                                          *)
Past == \A t \in Tasks \ doubt :
          /\ served[t] <= time
          /\ t \in todo => served[t] <= now
          /\ There(t) /\ row[t].due # None /\ ~Posted(t) => served[t] < row[t].due
          /\ t \in todo /\ snap[t].due # None /\ ~Posted(t) => served[t] < snap[t].due

TasksInv == TasksTypeOK /\ Steps /\ OffInv /\ Past
-----------------------------------------------------------------------------
LEMMA Bounds == Horizon \in Nat /\ MaxFaults \in Nat /\ SkewLimit \in Nat
  BY TasksAssumption

LEMMA CurInTodo == ASSUME TasksTypeOK, todo # {} PROVE Cur \in todo /\ Cur \in Tasks /\ snap[Cur] \in Rows
<1>1. todo \subseteq Nat /\ todo \subseteq Tasks
  BY TasksAssumption DEF TasksTypeOK
<1>2. \E t \in todo : \A u \in todo : t <= u
  BY <1>1, NatMin
<1>3. Cur \in todo
  BY <1>2 DEF Cur
<1> QED
  BY <1>1, <1>3 DEF TasksTypeOK

LEMMA NextFireAhead ==
  ASSUME NEW e \in Crons, NEW t \in Nat PROVE NextFire(e, t) = None \/ (NextFire(e, t) \in Nat /\ NextFire(e, t) > t)
<1> DEFINE later == {u \in e : t < u /\ u <= t + Lookahead}
<1>1. CASE later = {}
  BY <1>1 DEF NextFire
<1>2. CASE later # {}
  <2>1. later \subseteq Nat
    BY TasksAssumption
  <2>2. \E u \in later : \A v \in later : u <= v
    BY <1>2, <2>1, NatMin
  <2>3. NextFire(e, t) = CHOOSE u \in later : \A v \in later : u <= v
    BY <1>2 DEF NextFire
  <2>4. NextFire(e, t) \in later
    BY <2>2, <2>3
  <2> QED
    BY <2>1, <2>4
<1> QED
  BY <1>1, <1>2
-----------------------------------------------------------------------------
LEMMA TasksInitial == ASSUME TasksInit PROVE TasksInv
<1>1. \A e \in Crons : [enabled |-> TRUE, cron |-> e, due |-> None, profiles |-> Profiles] \in Rows
  BY DEF Rows, Due
<1>2. row \in [Tasks -> Rows \cup {Gone}]
  BY <1>1 DEF TasksInit
<1>3. TasksTypeOK
  BY <1>2, TasksAssumption DEF TasksInit, TasksTypeOK, Due
<1>4. Steps /\ OffInv
  BY DEF TasksInit, Steps, OffInv
<1>5. \A t \in Tasks : There(t) => row[t].due = None
  BY DEF TasksInit, There
<1>6. Past
  BY <1>5 DEF TasksInit, Past, None
<1> QED
  BY <1>3, <1>4, <1>6 DEF TasksInv

(* A row is written back with a later due time, or not at all.               *)
LEMMA MovedOn ==
  ASSUME TasksTypeOK, NEW t \in todo, t \in Tasks, row' = WithDue(t, NextFire(snap[t].cron, now))
  PROVE  /\ row' \in [Tasks -> Rows \cup {Gone}]
         /\ \A u \in Tasks : (row'[u] = Gone <=> row[u] = Gone)
         /\ \A u \in Tasks \ {t} : row'[u] = row[u]
         /\ There(t) => row'[t].enabled = row[t].enabled
         /\ There(t) /\ NextFire(snap[t].cron, now) = None => row'[t] = row[t]
         /\ There(t) /\ NextFire(snap[t].cron, now) # None => row'[t].due > now
<1>1. now \in Nat /\ snap[t].cron \in Crons
  BY TasksAssumption DEF TasksTypeOK, Rows
<1> DEFINE next == NextFire(snap[t].cron, now)
<1>2. next = None \/ (next \in Nat /\ next > now)
  BY <1>1, NextFireAhead
<1> HIDE DEF next
<1>3. row' = IF There(t) /\ next # None THEN [row EXCEPT ![t].due = next] ELSE row
  BY DEF WithDue, next
<1>4. CASE There(t) /\ next # None
  <2>1. row[t] \in Rows /\ row[t] # Gone
    BY <1>4 DEF TasksTypeOK, There
  <2>2. row'[t] = [row[t] EXCEPT !.due = next] /\ row'[t] \in Rows
    BY <1>2, <1>3, <1>4, <2>1 DEF TasksTypeOK, Rows, Due
  <2>3. \A u \in Tasks \ {t} : row'[u] = row[u]
    BY <1>3, <1>4 DEF TasksTypeOK
  <2>4. row'[t].due = next /\ row'[t].enabled = row[t].enabled /\ row'[t] # Gone
    BY <2>1, <2>2, GoneAssumption DEF Rows
  <2>5. row' \in [Tasks -> Rows \cup {Gone}]
    BY <1>3, <1>4, <2>2 DEF TasksTypeOK
  <2> QED
    BY <1>2, <1>4, <2>1, <2>3, <2>4, <2>5 DEF There, next
<1>5. CASE ~(There(t) /\ next # None)
  BY <1>3, <1>5 DEF TasksTypeOK, There, next
<1> QED
  BY <1>4, <1>5
-----------------------------------------------------------------------------
LEMMA BeginPassKeeps == ASSUME TasksInv, BeginPass PROVE TasksInv'
<1> USE DEF TasksInv, BeginPass, world, history
<1>1. TasksTypeOK'
  BY DEF TasksTypeOK, There
<1>2. Steps'
  BY DEF Steps
<1>3. OffInv'
  BY DEF OffInv, On, There
<1>4. Past'
  BY DEF Past, Posted, There
<1> QED
  BY <1>1, <1>2, <1>3, <1>4

LEMMA EndsKeep == ASSUME TasksInv, EndPass \/ PassCrash PROVE TasksInv'
<1>1. step = "bump" => Cur \in Tasks
  BY CurInTodo DEF TasksInv, Steps
<1>2. TasksTypeOK'
  <2>1. /\ todo' = {} /\ step' = "idle" /\ snap' = [t \in Tasks |-> Gone] /\ known' = {} /\ now' = 0
        /\ UNCHANGED <<world, row, served>>
    BY DEF EndPass, PassCrash, Forget, world, history
  <2>2. doubt' \subseteq Tasks /\ faults' \in 0..MaxFaults
    <3>1. CASE EndPass
      BY <3>1 DEF TasksInv, TasksTypeOK, EndPass, history
    <3>2. CASE PassCrash
      BY <1>1, <3>2, Bounds DEF TasksInv, TasksTypeOK, PassCrash, Fault
    <3> QED
      BY <3>1, <3>2
  <2> QED
    BY <2>1, <2>2, Bounds DEF TasksInv, TasksTypeOK, world
<1>3. Steps' /\ OffInv'
  BY DEF TasksInv, EndPass, PassCrash, Forget, Fault, world, history, Steps, OffInv, On, There
<1>4. todo' = {} /\ UNCHANGED <<time, row, served>> /\ doubt \subseteq doubt' /\ (step = "bump" => Cur \in doubt')
      /\ step' = "idle"
  BY DEF TasksInv, Steps, EndPass, PassCrash, Forget, Fault, world, history
<1>5. Past'
  BY <1>4 DEF TasksInv, Past, Posted, There
<1> QED
  BY <1>2, <1>3, <1>5 DEF TasksInv

(* The pass is done with its row, which another one takes the place of.      *)
LEMMA DoneKeeps ==
  ASSUME TasksInv, NEW t \in todo, t = Cur, step # "idle",
         Done(t), UNCHANGED <<time, missing, flagged, dash, snap, known, now, served, off>>,
         row' \in [Tasks -> Rows \cup {Gone}], \A u \in Tasks \ {t} : row'[u] = row[u],
         row'[t] # Gone => There(t) /\ (row'[t].enabled => On(t)),
         doubt \subseteq doubt', doubt' \subseteq Tasks, faults' \in 0..MaxFaults,
         row'[t] # Gone /\ row'[t].due # None => t \in doubt' \/ row'[t].due > now \/ (row'[t].due = row[t].due /\ step # "bump")
  PROVE  TasksInv'
<1>1. t \in Tasks
  BY CurInTodo DEF TasksInv
<1>2. TasksTypeOK'
  <2>1. todo' \subseteq todo /\ step' = "walk"
    BY DEF Done
  <2> QED
    BY <2>1 DEF TasksInv, TasksTypeOK
<1>3. Steps'
  BY DEF Steps, Done
<1>4. OffInv'
  <2>1. \A u \in Tasks : On(u)' => u \notin off'
    BY DEF TasksInv, OffInv, On, There
  <2> QED
    BY <2>1 DEF OffInv, Done
<1>5. Past'
  <2> SUFFICES ASSUME NEW u \in Tasks, u \notin doubt'
               PROVE  /\ served[u] <= time
                      /\ u \in todo' => served[u] <= now
                      /\ There(u)' /\ row'[u].due # None => served[u] < row'[u].due
                      /\ u \in todo' /\ snap[u].due # None => served[u] < snap[u].due
    BY DEF Past, Posted
  <2>1. u \notin doubt /\ served[u] <= time /\ (u \in todo => served[u] <= now)
    BY DEF TasksInv, Past
  <2>2. CASE u = t
    <3>1. t \notin todo' /\ served[t] <= now /\ served[t] \in Int /\ now \in Int
      BY <1>1, <2>1, <2>2, TasksAssumption DEF TasksInv, TasksTypeOK, Done, Due, None
    <3>2. ASSUME row'[t] # Gone, row'[t].due # None PROVE served[t] < row'[t].due
      <4>1. CASE row'[t].due > now
        <5>1. row'[t].due \in Int
          BY <1>1, <3>2, GoneAssumption DEF Rows, Due, None, There
        <5> QED
          BY <3>1, <4>1, <5>1
      <4>2. CASE row'[t].due = row[t].due /\ step # "bump"
        BY <1>1, <2>1, <2>2, <3>2, <4>2 DEF TasksInv, Past, Posted
      <4> QED
        BY <2>2, <3>2, <4>1, <4>2
    <3> QED
      BY <2>1, <2>2, <3>1, <3>2 DEF There
  <2>3. CASE u # t
    BY <2>1, <2>3 DEF TasksInv, Past, Posted, There, Done
  <2> QED
    BY <2>2, <2>3
<1> QED
  BY <1>2, <1>3, <1>4, <1>5 DEF TasksInv
-----------------------------------------------------------------------------
LEMMA WalkKeeps == ASSUME TasksInv, NEW t \in todo, t = Cur, step = "walk", Walk(t) PROVE TasksInv'
<1>1. t \in Tasks /\ snap[t] \in Rows
  BY CurInTodo DEF TasksInv
<1>2. TasksTypeOK /\ doubt \subseteq Tasks /\ faults \in 0..MaxFaults /\ row \in [Tasks -> Rows \cup {Gone}]
  BY DEF TasksInv, TasksTypeOK
<1>3. CASE NotNow(t)
  BY <1>1, <1>2, <1>3, DoneKeeps DEF NotNow, world, pass, history, On, There
<1>4. CASE Compute(t) \/ NobodyToRun(t)
  <2>1. row' = WithDue(t, NextFire(snap[t].cron, now)) /\ Done(t) /\ UNCHANGED <<world, pass, history, faults>>
    BY <1>4 DEF Compute, NobodyToRun
  <2>2. /\ row' \in [Tasks -> Rows \cup {Gone}] /\ \A u \in Tasks \ {t} : row'[u] = row[u]
        /\ row'[t] # Gone => There(t) /\ row'[t].enabled = row[t].enabled
        /\ row'[t] # Gone => row'[t] = row[t] \/ row'[t].due > now
    BY <1>1, <1>2, <2>1, MovedOn DEF There
  <2>3. row'[t] # Gone /\ row'[t].enabled => On(t)
    BY <2>2 DEF On
  <2> QED
    BY <1>1, <1>2, <2>1, <2>2, <2>3, DoneKeeps DEF world, pass, history
<1>5. CASE Reread(t)
  <2>1. CASE Done(t) /\ UNCHANGED row
    BY <1>1, <1>2, <1>5, <2>1, DoneKeeps DEF Reread, world, pass, history, On, There
  <2>2. CASE On(t) /\ Done(t) /\ row' = [row EXCEPT ![t].enabled = FALSE]
    <3>1. row[t] \in Rows /\ row'[t] = [row[t] EXCEPT !.enabled = FALSE] /\ row'[t] \in Rows
      BY <1>1, <1>2, <2>2 DEF On, There, Rows
    <3>2. row' \in [Tasks -> Rows \cup {Gone}] /\ \A u \in Tasks \ {t} : row'[u] = row[u]
      BY <1>2, <2>2, <3>1
    <3>3. row'[t].due = row[t].due /\ There(t) /\ ~row'[t].enabled
      BY <2>2, <3>1 DEF On, There, Rows
    <3> QED
      BY <1>1, <1>2, <1>5, <2>2, <3>2, <3>3, DoneKeeps DEF Reread, world, pass, history
  <2>3. CASE /\ On(t) /\ step' \in {"bump", "post"} /\ UNCHANGED <<row, todo>>
    <3>1. TasksTypeOK'
      BY <1>2, <1>5, <2>3 DEF Reread, TasksTypeOK, world, pass, history
    <3>2. Cur' = Cur /\ (IsDue(t) <=> IsDue(t)')
      BY <1>5, <2>3 DEF Reread, Cur, IsDue, pass
    <3>3. Steps'
      BY <1>1, <1>5, <2>3, <3>2 DEF Reread, Steps, IsDue, pass
    <3>4. OffInv'
      BY <1>1, <1>5, <2>3, <3>2 DEF Reread, TasksInv, OffInv, On, There, history
    <3>5. Past'
      BY <1>5, <2>3, <3>2 DEF Reread, TasksInv, Past, Posted, There, world, pass, history
    <3> QED
      BY <3>1, <3>3, <3>4, <3>5 DEF TasksInv
  <2> QED
    BY <1>5, <2>1, <2>2, <2>3 DEF Reread
<1> QED
  BY <1>3, <1>4, <1>5 DEF Walk

LEMMA PostKeeps == ASSUME TasksInv, NEW t \in todo, t = Cur, Fire(t) \/ Refused PROVE TasksInv'
<1>1. t \in Tasks /\ IsDue(t) /\ snap[t] \in Rows
  BY CurInTodo DEF TasksInv, Steps, Fire, Refused
<1>2. UNCHANGED <<world, pass, row, todo, off, faults>> /\ step' = "bump" /\ step = "post"
  BY DEF Fire, Refused, history
<1>3. Cur' = Cur
  BY <1>2 DEF Cur
<1>4. TasksTypeOK'
  <2>1. served' \in [Tasks -> Due] /\ doubt' \subseteq Tasks
    BY <1>1 DEF TasksInv, TasksTypeOK, Fire, Refused, history, Rows
  <2> QED
    BY <1>2, <2>1 DEF TasksInv, TasksTypeOK, world, pass
<1>5. Steps' /\ OffInv'
  BY <1>1, <1>2, <1>3 DEF TasksInv, Steps, OffInv, IsDue, On, There, pass
<1>6. Past'
  <2>1. CASE Fire(t)
    <3>1. served[t]' = snap[t].due /\ \A u \in Tasks \ {t} : served[u]' = served[u] /\ (u \in doubt' <=> u \in doubt)
      BY <1>1, <2>1 DEF Fire, TasksInv, TasksTypeOK
    <3>2. t \notin doubt' => snap[t].due <= time /\ snap[t].due <= now
      BY <1>1, <2>1, TasksAssumption DEF Fire, TasksInv, TasksTypeOK, IsDue, Rows, Due, None
    <3> QED
      BY <1>1, <1>2, <1>3, <3>1, <3>2 DEF TasksInv, Past, Posted, There, world, pass
  <2>2. CASE Refused
    BY <1>2, <1>3, <2>2 DEF Refused, TasksInv, Past, Posted, There, world, pass, history
  <2> QED
    BY <2>1, <2>2
<1> QED
  BY <1>4, <1>5, <1>6 DEF TasksInv

LEMMA BumpsKeep == ASSUME TasksInv, NEW t \in todo, t = Cur, Offline(t) \/ Bump(t) \/ BumpFails(t) PROVE TasksInv'
<1>1. t \in Tasks /\ snap[t] \in Rows
  BY CurInTodo DEF TasksInv
<1>2. TasksTypeOK /\ doubt \subseteq Tasks /\ faults \in 0..MaxFaults /\ row \in [Tasks -> Rows \cup {Gone}]
  BY DEF TasksInv, TasksTypeOK
<1>3. CASE Offline(t)
  BY <1>1, <1>2, <1>3, DoneKeeps DEF Offline, world, pass, history, On, There
<1>4. CASE Bump(t)
  <2>1. /\ row' = WithDue(t, NextFire(snap[t].cron, now)) /\ Done(t) /\ UNCHANGED <<world, pass, served, off, faults>>
        /\ doubt' = IF NextFire(snap[t].cron, now) = None THEN doubt \cup {t} ELSE doubt
        /\ step = "bump"
    BY <1>4 DEF Bump
  <2>2. /\ row' \in [Tasks -> Rows \cup {Gone}] /\ \A u \in Tasks \ {t} : row'[u] = row[u]
        /\ row'[t] # Gone => There(t) /\ row'[t].enabled = row[t].enabled
        /\ row'[t] # Gone => t \in doubt' \/ row'[t].due > now
    BY <1>1, <1>2, <2>1, MovedOn DEF There
  <2>3. row'[t] # Gone /\ row'[t].enabled => On(t)
    BY <2>2 DEF On
  <2> QED
    BY <1>1, <1>2, <2>1, <2>2, <2>3, DoneKeeps DEF world, pass
<1>5. CASE BumpFails(t)
  <2>1. faults' \in 0..MaxFaults
    BY <1>2, <1>5, TasksAssumption DEF BumpFails, Fault
  <2> QED
    BY <1>1, <1>2, <1>5, <2>1, DoneKeeps DEF BumpFails, world, pass, On, There
<1> QED
  BY <1>3, <1>4, <1>5
-----------------------------------------------------------------------------
(* An endpoint leaves every due time alone, so only off has to be looked at.  *)
LEMMA EndpointsKeep == ASSUME TasksInv, NEW t \in Tasks, Edit(t) \/ DeleteTask(t) PROVE TasksInv'
<1>1. /\ UNCHANGED <<world, step, pass, todo, served, doubt, faults>>
      /\ row' \in [Tasks -> Rows \cup {Gone}]
      /\ \A u \in Tasks \ {t} : row'[u] = row[u]
      /\ row'[t] # Gone => There(t) /\ row'[t].due = row[t].due
      /\ off' = IF row'[t] # Gone /\ row'[t].enabled THEN off \ {t} ELSE SwitchedOff(t)
  <2>1. TasksTypeOK
    BY DEF TasksInv
  <2>2. CASE DeleteTask(t)
    BY <2>1, <2>2 DEF DeleteTask, TasksTypeOK
  <2>3. CASE Edit(t)
    <3>1. row[t] \in Rows
      BY <2>1, <2>3 DEF Edit, There, TasksTypeOK
    <3>2. PICK new \in Rows : row' = [row EXCEPT ![t] = new] /\ new.due = row[t].due
      <4>1. ASSUME NEW e \in Crons, row' = [row EXCEPT ![t].cron = e]
            PROVE  \E new \in Rows : row' = [row EXCEPT ![t] = new] /\ new.due = row[t].due
        <5>1. [row[t] EXCEPT !.cron = e] \in Rows /\ [row[t] EXCEPT !.cron = e].due = row[t].due
          BY <3>1 DEF Rows
        <5> QED
          BY <2>1, <5>1, <4>1 DEF TasksTypeOK
      <4>2. ASSUME NEW ps \in SUBSET Profiles, row' = [row EXCEPT ![t].profiles = ps]
            PROVE  \E new \in Rows : row' = [row EXCEPT ![t] = new] /\ new.due = row[t].due
        <5>1. [row[t] EXCEPT !.profiles = ps] \in Rows /\ [row[t] EXCEPT !.profiles = ps].due = row[t].due
          BY <3>1 DEF Rows
        <5> QED
          BY <2>1, <5>1, <4>2 DEF TasksTypeOK
      <4>3. ASSUME row' = [row EXCEPT ![t].enabled = ~@]
            PROVE  \E new \in Rows : row' = [row EXCEPT ![t] = new] /\ new.due = row[t].due
        <5>1. [row[t] EXCEPT !.enabled = ~row[t].enabled] \in Rows /\ [row[t] EXCEPT !.enabled = ~row[t].enabled].due = row[t].due
          BY <3>1 DEF Rows
        <5> QED
          BY <2>1, <5>1, <4>3 DEF TasksTypeOK
      <4> QED
        BY <2>3, <4>1, <4>2, <4>3 DEF Edit
    <3>3. row'[t] = new /\ new # Gone /\ row' \in [Tasks -> Rows \cup {Gone}] /\ \A u \in Tasks \ {t} : row'[u] = row[u]
      BY <2>1, <3>2, GoneAssumption DEF TasksTypeOK
    <3> QED
      BY <2>3, <3>2, <3>3 DEF Edit
  <2> QED
    BY <2>2, <2>3
<1>2. Cur' = Cur
  BY <1>1 DEF Cur
<1>3. TasksTypeOK'
  BY <1>1 DEF TasksInv, TasksTypeOK, world, pass
<1>4. Steps'
  BY <1>1, <1>2 DEF TasksInv, Steps, IsDue, pass
<1>5. OffInv'
  <2>1. off' \subseteq off \cup {t} /\ (step = "post" /\ t = Cur => off' \subseteq off)
    BY <1>1 DEF SwitchedOff
  <2>2. \A u \in Tasks : row'[u] # Gone /\ row'[u].enabled => u \notin off'
    BY <1>1, <2>1 DEF TasksInv, OffInv, On, There
  <2>3. step' = "post" => Cur' \notin off'
    BY <1>1, <1>2, <2>1 DEF TasksInv, OffInv
  <2> QED
    BY <2>2, <2>3 DEF OffInv, On, There
<1>6. Past'
  BY <1>1, <1>2 DEF TasksInv, Past, Posted, There, world, pass
<1> QED
  BY <1>3, <1>4, <1>5, <1>6 DEF TasksInv

LEMMA WorldKeeps ==
  ASSUME TasksInv, (\E p \in Profiles : ProfileChanges(p)) \/ DashDown \/ DashUp \/ Elapse PROVE TasksInv'
<1>1. /\ UNCHANGED <<row, step, snap, known, todo, now, served, doubt, off>>
      /\ time' \in {time, time + 1}
  BY DEF ProfileChanges, DashDown, DashUp, Elapse, pass, history
<1>2. TasksTypeOK'
  <2>1. missing' \subseteq Profiles /\ flagged' \subseteq Profiles
    BY DEF TasksInv, TasksTypeOK, ProfileChanges, DashDown, DashUp, Elapse
  <2>2. dash' \in BOOLEAN /\ faults' \in 0..MaxFaults
    <3>1. dash' \in BOOLEAN
      BY DEF TasksInv, TasksTypeOK, ProfileChanges, DashDown, DashUp, Elapse
    <3>2. faults' = faults \/ Fault
      BY DEF ProfileChanges, DashDown, DashUp, Elapse
    <3>3. faults' \in 0..MaxFaults
      BY <3>2, Bounds DEF TasksInv, TasksTypeOK, Fault
    <3> QED
      BY <3>1, <3>3
  <2>3. time' \in 0..Horizon
    BY Bounds DEF TasksInv, TasksTypeOK, ProfileChanges, DashDown, DashUp, Elapse
  <2> QED
    BY <1>1, <2>1, <2>2, <2>3 DEF TasksInv, TasksTypeOK
<1>3. Cur' = Cur
  BY <1>1 DEF Cur
<1>4. Steps' /\ OffInv'
  BY <1>1, <1>3 DEF TasksInv, Steps, OffInv, IsDue, On, There
<1>5. Past'
  <2>1. \A t \in Tasks : served[t] <= time => served[t] <= time'
    BY <1>1, Bounds DEF TasksInv, TasksTypeOK, Due, None
  <2> QED
    BY <1>1, <1>3, <2>1 DEF TasksInv, Past, Posted, There
<1> QED
  BY <1>2, <1>4, <1>5 DEF TasksInv

(* With the clock set back nothing counts as fired yet.                      *)
LEMMA SetBackKeeps == ASSUME TasksInv, SetBack PROVE TasksInv'
<1>1. UNCHANGED <<row, missing, flagged, dash, step, snap, known, todo, now, doubt, off>>
  BY DEF SetBack, pass
<1>2. time' \in 0..Horizon /\ faults' \in 0..MaxFaults /\ served' = [t \in Tasks |-> None]
  BY Bounds DEF TasksInv, TasksTypeOK, SetBack, Fault
<1>3. TasksTypeOK'
  BY <1>1, <1>2 DEF TasksInv, TasksTypeOK, Due
<1>4. Cur' = Cur
  BY <1>1 DEF Cur
<1>5. Steps' /\ OffInv'
  BY <1>1, <1>4 DEF TasksInv, Steps, OffInv, IsDue, On, There
<1>6. Past'
  <2>1. \A t \in Tasks : /\ row[t] # Gone /\ row[t].due # None => row[t].due \in Nat
                         /\ snap[t] # Gone /\ snap[t].due # None => snap[t].due \in Nat
    BY DEF TasksInv, TasksTypeOK, Rows, Due
  <2>2. todo \subseteq {t \in Tasks : snap[t] # Gone} /\ time' \in Nat /\ now \in Nat
    BY <1>2, Bounds DEF TasksInv, TasksTypeOK
  <2>3. \A t \in Tasks : served'[t] = -1
    BY <1>2 DEF None
  <2> QED
    BY <1>1, <1>4, <2>1, <2>2, <2>3 DEF Past, There
<1> QED
  BY <1>3, <1>5, <1>6 DEF TasksInv
-----------------------------------------------------------------------------
LEMMA TasksStep == ASSUME TasksInv, [TasksNext]_tasksVars PROVE TasksInv'
<1>1. CASE BeginPass
  BY <1>1, BeginPassKeeps
<1>2. CASE EndPass \/ PassCrash
  BY <1>2, EndsKeep
<1>3. ASSUME NEW t \in todo, t = Cur, Walk(t) PROVE TasksInv'
  BY <1>3, WalkKeeps DEF Walk
<1>4. ASSUME NEW t \in todo, t = Cur, Fire(t) \/ Refused PROVE TasksInv'
  BY <1>4, PostKeeps
<1>5. ASSUME NEW t \in todo, t = Cur, Offline(t) \/ Bump(t) \/ BumpFails(t) PROVE TasksInv'
  BY <1>5, BumpsKeep
<1>6. todo # {} => Cur \in todo
  BY CurInTodo DEF TasksInv
<1>7. Refused => todo # {}
  BY DEF TasksInv, Steps, Refused
<1>8. CASE Pass
  BY <1>1, <1>2, <1>3, <1>4, <1>5, <1>6, <1>7, <1>8 DEF Pass
<1>9. CASE TasksWorld
  BY <1>2, <1>5, <1>6, <1>9, EndpointsKeep, WorldKeeps, SetBackKeeps DEF TasksWorld
<1>10. CASE UNCHANGED tasksVars
  <2>1. Cur' = Cur
    BY <1>10 DEF tasksVars, Cur
  <2> QED
    BY <1>10, <2>1 DEF tasksVars, TasksInv, TasksTypeOK, Steps, OffInv, Past, Posted, IsDue, On, There
<1> QED
  BY <1>8, <1>9, <1>10 DEF TasksNext

(* The invariant of the table, the pass and their histories.                 *)
THEOREM TasksInvariant == TasksSpec => []TasksInv
  BY TasksInitial, TasksStep, PTL DEF TasksSpec

(* The table, the snapshot and the pass over it keep their types: what is    *)
(* written into next_run_at is a minute, and the rows still to do are rows   *)
(* the snapshot holds.                                                       *)
THEOREM TasksTyped == TasksSpec => []TasksTypeOK
<1>1. TasksInv => TasksTypeOK
  BY DEF TasksInv
<1> QED
  BY <1>1, TasksInvariant, PTL

(* A cron match is fired once, unless its bump did not reach the table or    *)
(* the clock went back.                                                      *)
THEOREM OncePerSlot == TasksSpec => FiredOncePerSlot
<1> DEFINE Once == \A t \in todo : t = Cur /\ Fire(t) => served[t] # snap[t].due \/ t \in doubt
<1>1. ASSUME TasksInv PROVE Once
  <2> SUFFICES ASSUME NEW t \in todo, t = Cur, Fire(t), t \notin doubt PROVE served[t] # snap[t].due
    OBVIOUS
  <2>1. t \in Tasks /\ IsDue(t) /\ step = "post" /\ snap[t] \in Rows
    BY <1>1, CurInTodo DEF TasksInv, Steps, Fire
  <2>2. served[t] < snap[t].due
    BY <1>1, <2>1 DEF TasksInv, Past, Posted, IsDue
  <2>3. served[t] \in Int /\ snap[t].due \in Int
    BY <1>1, <2>1 DEF TasksInv, TasksTypeOK, Rows, Due, None
  <2> QED
    BY <2>2, <2>3
<1> QED
  BY <1>1, TasksInvariant, PTL DEF FiredOncePerSlot

(* A row that was switched off, or deleted, before its request was being     *)
(* sent is not fired.                                                        *)
THEOREM OffStays == TasksSpec => OffStaysOff
<1>1. ASSUME TasksInv PROVE \A t \in todo : t = Cur /\ Fire(t) => t \notin off
  BY <1>1 DEF TasksInv, OffInv, Fire
<1> QED
  BY <1>1, TasksInvariant, PTL DEF OffStaysOff
=============================================================================
