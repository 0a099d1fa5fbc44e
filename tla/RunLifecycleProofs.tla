------------------------- MODULE RunLifecycleProofs -------------------------
(***************************************************************************)
(* Proofs about RunLifecycle for any number of profiles, requests, runs    *)
(* and slots: the dashboard's pool of runs keeps its promises through      *)
(* launches, stops, crashes, shutdown and restart.                         *)
(***************************************************************************)
EXTENDS RunLifecycle, CardinalityLemmas, TLAPS

\* A run's thread, its slot, its process and its row agree.
RunInv(r) ==
  /\ thread[r] = "none" <=> slot[r] = "none"
  /\ thread[r] \in {"launching", "starting"} => proc[r] = "none"
  /\ thread[r] \in {"launching", "starting", "forked"} => slot[r] = "reserved" /\ r \notin stops
  /\ thread[r] \in {"pumping", "closing"} => slot[r] \in {"live", "finished"}
  /\ thread[r] = "closed" => slot[r] = "finished"
  /\ slot[r] = "finished" \/ thread[r] = "closing" => proc[r] \notin Alive /\ row[r] # "open"
  /\ r \in stops => proc[r] \notin Alive
  /\ profile[r] = NoProfile => slot[r] = "none" /\ proc[r] = "none" /\ r \notin stops

RunsInv == \A r \in Runs : RunInv(r)

\* A launcher works for a profile; a request inside _spawn_run holds the lock,
\* and the pool has not got its profile.
TargetInv == \A a \in Launchers : at[a] # "idle" => target[a] \in Profiles
LockInv   == \A q \in Requests : at[q] # "idle" => lock = q /\ ~InPool(target[q])

\* The pool has one slot for a profile, and no more than the cap.
PoolInv == /\ \A r, s \in Running : profile[r] = profile[s] => r = s
           /\ Cardinality(Running) <= MaxParallel

IInv == TypeOK /\ RunsInv /\ TargetInv /\ LockInv /\ PoolInv
-----------------------------------------------------------------------------
LEMMA InitInv == Init => IInv
<1> SUFFICES ASSUME Init PROVE IInv
  OBVIOUS
<1> USE DEF Init
<1>1. TypeOK
  BY DEF TypeOK, Dash, At, Row, Proc, Slot, Thread, Seen
<1>2. RunsInv /\ TargetInv /\ LockInv
  BY DEF RunsInv, RunInv, LockInv, TargetInv, Alive, Agents, Launchers
<1>3. Running = {}
  BY DEF Running
<1>4. PoolInv
  BY <1>3, FS_EmptySet, CapAssumption DEF PoolInv
<1> QED
  BY <1>1, <1>2, <1>4 DEF IInv

\* The ways a launcher's control state moves on, in types.
LEMMA ProceedType ==
  ASSUME TypeOK, NEW a \in Launchers, Proceed(a) \/ Refuse(a)
  PROVE  /\ at' \in [Agents -> At] /\ target' \in [Launchers -> Profiles \cup {NoProfile}]
         /\ lock' \in Requests \cup {Free}
BY DEF TypeOK, Proceed, Refuse, At, Agents, Launchers

\* What reap_stale_runs read is a set of row snapshots.
LEMMA ReadType ==
  ASSUME TypeOK
  PROVE  {Read(r) : r \in OpenRuns} \in SUBSET Seen
BY DEF TypeOK, Read, OpenRuns, Seen

LEMMA KillType == ASSUME TypeOK, NEW r \in Runs PROVE Kill(r) \in Proc
BY DEF TypeOK, Kill, Proc

\* The type of every step, from the type alone.
LEMMA StepType == TypeOK /\ [Next]_vars => TypeOK'
<1> SUFFICES ASSUME TypeOK, [Next]_vars PROVE TypeOK'
  OBVIOUS
<1> USE DEF TypeOK, table, pool, ctl
<1> USE ScheduledAssumption
<1>1. ASSUME NEW q \in Requests, NEW p \in Profiles, Begin(q, p) PROVE TypeOK'
  BY <1>1 DEF Begin, At, Agents, Launchers
<1>2. ASSUME NEW q \in Requests, NEW r \in Runs, Reserve(q, r) PROVE TypeOK'
  <2>1. q \in Launchers
    BY DEF Launchers
  <2>2. /\ at' \in [Agents -> At] /\ target' \in [Launchers -> Profiles \cup {NoProfile}]
        /\ lock' \in Requests \cup {Free}
    BY <1>2, <2>1, ProceedType DEF Reserve
  <2>3. /\ profile' \in [Runs -> Profiles \cup {NoProfile}] /\ row' \in [Runs -> Row]
        /\ fresh' \in [Runs -> BOOLEAN] /\ slot' \in [Runs -> Slot]
        /\ thread' \in [Runs -> Thread]
    <3>1. CASE Cardinality(Running) < MaxParallel
      <4>1. target[q] \in Profiles \cup {NoProfile}
        BY <2>1
      <4> QED
        BY <1>2, <3>1, <4>1 DEF Reserve, Row, Slot, Thread
    <3>2. CASE ~(Cardinality(Running) < MaxParallel)
      BY <1>2, <3>2 DEF Reserve
    <3> QED
      BY <3>1, <3>2
  <2> QED
    BY <1>2, <2>2, <2>3 DEF Reserve
<1>3. ASSUME NEW p \in Scheduled, FallbackBegin(p) PROVE TypeOK'
  BY <1>3 DEF FallbackBegin, At, Agents, Launchers
<1>4. ASSUME NEW a \in Launchers, CheckRows(a) PROVE TypeOK'
  <2>1. /\ lock' \in Requests \cup {Free} /\ at' \in [Agents -> At]
        /\ target' \in [Launchers -> Profiles \cup {NoProfile}]
    BY <1>4, ProceedType DEF CheckRows, At, Agents
  <2>2. todo' \in [Agents -> SUBSET Seen]
    BY <1>4, ReadType DEF CheckRows, Agents
  <2> QED
    BY <1>4, <2>1, <2>2 DEF CheckRows
<1>5. ASSUME NEW a \in Launchers, RecheckRows(a) PROVE TypeOK'
  BY <1>5, ProceedType DEF RecheckRows
<1>6. ASSUME NEW a \in Agents, NEW s \in todo[a], ReapRow(a, s) PROVE TypeOK'
  <2>1. s.run \in Runs /\ todo[a] \ {s} \in SUBSET Seen
    BY DEF Seen
  <2> QED
    BY <1>6, <2>1, KillType DEF ReapRow, Row
<1>7. ASSUME NEW r \in Runs, StartThread(r) PROVE TypeOK'
  BY <1>7 DEF StartThread, Thread
<1>8. ASSUME NEW r \in Runs, StartThreadFails(r) PROVE TypeOK'
  BY <1>8 DEF StartThreadFails, Row, Slot, Thread
<1>9. ASSUME NEW r \in Runs, Fork(r) PROVE TypeOK'
  BY <1>9 DEF Fork, Proc, Alive, Thread
<1>10. ASSUME NEW r \in Runs, ForkFails(r) PROVE TypeOK'
  BY <1>10 DEF ForkFails, Row, Slot, Thread
<1>11. ASSUME NEW r \in Runs, Attach(r) PROVE TypeOK'
  BY <1>11 DEF Attach, Slot, Thread
<1>12. ASSUME NEW r \in Runs, CloseRow(r) PROVE TypeOK'
  BY <1>12 DEF CloseRow, Row, Thread
<1>13. ASSUME NEW r \in Runs, CloseSlot(r) PROVE TypeOK'
  BY <1>13 DEF CloseSlot, Slot, Thread
<1>14. ASSUME NEW r \in Runs, Collect(r) PROVE TypeOK'
  BY <1>14 DEF Collect, Slot, Thread
<1>15. ASSUME NEW r \in Runs, StopKill(r) PROVE TypeOK'
  BY <1>15, KillType DEF StopKill
<1>16. ASSUME NEW r \in Runs, StopRecord(r) PROVE TypeOK'
  BY <1>16 DEF StopRecord, Row, Slot
<1>17. ASSUME NEW r \in Runs, MarkFailed(r) PROVE TypeOK'
  BY <1>17 DEF MarkFailed, Row
<1>18. ASSUME NEW r \in Runs, FallbackFork(r) PROVE TypeOK'
  BY <1>18, ProceedType DEF FallbackFork, Launchers, Proc, Alive
<1>19. ASSUME NEW r \in Runs, ShutdownKill(r) PROVE TypeOK'
  BY <1>19, KillType DEF ShutdownKill, Row
<1>20. ASSUME NEW r \in Runs, Boot(r) PROVE TypeOK'
  BY <1>20 DEF Boot, Proc, Alive, Row
<1>21. ASSUME NEW r \in Runs, Heartbeat(r) \/ GoStale(r) PROVE TypeOK'
  BY <1>21 DEF Heartbeat, GoStale
<1>22. ASSUME NEW r \in Runs, OwnFinish(r) PROVE TypeOK'
  BY <1>22 DEF OwnFinish, Proc, Alive, Row
<1>23. ASSUME NEW r \in Runs, Exit(r) \/ Crash(r) \/ Recycle(r) PROVE TypeOK'
  BY <1>23 DEF Exit, Crash, Recycle, Proc
<1>24. CASE Shutdown
  BY <1>24 DEF Shutdown, Dash
<1>25. CASE Down
  BY <1>25 DEF Down, Dash, At, Agents, Slot, Thread
<1>26. CASE Up
  BY <1>26 DEF Up, Dash, At, Row, Agents
<1>27. CASE StartupReap \/ ReapZombies
  BY <1>27, ReadType DEF StartupReap, ReapZombies, At, Agents
<1>28. CASE StartupDone
  BY <1>28 DEF StartupDone, At, Agents
<1>29. CASE UNCHANGED vars
  BY <1>29 DEF vars
<1> QED
  BY <1>1, <1>2, <1>3, <1>4, <1>5, <1>6, <1>7, <1>8, <1>9, <1>10, <1>11, <1>12, <1>13, <1>14,
     <1>15, <1>16, <1>17, <1>18, <1>19, <1>20, <1>21, <1>22, <1>23, <1>24, <1>25, <1>26,
     <1>27, <1>28, <1>29 DEF Next, Launch, Operator, Monitor
-----------------------------------------------------------------------------
\* A kill leaves nothing alive, and brings nothing to life.
LEMMA KillDead ==
  ASSUME TypeOK, NEW r \in Runs
  PROVE  Kill(r) \notin Alive /\ (proc[r] = "none" => Kill(r) = "none")
BY DEF TypeOK, Kill, Alive, Proc

LEMMA StepRuns == TypeOK /\ TargetInv /\ RunsInv /\ [Next]_vars => RunsInv'
<1> SUFFICES ASSUME TypeOK, TargetInv, RunsInv, [Next]_vars PROVE RunsInv'
  OBVIOUS
<1> USE NoProfileAssumption DEF RunsInv, RunInv, TypeOK, Alive
<1>1. ASSUME NEW q \in Requests, NEW p \in Profiles, Begin(q, p) PROVE RunsInv'
  BY <1>1 DEF Begin, table, pool
<1>2. ASSUME NEW q \in Requests, NEW r \in Runs, Reserve(q, r) PROVE RunsInv'
  <2>1. target[q] \in Profiles /\ target[q] # NoProfile /\ r \in Unused
    BY <1>2 DEF Reserve, TargetInv, Launchers
  <2>2. CASE Cardinality(Running) < MaxParallel
    BY <1>2, <2>1, <2>2 DEF Reserve, Unused
  <2>3. CASE ~(Cardinality(Running) < MaxParallel)
    BY <1>2, <2>3 DEF Reserve
  <2> QED
    BY <2>2, <2>3
<1>3. ASSUME NEW p \in Scheduled, FallbackBegin(p) PROVE RunsInv'
  BY <1>3 DEF FallbackBegin, table, pool
<1>4. ASSUME NEW a \in Launchers, CheckRows(a) \/ RecheckRows(a) PROVE RunsInv'
  BY <1>4 DEF CheckRows, RecheckRows, table, pool
<1>6. ASSUME NEW a \in Agents, NEW s \in todo[a], ReapRow(a, s) PROVE RunsInv'
  <2>1. s.run \in Runs
    BY DEF Seen
  <2> QED
    BY <1>6, <2>1, KillDead DEF ReapRow, pool
<1>7. ASSUME NEW r \in Runs, StartThread(r) PROVE RunsInv'
  BY <1>7 DEF StartThread, table
<1>8. ASSUME NEW r \in Runs, StartThreadFails(r) PROVE RunsInv'
  BY <1>8 DEF StartThreadFails
<1>9. ASSUME NEW r \in Runs, Fork(r) PROVE RunsInv'
  BY <1>9 DEF Fork, table
<1>10. ASSUME NEW r \in Runs, ForkFails(r) PROVE RunsInv'
  BY <1>10 DEF ForkFails
<1>11. ASSUME NEW r \in Runs, Attach(r) PROVE RunsInv'
  BY <1>11 DEF Attach
<1>12. ASSUME NEW r \in Runs, CloseRow(r) PROVE RunsInv'
  BY <1>12 DEF CloseRow
<1>13. ASSUME NEW r \in Runs, CloseSlot(r) PROVE RunsInv'
  BY <1>13 DEF CloseSlot, table
<1>14. ASSUME NEW r \in Runs, Collect(r) PROVE RunsInv'
  BY <1>14 DEF Collect, table
<1>15. ASSUME NEW r \in Runs, StopKill(r) PROVE RunsInv'
  BY <1>15, KillDead DEF StopKill, table
<1>16. ASSUME NEW r \in Runs, StopRecord(r) PROVE RunsInv'
  BY <1>16 DEF StopRecord
<1>17. ASSUME NEW r \in Runs, MarkFailed(r) PROVE RunsInv'
  BY <1>17 DEF MarkFailed, pool
<1>18. ASSUME NEW r \in Runs, FallbackFork(r) PROVE RunsInv'
  <2>1. target["scheduler"] \in Profiles /\ target["scheduler"] # NoProfile
    BY <1>18 DEF FallbackFork, TargetInv, Launchers
  <2> QED
    BY <1>18, <2>1 DEF FallbackFork, pool, Unused
<1>19. ASSUME NEW r \in Runs, ShutdownKill(r) PROVE RunsInv'
  BY <1>19, KillDead DEF ShutdownKill
<1>20. ASSUME NEW r \in Runs, Boot(r) PROVE RunsInv'
  BY <1>20 DEF Boot, pool
<1>21. ASSUME NEW r \in Runs, Heartbeat(r) \/ GoStale(r) PROVE RunsInv'
  BY <1>21 DEF Heartbeat, GoStale, pool
<1>22. ASSUME NEW r \in Runs, OwnFinish(r) PROVE RunsInv'
  BY <1>22 DEF OwnFinish, pool
<1>23. ASSUME NEW r \in Runs, Exit(r) \/ Crash(r) \/ Recycle(r) PROVE RunsInv'
  BY <1>23 DEF Exit, Crash, Recycle, pool, table
<1>24. CASE Shutdown
  BY <1>24 DEF Shutdown, table
<1>25. CASE Down
  BY <1>25 DEF Down, table
<1>26. CASE Up
  BY <1>26 DEF Up, pool
<1>27. CASE StartupReap \/ ReapZombies \/ StartupDone
  BY <1>27 DEF StartupReap, ReapZombies, StartupDone, table, pool
<1>29. CASE UNCHANGED vars
  BY <1>29 DEF vars
<1> QED
  BY <1>1, <1>2, <1>3, <1>4, <1>6, <1>7, <1>8, <1>9, <1>10, <1>11, <1>12, <1>13, <1>14,
     <1>15, <1>16, <1>17, <1>18, <1>19, <1>20, <1>21, <1>22, <1>23, <1>24, <1>25, <1>26,
     <1>27, <1>29 DEF Next, Launch, Operator, Monitor

LEMMA StepTarget == TypeOK /\ TargetInv /\ [Next]_vars => TargetInv'
<1> SUFFICES ASSUME TypeOK, TargetInv, [Next]_vars PROVE TargetInv'
  OBVIOUS
<1> USE DEF TargetInv
<1>1. ASSUME ctl' = ctl PROVE TargetInv'
  BY <1>1 DEF ctl
<1>2. ASSUME NEW a \in Launchers, at[a] # "idle", Proceed(a) \/ Refuse(a) PROVE TargetInv'
  <2>1. at \in [Agents -> At] /\ target \in [Launchers -> Profiles \cup {NoProfile}]
        /\ Launchers \subseteq Agents
    BY DEF TypeOK, Agents
  <2>2. CASE Proceed(a)
    BY <1>2, <2>1, <2>2 DEF Proceed
  <2>3. CASE Refuse(a)
    BY <2>1, <2>3 DEF Refuse
  <2> QED
    BY <1>2, <2>2, <2>3
<1>3. ASSUME NEW q \in Requests, NEW p \in Profiles, Begin(q, p) PROVE TargetInv'
  BY <1>3 DEF Begin, TypeOK
<1>4. ASSUME NEW p \in Scheduled, FallbackBegin(p) PROVE TargetInv'
  BY <1>4, ScheduledAssumption DEF FallbackBegin, TypeOK
<1>5. ASSUME NEW a \in Launchers, CheckRows(a) \/ RecheckRows(a) PROVE TargetInv'
  <2>1. at[a] # "idle" /\ (Proceed(a) \/ Refuse(a)
        \/ (at[a] = "check" /\ at' = [at EXCEPT ![a] = "reap"] /\ target' = target))
    BY <1>5 DEF CheckRows, RecheckRows
  <2> QED
    BY <1>2, <2>1 DEF TypeOK, Agents
<1>6. ASSUME NEW q \in Requests, NEW r \in Runs, Reserve(q, r) PROVE TargetInv'
  BY <1>2, <1>6 DEF Reserve, Launchers
<1>7. ASSUME NEW r \in Runs, FallbackFork(r) PROVE TargetInv'
  BY <1>2, <1>7 DEF FallbackFork, Launchers
<1>8. ASSUME NEW a \in Agents, NEW s \in todo[a], ReapRow(a, s) PROVE TargetInv'
  BY <1>8 DEF ReapRow
<1>9. CASE Down
  BY <1>9 DEF Down, Agents
<1>10. CASE Up \/ StartupReap \/ ReapZombies \/ StartupDone
  <2>1. "startup" \notin Launchers /\ "startup" \in Agents
    BY AgentsAssumption DEF Launchers, Agents
  <2>2. target' = target /\ \E v \in At : at' = [at EXCEPT !["startup"] = v]
    BY <1>10 DEF Up, StartupReap, ReapZombies, StartupDone, At
  <2>3. \A a \in Launchers : at'[a] = at[a]
    BY <2>1, <2>2 DEF TypeOK, Agents
  <2> QED
    BY <2>2, <2>3
<1>11. ASSUME NEW r \in Runs, Launch(r) \/ Operator(r) PROVE ctl' = ctl
  BY <1>11 DEF Launch, StartThread, StartThreadFails, Fork, ForkFails, Attach, CloseRow, CloseSlot,
               Collect, Operator, StopKill, StopRecord, MarkFailed, ctl
<1>12. ASSUME NEW r \in Runs, Monitor(r) \/ ShutdownKill(r) PROVE ctl' = ctl
  BY <1>12 DEF Monitor, Boot, Heartbeat, GoStale, OwnFinish, Exit, Crash, Recycle, ShutdownKill, ctl
<1>13. CASE Shutdown \/ UNCHANGED vars
  BY <1>13 DEF Shutdown, vars, ctl
<1> QED
  BY <1>1, <1>3, <1>4, <1>5, <1>6, <1>7, <1>8, <1>9, <1>10, <1>11, <1>12, <1>13 DEF Next
-----------------------------------------------------------------------------
\* Only a launch that passed the cap makes the pool grow; every other step keeps
\* or drops slots, no slot changes its profile, and no other id is used up but by
\* the scheduler's own launch.
Grows(q, r) == Reserve(q, r) /\ Cardinality(Running) < MaxParallel

Shrinks == /\ Running' \subseteq Running
           /\ \A r \in Running : profile'[r] = profile[r]
           /\ profile' = profile \/ \E r \in Runs : FallbackFork(r)

LEMMA RunningStep ==
  ASSUME IInv, [Next]_vars
  PROVE  Shrinks \/ \E q \in Requests, r \in Runs : Grows(q, r)
<1> USE DEF IInv, Running, Shrinks
<1>1. ASSUME slot' = slot, profile' = profile PROVE Shrinks
  BY <1>1
<1>2. ASSUME NEW q \in Requests, NEW r \in Runs, Reserve(q, r) PROVE Shrinks \/ Grows(q, r)
  BY <1>2 DEF Reserve, Grows
<1>3. ASSUME NEW r \in Runs, NEW v \in {"none", "finished"},
             slot' = [slot EXCEPT ![r] = v], profile' = profile
      PROVE  Shrinks
  BY <1>3 DEF TypeOK
<1>4. ASSUME NEW r \in Runs, Launch(r) PROVE Shrinks
  <2>1. CASE StartThreadFails(r) \/ ForkFails(r) \/ CloseSlot(r) \/ Collect(r)
    BY <1>3, <2>1 DEF StartThreadFails, ForkFails, CloseSlot, Collect, table
  <2>2. CASE Attach(r)
    BY <2>2 DEF Attach, RunsInv, RunInv, TypeOK
  <2>3. CASE StartThread(r) \/ Fork(r) \/ CloseRow(r)
    BY <1>1, <2>3 DEF StartThread, Fork, CloseRow, table
  <2> QED
    BY <1>4, <2>1, <2>2, <2>3 DEF Launch
<1>5. ASSUME NEW r \in Runs, Operator(r) PROVE Shrinks
  <2>1. CASE StopRecord(r)
    BY <1>1, <1>3, <2>1 DEF StopRecord
  <2>2. CASE StopKill(r) \/ MarkFailed(r)
    BY <1>1, <2>2 DEF StopKill, MarkFailed, table, pool
  <2> QED
    BY <1>5, <2>1, <2>2 DEF Operator
<1>6. ASSUME NEW r \in Runs, FallbackFork(r) PROVE Shrinks
  BY <1>6 DEF FallbackFork, Unused, RunsInv, RunInv, TypeOK, pool
<1>7. ASSUME NEW r \in Runs, Monitor(r) \/ ShutdownKill(r) PROVE Shrinks
  BY <1>1, <1>7 DEF Monitor, Boot, Heartbeat, GoStale, OwnFinish, Exit, Crash, Recycle,
                    ShutdownKill, table, pool
<1>8. CASE Down
  BY <1>8 DEF Down, table
<1>9. ASSUME NEW a \in Agents, NEW s \in todo[a], ReapRow(a, s) PROVE Shrinks
  BY <1>1, <1>9 DEF ReapRow, pool
<1>10. ASSUME NEW a \in Launchers, CheckRows(a) \/ RecheckRows(a) PROVE Shrinks
  BY <1>1, <1>10 DEF CheckRows, RecheckRows, table, pool
<1>11. ASSUME NEW p, NEW q, Begin(q, p) \/ FallbackBegin(p) PROVE Shrinks
  BY <1>1, <1>11 DEF Begin, FallbackBegin, table, pool
<1>12. CASE Shutdown \/ Up \/ StartupReap \/ ReapZombies \/ StartupDone \/ UNCHANGED vars
  BY <1>1, <1>12 DEF Shutdown, Up, StartupReap, ReapZombies, StartupDone, table, pool, vars
<1> QED
  BY <1>2, <1>4, <1>5, <1>6, <1>7, <1>8, <1>9, <1>10, <1>11, <1>12 DEF Next

LEMMA StepPool == IInv /\ [Next]_vars => PoolInv'
<1> SUFFICES ASSUME IInv, [Next]_vars PROVE PoolInv'
  OBVIOUS
<1>0. IsFiniteSet(Running)
  BY RunsFinite, SmallerSet DEF Running
<1>1. CASE Shrinks
  <2>1. Cardinality(Running') <= MaxParallel
    BY <1>0, <1>1, SmallerSet, CapAssumption DEF Shrinks, IInv, PoolInv
  <2> QED
    BY <1>1, <2>1 DEF Shrinks, IInv, PoolInv
<1>2. ASSUME NEW q \in Requests, NEW r \in Runs, Grows(q, r) PROVE PoolInv'
  <2>1. /\ Running' = Running \cup {r} /\ r \notin Running
        /\ \A s \in Running : profile'[s] = profile[s]
        /\ profile'[r] = target[q]
    BY <1>2 DEF Grows, Reserve, Running, Unused, IInv, RunsInv, RunInv, TypeOK
  <2>2. \A s \in Running : profile[s] # target[q]
    BY <1>2 DEF Grows, Reserve, IInv, LockInv, InPool
  <2>3. Cardinality(Running') <= MaxParallel
    <3>1. /\ IsFiniteSet(Running \cup {r})
          /\ Cardinality(Running \cup {r}) <= Cardinality(Running) + 1
      BY <1>0, OneMore
    <3>2. Cardinality(Running) \in Nat /\ Cardinality(Running \cup {r}) \in Nat
      BY <1>0, <3>1, FS_CardinalityType
    <3> QED
      BY <1>2, <2>1, <3>1, <3>2, CapAssumption DEF Grows
  <2> QED
    BY <2>1, <2>2, <2>3 DEF IInv, PoolInv
<1> QED
  BY <1>1, <1>2, RunningStep

\* The lock is held from the question to the pool until the slot is in it.
LEMMA StepLock == IInv /\ [Next]_vars => LockInv'
<1> SUFFICES ASSUME IInv, [Next]_vars PROVE LockInv'
  OBVIOUS
<1> USE AgentsAssumption DEF IInv
<1>0. /\ at \in [Agents -> At] /\ target \in [Launchers -> Profiles \cup {NoProfile}]
      /\ lock \in Requests \cup {Free}
      /\ Launchers \subseteq Agents /\ Requests \subseteq Launchers
      /\ "scheduler" \in Launchers /\ "scheduler" \notin Requests
      /\ "startup" \in Agents /\ "startup" \notin Requests
  BY DEF TypeOK, Agents, Launchers
\* A request that keeps its place keeps its claim, if the pool does not grow.
<1>1. ASSUME Shrinks,
             \A q \in Requests : at'[q] # "idle" =>
               at[q] # "idle" /\ lock' = lock /\ target'[q] = target[q]
      PROVE  LockInv'
  BY <1>1 DEF Shrinks, LockInv, InPool
<1>2. ASSUME \A q \in Requests : at'[q] = "idle" PROVE LockInv'
  BY <1>2 DEF LockInv
<1>3. ASSUME NEW q \in Requests, NEW r \in Runs, Reserve(q, r) PROVE LockInv'
  <2>1. \A p \in Requests : at'[p] = "idle"
    BY <1>0, <1>3 DEF Reserve, Refuse, LockInv
  <2> QED
    BY <1>2, <2>1
<1>4. CASE ~(\E q \in Requests, r \in Runs : Reserve(q, r))
  <2>0. Shrinks
    BY <1>4, RunningStep DEF Grows
  <2>1. ASSUME ctl' = ctl PROVE LockInv'
    BY <1>1, <2>0, <2>1 DEF ctl
  <2>2. ASSUME NEW q \in Requests, NEW p \in Profiles, Begin(q, p) PROVE LockInv'
    <3>1. /\ lock' = q /\ at' = [at EXCEPT ![q] = "check"] /\ target' = [target EXCEPT ![q] = p]
          /\ ~InPool(p) /\ \A k \in Requests : at[k] = "idle"
      BY <1>0, <2>2 DEF Begin, LockInv
    <3>2. ~InPool(p)'
      BY <2>0, <3>1 DEF InPool, Shrinks
    <3> QED
      BY <1>0, <3>1, <3>2 DEF LockInv
  <2>3. ASSUME NEW a \in Launchers, at[a] # "idle",
               \/ Proceed(a) \/ Refuse(a)
               \/ at' = [at EXCEPT ![a] = "reap"] /\ UNCHANGED <<lock, target>>
        PROVE  LockInv'
    <3>1. CASE a = "scheduler"
      <4>1. lock' = lock /\ \A q \in Requests : at'[q] = at[q] /\ target'[q] = target[q]
        BY <1>0, <2>3, <3>1 DEF Proceed, Refuse
      <4> QED
        BY <1>1, <2>0, <4>1
    <3>2. CASE a \in Requests
      <4>1. CASE Refuse(a)
        <5>1. \A q \in Requests : at'[q] = "idle"
          BY <1>0, <2>3, <3>2, <4>1 DEF Refuse, LockInv
        <5> QED
          BY <1>2, <5>1
      <4>2. CASE ~Refuse(a)
        <5>1. /\ lock' = lock /\ target' = target
              /\ \A q \in Requests \ {a} : at'[q] = at[q]
          BY <1>0, <2>3, <4>2 DEF Proceed
        <5> QED
          BY <1>1, <2>0, <2>3, <5>1
      <4> QED
        BY <4>1, <4>2
    <3> QED
      BY <3>1, <3>2 DEF Launchers
  <2>4. ASSUME NEW a \in Launchers, CheckRows(a) \/ RecheckRows(a) PROVE LockInv'
    BY <2>3, <2>4 DEF CheckRows, RecheckRows
  <2>5. ASSUME NEW p \in Scheduled, FallbackBegin(p) PROVE LockInv'
    <3>1. lock' = lock /\ \A q \in Requests : at'[q] = at[q] /\ target'[q] = target[q]
      BY <1>0, <2>5 DEF FallbackBegin
    <3> QED
      BY <1>1, <2>0, <3>1
  <2>6. ASSUME NEW r \in Runs, FallbackFork(r) PROVE LockInv'
    BY <1>0, <2>3, <2>6 DEF FallbackFork
  <2>7. ASSUME NEW a \in Agents, NEW s \in todo[a], ReapRow(a, s) PROVE LockInv'
    BY <1>1, <2>0, <2>7 DEF ReapRow
  <2>8. CASE Down
    BY <1>0, <1>2, <2>8 DEF Down
  <2>9. CASE Up \/ StartupReap \/ ReapZombies \/ StartupDone
    <3>1. /\ lock' = lock /\ target' = target
          /\ \E v \in At : at' = [at EXCEPT !["startup"] = v]
      BY <2>9 DEF Up, StartupReap, ReapZombies, StartupDone, At
    <3>2. \A q \in Requests : at'[q] = at[q]
      BY <1>0, <3>1
    <3> QED
      BY <1>1, <2>0, <3>1, <3>2
  <2>10. ASSUME NEW r \in Runs, Launch(r) \/ Operator(r) PROVE ctl' = ctl
    BY <2>10 DEF Launch, StartThread, StartThreadFails, Fork, ForkFails, Attach, CloseRow,
                 CloseSlot, Collect, Operator, StopKill, StopRecord, MarkFailed, ctl
  <2>11. ASSUME NEW r \in Runs, Monitor(r) \/ ShutdownKill(r) PROVE ctl' = ctl
    BY <2>11 DEF Monitor, Boot, Heartbeat, GoStale, OwnFinish, Exit, Crash, Recycle,
                 ShutdownKill, ctl
  <2>12. CASE Shutdown \/ UNCHANGED vars
    BY <2>1, <2>12 DEF Shutdown, vars, ctl
  <2> QED
    BY <1>4, <2>1, <2>2, <2>4, <2>5, <2>6, <2>7, <2>8, <2>9, <2>10, <2>11, <2>12 DEF Next
<1> QED
  BY <1>3, <1>4

LEMMA StepInv == IInv /\ [Next]_vars => IInv'
BY StepType, StepRuns, StepTarget, StepLock, StepPool DEF IInv

\* The invariant holds in every reachable state.
THEOREM Invariance == Spec => []IInv
BY InitInv, StepInv, PTL DEF Spec
-----------------------------------------------------------------------------
\* Type correctness.
THEOREM TypeCorrect == Spec => []TypeOK
<1>1. IInv => TypeOK
  BY DEF IInv
<1> QED
  BY <1>1, Invariance, PTL

\* A live child of this dashboard always has a slot that says it runs.
LEMMA ChildrenRun == IInv => LiveChildHasSlot
<1> SUFFICES ASSUME IInv, NEW r \in Runs, Child(r) PROVE r \in Running
  BY DEF LiveChildHasSlot
<1>1. RunInv(r) /\ thread[r] \in Thread /\ slot[r] \in Slot
  BY DEF IInv, RunsInv, TypeOK
<1> QED
  BY <1>1 DEF RunInv, Child, Running, Thread, Slot, Alive

THEOREM ChildrenHaveSlots == Spec => []LiveChildHasSlot
BY ChildrenRun, Invariance, PTL

\* Two monitors on one profile never come from one dashboard.
THEOREM ProfilesExclusive == Spec => []OneChildPerProfile
<1>1. IInv => OneChildPerProfile
  BY ChildrenRun DEF IInv, PoolInv, LiveChildHasSlot, OneChildPerProfile
<1> QED
  BY <1>1, Invariance, PTL

\* The cap on slots bounds the processes.
THEOREM ChildrenCapped == Spec => []ChildrenBounded
<1>1. IInv => ChildrenBounded
  <2> SUFFICES ASSUME IInv PROVE Cardinality({r \in Runs : Child(r)}) <= MaxParallel
    BY DEF ChildrenBounded
  <2>1. IsFiniteSet(Running) /\ {r \in Runs : Child(r)} \subseteq Running
    BY RunsFinite, SmallerSet, ChildrenRun DEF Running, LiveChildHasSlot
  <2> QED
    BY <2>1, SmallerSet, CapAssumption DEF IInv, PoolInv
<1> QED
  BY <1>1, Invariance, PTL

\* A slot that was freed has left no open row behind it.
THEOREM FreedRowsClosed == Spec => []FreedSlotHasClosedRow
<1>1. IInv => FreedSlotHasClosedRow
  BY DEF IInv, RunsInv, RunInv, FreedSlotHasClosedRow
<1> QED
  BY <1>1, Invariance, PTL
-----------------------------------------------------------------------------
(* The refinement: RunnerPool implements ProfileLease.                     *)

Leases == {<<r, profile[r]>> : r \in Running}
Spent  == Runs \ Unused

LEMMA SameCardinality == \A S : Lease!Cardinality(S) = Cardinality(S)
BY DEF Lease!Cardinality, Cardinality

\* There are no more leases than slots.
LEMMA LeasesCounted == IsFiniteSet(Leases) /\ Cardinality(Leases) <= Cardinality(Running)
<1> DEFINE f == [r \in Running |-> <<r, profile[r]>>]
<1>1. IsFiniteSet(Running)
  BY RunsFinite, SmallerSet DEF Running
<1>2. f \in Surjection(Running, Leases)
  BY DEF Surjection, Leases
<1> QED
  BY <1>1, <1>2, FS_Surjection

LEMMA LaunchGrants ==
  ASSUME IInv, NEW q \in Requests, NEW r \in Runs, Grows(q, r)
  PROVE  \E p \in Profiles : Lease!Grant(r, p)
<1> USE DEF IInv, Grows, Reserve
<1>1. PICK p \in Profiles : p = target[q] /\ p # NoProfile
  BY NoProfileAssumption DEF TargetInv, Launchers
<1>2. /\ Running' = Running \cup {r} /\ r \notin Running
      /\ profile' = [profile EXCEPT ![r] = p]
  BY <1>1 DEF Running, Unused, RunsInv, RunInv, TypeOK
<1>3. Leases' = Leases \cup {<<r, p>>}
  BY <1>2 DEF Leases, Running, TypeOK
<1>4. r \notin Spent /\ Spent' = Spent \cup {r}
  BY <1>1, <1>2 DEF Spent, Unused, TypeOK
<1>5. \A l \in Leases : l[2] # p
  BY <1>1 DEF Leases, LockInv, InPool
<1>6. Cardinality(Leases) < MaxParallel
  <2>1. Cardinality(Leases) \in Nat /\ Cardinality(Running) \in Nat
    BY LeasesCounted, RunsFinite, SmallerSet, FS_CardinalityType DEF Running
  <2> QED
    BY <2>1, LeasesCounted, CapAssumption
<1> QED
  BY <1>3, <1>4, <1>5, <1>6, SameCardinality DEF Lease!Grant, Leases, Spent

LEMMA StepRefines == IInv /\ [Next]_vars => [Lease!Next]_<<Leases, Spent>>
<1> SUFFICES ASSUME IInv, [Next]_vars PROVE Lease!Next \/ UNCHANGED <<Leases, Spent>>
  OBVIOUS
<1>1. ASSUME NEW q \in Requests, NEW r \in Runs, Grows(q, r) PROVE Lease!Next
  BY <1>1, LaunchGrants DEF Lease!Next
<1>2. CASE Shrinks /\ profile' = profile
  <2>1. PICK S \in SUBSET Leases : Leases' = Leases \ S
    <3>1. Leases' \subseteq Leases
      BY <1>2 DEF Leases, Shrinks
    <3>2. Leases' = Leases \ (Leases \ Leases')
      BY <3>1
    <3> QED
      BY <3>2
  <2>2. Spent' = Spent
    BY <1>2 DEF Spent, Unused
  <2>3. Lease!Release(S)
    BY <2>1, <2>2 DEF Lease!Release, Leases, Spent
  <2> QED
    BY <2>3 DEF Lease!Next, Leases
<1>3. ASSUME NEW r \in Runs, FallbackFork(r), Shrinks PROVE Lease!Next
  <2>1. /\ r \notin Spent /\ slot' = slot /\ slot[r] = "none"
        /\ profile' = [profile EXCEPT ![r] = target["scheduler"]]
    BY <1>3 DEF FallbackFork, Unused, Spent, IInv, RunsInv, RunInv, pool
  <2>2. target["scheduler"] \in Profiles /\ target["scheduler"] # NoProfile
    BY <1>3, NoProfileAssumption DEF FallbackFork, IInv, TargetInv, Launchers
  <2>3. Spent' = Spent \cup {r}
    BY <2>1, <2>2 DEF Spent, Unused, IInv, TypeOK
  <2>4. Leases' = Leases
    BY <2>1 DEF Leases, Running, IInv, TypeOK
  <2> QED
    BY <2>1, <2>3, <2>4 DEF Lease!Next, Lease!Elsewhere, Leases, Spent
<1> QED
  BY <1>1, <1>2, <1>3, RunningStep DEF Shrinks

\* The pool never leases a profile twice, nor more than the cap, nor an id again:
\* for any number of profiles, requests and runs.
THEOREM Implementation == Spec => ImplementsLease
<1>1. Init => Lease!Init
  BY DEF Init, Lease!Init, Running, Unused
<1> QED
  BY <1>1, StepRefines, Invariance, PTL DEF Spec, ImplementsLease, Lease!Spec, Leases, Spent
=============================================================================
