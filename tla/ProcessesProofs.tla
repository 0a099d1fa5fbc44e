--------------------------- MODULE ProcessesProofs ---------------------------
(***************************************************************************)
(* The scheduler's endpoints, one request at a time: whatever crashes in   *)
(* between, there is one scheduler and the pid file knows it.  Two at a    *)
(* time are refuted by a run, so Serial is not a matter of convenience.    *)
(* And a run of the monitor, for any number of queries, attempts,          *)
(* rotations, recoveries and runs: it keeps its counters and its log       *)
(* together, passes the gates of a burned profile only as it should, and   *)
(* uses up what its retries are counted by.                                *)
(***************************************************************************)
EXTENDS SchedulerControl, MonitorRun, CardinalityLemmas, TLAPS

(* Start, stop and status.                                                   *)

Serial == \A g, h \in Handlers : g = h

(* A process that is about to be entered in the pid file is one.             *)
Writers == \A h \in Handlers : at[h] = "write" => pid[h] \in Pids

(* What one handler knows at each place of what it is about to change.       *)
Aware(h) == /\ at[h] = "judge" => seen[h] = file
            /\ at[h] \in {"reserve", "resolve"} => file = "absent" /\ Live = {}
            /\ at[h] \in {"spawn", "clean"} => Live = {}
            /\ at[h] \in {"terminate", "wait", "write"} => pid[h] \in Pids /\ Live \subseteq {pid[h]}

(* Off the gap between Popen and the write of the pid the file is right.     *)
Tracked == (\A h \in Handlers : at[h] # "write") => \A p \in Live : file = p

ControlInv == TypeOK /\ Tracked /\ \A h \in Handlers : Aware(h)
-----------------------------------------------------------------------------
LEMMA PlacesAt == ASSUME NEW h \in Handlers, TypeOK, NEW place \in At, Goto(h, place)
                  PROVE  /\ at' \in [Handlers -> At] /\ at'[h] = place
                         /\ \A g \in Handlers : g # h => at'[g] = at[g]
BY DEF TypeOK, Goto

LEMMA TypesStart == ASSUME Init PROVE TypeOK /\ Writers
BY PidsAssumption DEF Init, TypeOK, Writers, File, At

LEMMA TypesStep == ASSUME TypeOK, Writers, [Next]_vars PROVE TypeOK' /\ Writers'
<1> USE DEF TypeOK, Writers, At, Goto, process, local
<1>1. ASSUME NEW h \in Handlers, NEW k \in {"start", "stop", "status"}, Request(h, k) PROVE TypeOK' /\ Writers'
  BY <1>1 DEF Request
<1>2. ASSUME NEW h \in Handlers, Look(h) PROVE TypeOK' /\ Writers'
  BY <1>2 DEF Look
<1>3. ASSUME NEW h \in Handlers, Judge(h) PROVE TypeOK' /\ Writers'
  <2> DEFINE alive == seen[h] \in Live
  <2>1. AfterCheck(h, alive) \in {"idle", "reserve", "terminate", "resolve"}
    BY DEF AfterCheck
  <2>2. alive => seen[h] \in Pids
    BY DEF Live
  <2>3. at' = [at EXCEPT ![h] = AfterCheck(h, alive)] /\ pid' = [pid EXCEPT ![h] = IF alive THEN seen[h] ELSE NoPid]
        /\ file' \in File /\ beat' \in BOOLEAN /\ UNCHANGED <<proc, ticker, kind, seen>>
    BY <1>3 DEF Judge, File
  <2> HIDE DEF alive
  <2> QED BY <2>1, <2>2, <2>3
<1>4. ASSUME NEW h \in Handlers, Reserve(h) \/ SpawnFails(h) \/ Clean(h) PROVE TypeOK' /\ Writers'
  BY <1>4 DEF Reserve, SpawnFails, Clean, File
<1>5. ASSUME NEW h \in Handlers, Spawn(h) PROVE TypeOK' /\ Writers'
  BY <1>5 DEF Spawn
<1>6. ASSUME NEW h \in Handlers, WritePid(h) PROVE TypeOK' /\ Writers'
  BY <1>6 DEF WritePid, File
<1>7. ASSUME NEW h \in Handlers, Resolve(h) PROVE TypeOK' /\ Writers'
  BY <1>7 DEF Resolve
<1>8. ASSUME NEW h \in Handlers, Terminate(h) \/ Await(h) PROVE TypeOK' /\ Writers'
  BY <1>8 DEF Terminate, Await
<1>9. ASSUME NEW h \in Handlers, Abandon(h) PROVE TypeOK' /\ Writers'
  BY <1>9 DEF Abandon
<1>10. ASSUME NEW p \in Pids, Tick(p) \/ Beat(p) \/ Interrupt(p) \/ MarkStopped(p) \/ Exit(p) \/ Crash(p)
       PROVE TypeOK' /\ Writers'
  BY <1>10 DEF Tick, Beat, Interrupt, MarkStopped, Exit, Crash
<1>11. CASE UNCHANGED vars
  BY <1>11 DEF vars
<1> QED
  BY <1>1, <1>2, <1>3, <1>4, <1>5, <1>6, <1>7, <1>8, <1>9, <1>10, <1>11 DEF Next, Serve

(* For any number of handlers, processes and requests.                       *)
THEOREM TypeCorrect == Spec => []TypeOK
<1>1. TypeOK /\ Writers /\ [Next]_vars => (TypeOK /\ Writers)'
  BY TypesStep
<1> QED
  BY TypesStart, <1>1, PTL DEF Spec
-----------------------------------------------------------------------------
(* One request at a time.                                                    *)

(* A step of the one handler leaves nobody else to disturb.                  *)
LEMMA Alone == ASSUME Serial, NEW h \in Handlers, TypeOK', Aware(h)', Tracked' PROVE ControlInv'
<1>1. \A g \in Handlers : g = h
  BY DEF Serial
<1> QED
  BY <1>1 DEF ControlInv

(* The scheduler's own steps, and those that leave processes, file and       *)
(* answers alone, only ever lose a process.                                  *)
LEMMA Losing ==
  ASSUME ControlInv, TypeOK', Live' \subseteq Live, UNCHANGED <<file, at, seen, pid>>
  PROVE  ControlInv'
BY DEF ControlInv, Aware, Tracked

LEMMA SerialStart == ASSUME Init PROVE ControlInv
<1>1. Live = {}
  BY DEF Init, Live
<1> QED
  BY <1>1, TypesStart DEF ControlInv, Init, Aware, Tracked

LEMMA SerialJudge == ASSUME Serial, ControlInv, TypeOK', NEW h \in Handlers, Judge(h) PROVE ControlInv'
<1> DEFINE alive == seen[h] \in Live
           place == AfterCheck(h, alive)
<1>1. /\ seen[h] = file /\ at' = [at EXCEPT ![h] = place] /\ Live' = Live /\ UNCHANGED seen
      /\ pid' = [pid EXCEPT ![h] = IF alive THEN seen[h] ELSE NoPid]
      /\ file' = IF alive THEN file ELSE "absent"
      /\ \A g \in Handlers : at[g] # "write"
  BY DEF Judge, ControlInv, Aware, Goto, process, Live, Serial
<1>2. place \in IF alive THEN {"idle", "terminate"} ELSE {"idle", "reserve", "resolve"}
  BY DEF AfterCheck, ControlInv, TypeOK
<1>3. \A p \in Live : file = p
  BY <1>1 DEF ControlInv, Tracked
<1>4. ~alive => Live = {}
  BY <1>1, <1>3
<1>5. alive => seen[h] \in Pids /\ Live \subseteq {seen[h]}
  BY <1>1, <1>3 DEF Live
<1>6. at'[h] = place /\ pid'[h] = IF alive THEN seen[h] ELSE NoPid
  BY <1>1 DEF ControlInv, TypeOK
<1> HIDE DEF place
<1>7. Aware(h)'
  BY <1>1, <1>2, <1>4, <1>5, <1>6 DEF Aware
<1>8. Tracked'
  BY <1>1, <1>3, <1>4 DEF Tracked
<1> QED
  BY <1>7, <1>8, Alone

(* The other steps of a handler, one place each.                             *)
LEMMA SerialServe == ASSUME Serial, ControlInv, TypeOK', NEW h \in Handlers, Serve(h) \/ Abandon(h) PROVE ControlInv'
<1>0. /\ Aware(h) /\ Tracked /\ TypeOK /\ \A g \in Handlers : g = h
  BY DEF ControlInv, Serial
<1> SUFFICES Aware(h)' /\ Tracked'
  BY Alone
<1> USE DEF Goto, process, local
<1>1. CASE Look(h)
  <2>1. at'[h] = "judge" /\ seen'[h] = file' /\ Live' = Live /\ UNCHANGED file /\ at[h] = "look"
    BY <1>1, <1>0 DEF Look, TypeOK, Live
  <2> QED BY <2>1, <1>0 DEF Aware, Tracked
<1>2. CASE Judge(h)
  BY <1>2, SerialJudge DEF ControlInv
<1>3. CASE Reserve(h)
  <2>1. /\ at[h] = "reserve" /\ Live = {} /\ Live' = Live
        /\ at'[h] \in {"spawn", "idle"}
    BY <1>3, <1>0 DEF Reserve, TypeOK, Live, Aware
  <2> QED BY <2>1 DEF Aware, Tracked
<1>4. CASE Spawn(h)
  <2>1. PICK p \in Pids : proc' = [proc EXCEPT ![p] = "running"] /\ pid' = [pid EXCEPT ![h] = p]
    BY <1>4 DEF Spawn
  <2>2. at'[h] = "write" /\ pid'[h] = p /\ Live = {}
    BY <1>4, <1>0, <2>1 DEF Spawn, TypeOK, Aware
  <2>3. Live' \subseteq {p}
    BY <2>1, <2>2, <1>0 DEF Live, TypeOK
  <2> QED BY <2>2, <2>3 DEF Aware, Tracked
<1>5. CASE SpawnFails(h)
  <2>1. at'[h] = "idle" /\ Live = {} /\ Live' = Live
    BY <1>5, <1>0 DEF SpawnFails, TypeOK, Aware, Live
  <2> QED BY <2>1 DEF Aware, Tracked
<1>6. CASE WritePid(h)
  <2>1. at'[h] = "idle" /\ Live \subseteq {pid[h]} /\ Live' = Live /\ file' = pid[h]
    BY <1>6, <1>0 DEF WritePid, TypeOK, Aware, Live
  <2> QED BY <2>1 DEF Aware, Tracked
<1>7. CASE Resolve(h)
  <2>1. at[h] = "resolve" /\ file = "absent" /\ Live = {} /\ Live' = Live /\ file \notin Pids
    BY <1>7, <1>0, PidsAssumption DEF Resolve, Aware, Live
  <2>2. at'[h] = "idle"
    BY <1>7, <1>0, <2>1 DEF Resolve, TypeOK
  <2> QED BY <2>1, <2>2 DEF Aware, Tracked
<1>8. CASE Terminate(h)
  <2>1. at[h] = "terminate" /\ at'[h] = "wait" /\ UNCHANGED <<file, pid>>
    BY <1>8, <1>0 DEF Terminate, TypeOK
  <2>2. Live' \subseteq Live
    BY <1>8, <1>0 DEF Terminate, TypeOK, Live
  <2> QED BY <2>1, <2>2, <1>0 DEF Aware, Tracked
<1>9. CASE Await(h)
  <2>1. at[h] = "wait" /\ at'[h] = "clean" /\ Live \subseteq {pid[h]} /\ pid[h] \in Pids
    BY <1>9, <1>0 DEF Await, TypeOK, Aware
  <2>2. Live' = {}
    BY <1>9, <1>0, <2>1 DEF Await, TypeOK, Live
  <2> QED BY <2>1, <2>2, <1>0 DEF Aware, Tracked
<1>10. CASE Clean(h)
  <2>1. at'[h] = "idle" /\ Live = {} /\ Live' = Live
    BY <1>10, <1>0 DEF Clean, TypeOK, Aware, Live
  <2> QED BY <2>1 DEF Aware, Tracked
<1>11. CASE Abandon(h)
  <2>1. at'[h] = "idle" /\ at[h] # "write" /\ Live' = Live /\ UNCHANGED file
    BY <1>11, <1>0 DEF Abandon, TypeOK, Live
  <2> QED BY <2>1, <1>0 DEF Aware, Tracked
<1> QED
  BY <1>1, <1>2, <1>3, <1>4, <1>5, <1>6, <1>7, <1>8, <1>9, <1>10, <1>11 DEF Serve

LEMMA SerialStep == ASSUME Serial, ControlInv, TypeOK', [Next]_vars PROVE ControlInv'
<1>1. ASSUME NEW h \in Handlers, NEW k \in {"start", "stop", "status"}, Request(h, k) PROVE ControlInv'
  <2>1. /\ at[h] = "idle" /\ at'[h] = "look" /\ Live' = Live /\ UNCHANGED file
        /\ \A g \in Handlers : g = h
    BY <1>1 DEF Request, Goto, process, Live, ControlInv, TypeOK, Serial
  <2>2. Aware(h)' /\ Tracked'
    BY <2>1 DEF ControlInv, Aware, Tracked
  <2> QED BY <2>2, Alone
<1>2. ASSUME NEW h \in Handlers, Serve(h) \/ Abandon(h) PROVE ControlInv'
  BY <1>2, SerialServe
<1>3. ASSUME NEW p \in Pids, Tick(p) \/ Beat(p) \/ Interrupt(p) \/ MarkStopped(p) \/ Exit(p) \/ Crash(p)
      PROVE ControlInv'
  <2>1. Live' \subseteq Live /\ UNCHANGED <<file, at, seen, pid>>
    BY <1>3 DEF Tick, Beat, Interrupt, MarkStopped, Exit, Crash, Live, local, ControlInv, TypeOK
  <2> QED BY <2>1, Losing
<1>4. CASE UNCHANGED vars
  BY <1>4, Losing DEF vars, Live
<1> QED
  BY <1>1, <1>2, <1>3, <1>4 DEF Next

(* The invariant of requests served one after another.                       *)
THEOREM SerialInvariance == ASSUME Serial PROVE Spec => []ControlInv
<1>1. TypeOK /\ Writers /\ ControlInv /\ [Next]_vars => (TypeOK /\ Writers /\ ControlInv)'
  BY TypesStep, SerialStep
<1>2. Init => TypeOK /\ Writers /\ ControlInv
  BY TypesStart, SerialStart
<1> QED
  BY <1>1, <1>2, PTL DEF Spec

(* Whoever writes the pid, and otherwise the file, names every scheduler.    *)
LEMMA OneLive == ASSUME Serial, ControlInv PROVE AtMostOneScheduler
<1>1. PICK x : Live \subseteq {x}
  <2>1. CASE \A h \in Handlers : at[h] # "write"
    BY <2>1 DEF ControlInv, Tracked
  <2>2. CASE \E h \in Handlers : at[h] = "write"
    BY <2>2 DEF ControlInv, Aware
  <2> QED BY <2>1, <2>2
<1>2. IsFiniteSet({x}) /\ Cardinality({x}) = 1
  BY FS_Singleton
<1>3. Cardinality(Live) \in Nat /\ Cardinality(Live) <= Cardinality({x})
  BY <1>1, <1>2, SmallerSet
<1> QED
  BY <1>2, <1>3 DEF AtMostOneScheduler

(* Requests served one after another start one scheduler, for any number of  *)
(* requests, crashes of either process, and pids.                            *)
THEOREM OneScheduler == ASSUME Serial PROVE Spec => []AtMostOneScheduler
<1>1. ControlInv => AtMostOneScheduler
  BY OneLive
<1> QED
  BY <1>1, SerialInvariance, PTL

(* Between requests the pid file names the scheduler that runs.              *)
THEOREM SchedulerKnown == ASSUME Serial PROVE Spec => []SchedulerIsTracked
<1>1. ControlInv => SchedulerIsTracked
  BY DEF ControlInv, Tracked, SchedulerIsTracked
<1> QED
  BY <1>1, SerialInvariance, PTL

(* A start that passed its check finds no file in its way.                   *)
THEOREM StartNotBlocked == ASSUME Serial PROVE Spec => []StaleFileNeverBlocks
<1>1. ControlInv => StaleFileNeverBlocks
  BY DEF ControlInv, Aware, StaleFileNeverBlocks
<1> QED
  BY <1>1, SerialInvariance, PTL

(* A stop that has answered leaves no scheduler, no pid and no heartbeat.    *)
THEOREM StopFinal == ASSUME Serial PROVE Spec => StopIsFinal
<1> DEFINE Final(h) == at[h] \in {"resolve", "clean"} /\ Serve(h) /\ at'[h] = "idle"
                         => Live' = {} /\ file' \notin Pids /\ ~beat'
<1>1. ASSUME ControlInv, [Next]_vars, NEW h \in Handlers PROVE Final(h)
  <2>1. ASSUME at[h] = "resolve", Serve(h), at'[h] = "idle" PROVE Live' = {} /\ file' \notin Pids /\ ~beat'
    <3>1. Resolve(h) /\ Live = {} /\ file = "absent"
      BY <1>1, <2>1 DEF Serve, Look, Judge, Reserve, Spawn, SpawnFails, WritePid, Terminate, Await, Clean, ControlInv, Aware
    <3> QED BY <3>1, PidsAssumption DEF Resolve, process, Live
  <2>2. ASSUME at[h] = "clean", Serve(h), at'[h] = "idle" PROVE Live' = {} /\ file' \notin Pids /\ ~beat'
    <3>1. Clean(h) /\ Live = {}
      BY <1>1, <2>2 DEF Serve, Look, Judge, Reserve, Spawn, SpawnFails, WritePid, Resolve, Terminate, Await, ControlInv, Aware
    <3> QED BY <3>1, PidsAssumption DEF Clean, process, Live
  <2> QED BY <2>1, <2>2
<1>2. ControlInv /\ [Next]_vars => [\A h \in Handlers : Final(h)]_vars
  BY <1>1
<1>3. Spec => [][\A h \in Handlers : Final(h)]_vars
  BY <1>2, SerialInvariance, PTL DEF Spec
<1> QED
  BY <1>3 DEF StopIsFinal
-----------------------------------------------------------------------------
(* A run of the monitor.                                                     *)

QueryPlaces == {"open", "judge", "over", "restart", "yield", "raise", "settle"}

\* A record with the fields the proofs speak of.
Fields   == {"at", "i", "tries", "queries", "captchas", "logged"}
RunOK(r) == /\ Fields \subseteq DOMAIN r
            /\ r.i \in Nat /\ r.tries \in Nat /\ r.queries \in Nat /\ r.captchas \in Nat

Agree(r) == r.logged = [searches |-> r.queries, captchas |-> r.captchas]

\* How far a run can be while it is at a place.
Within(r) == /\ r.i <= Searches /\ r.tries < GeoTries
             /\ r.at \in QueryPlaces => r.i < Searches

Good(r) == RunOK(r) /\ Agree(r) /\ Within(r)

QueryOK == {"attempt"} \subseteq DOMAIN query /\ query.attempt \in Nat
AttemptInv == /\ run.at = "open" => query.attempt = 1
              /\ run.at = "judge" => query.attempt \in 1..RefreshMax

MonitorInv == Good(run) /\ QueryOK /\ AttemptInv /\ BurnedStaysOut
-----------------------------------------------------------------------------
(* The changes of a run's record.                                          *)

LEMMA GoodMove ==
  ASSUME NEW r, Good(r), NEW place, place \in QueryPlaces => r.i < Searches
  PROVE  /\ Good([r EXCEPT !.at = place]) /\ [r EXCEPT !.at = place].at = place
         /\ [r EXCEPT !.at = place].i = r.i
BY DEF Good, RunOK, Fields, Agree, Within

LEMMA GoodRecovered ==
  ASSUME NEW r, Good(r)
  PROVE  Good(Recovered(r)) /\ Recovered(r).at = r.at /\ Recovered(r).i = r.i
BY DEF Good, RunOK, Fields, Agree, Within, Recovered

LEMMA TallyOne ==
  ASSUME NEW t \in [searches : Nat, captchas : Nat]
  PROVE  /\ Tally(t, "searches", 1) = [searches |-> t.searches + 1, captchas |-> t.captchas]
         /\ Tally(t, "captchas", 1) = [searches |-> t.searches, captchas |-> t.captchas + 1]
<1>1. DOMAIN t = {"searches", "captchas"}
  OBVIOUS
<1> QED BY <1>1 DEF Tally

LEMMA GoodCaptcha ==
  ASSUME NEW r, Good(r)
  PROVE  LET c == [r EXCEPT !.captchas = @ + 1, !.logged = Tally(@, "captchas", 1)]
         IN  Good(c) /\ c.at = r.at /\ c.i = r.i
<1>1. r.captchas \in Nat /\ r.queries \in Nat /\ r.logged = [searches |-> r.queries, captchas |-> r.captchas]
  BY DEF Good, RunOK, Agree
<1>2. Tally(r.logged, "captchas", 1) = [searches |-> r.queries, captchas |-> r.captchas + 1]
  BY <1>1, TallyOne
<1> QED BY <1>1, <1>2 DEF Good, RunOK, Fields, Agree, Within

LEMMA GoodPast ==
  ASSUME NEW r, Good(r), r.i < Searches
  PROVE  LET p == [r EXCEPT !.at = "loop", !.i = @ + 1]
         IN  Good(p) /\ p.at = "loop" /\ p.i = r.i + 1
<1> DEFINE p == [r EXCEPT !.at = "loop", !.i = @ + 1]
<1>1. /\ Fields \subseteq DOMAIN p /\ p.at = "loop" /\ p.i = r.i + 1 /\ p.tries = r.tries
      /\ p.queries = r.queries /\ p.captchas = r.captchas /\ p.logged = r.logged
  BY DEF Good, RunOK, Fields
<1> HIDE DEF p
<1>2. RunOK(p) /\ Agree(p)
  BY <1>1 DEF Good, RunOK, Agree
<1>3. Within(p)
  <2>1. r.i \in Nat /\ Searches \in Nat /\ r.tries < GeoTries
    BY MonitorAssumption DEF Good, RunOK, Within
  <2>2. p.i <= Searches /\ p.tries < GeoTries
    BY <1>1, <2>1
  <2>3. p.at \notin QueryPlaces
    BY <1>1 DEF QueryPlaces
  <2> QED BY <2>2, <2>3 DEF Within
<1> QED BY <1>1, <1>2, <1>3 DEF p, Good

LEMMA GoodReturned ==
  ASSUME NEW r, Good(r), r.i < Searches, NEW page, QueryOK, Returned(r, page)
  PROVE  /\ Good(run') /\ QueryOK'
         /\ \/ run'.at = "loop" /\ run'.i = r.i + 1
            \/ run'.at = "settle" /\ run'.i = r.i
<1>1. QueryOK'
  BY DEF Returned, QueryOK, NoQuery
<1>2. CASE setup.flow
  BY <1>1, <1>2, GoodPast DEF Returned
<1>3. CASE ~setup.flow
  BY <1>1, <1>3, GoodMove DEF Returned
<1> QED BY <1>2, <1>3
-----------------------------------------------------------------------------
(* What a step uses up.                                                    *)

GatePlaces == {"rotate", "burned", "health", "diagnose", "geo", "seed"}

\* The queries that are left, the gates counted as one more,
Left == IF run.at \in GatePlaces THEN Searches + 1 ELSE Searches - run.i

\* and what is left of a query, or of the gates.
Rest == CASE run.at = "rotate"   -> GeoTries + 5
          [] run.at = "burned"   -> GeoTries + 4
          [] run.at = "health"   -> GeoTries + 3
          [] run.at = "diagnose" -> GeoTries + 2
          [] run.at = "geo"      -> GeoTries + 1 - run.tries
          [] run.at = "seed"     -> 1
          [] run.at = "loop"     -> RefreshMax + 6
          [] run.at = "open"     -> RefreshMax + 5
          [] run.at = "judge"    -> RefreshMax + 4 - query.attempt
          [] run.at \in {"over", "restart"} -> 3
          [] run.at = "yield"    -> 2
          [] run.at \in {"raise", "settle"} -> 1
          [] OTHER               -> 0

Down == \/ run'.at = "done"
        \/ Left' < Left
        \/ Left' = Left /\ Rest' < Rest

LEMMA Opening ==
  ASSUME MonitorInv
  PROVE  /\ Good(run) /\ QueryOK /\ run.i \in Nat /\ run.tries \in Nat /\ run.i <= Searches /\ run.tries < GeoTries
         /\ Searches \in Nat /\ GeoTries \in Nat /\ RefreshMax \in Nat \ {0}
         /\ run.at \in QueryPlaces => run.i < Searches
         /\ run.at = "judge" => query.attempt \in 1..RefreshMax
BY MonitorAssumption DEF MonitorInv, Good, RunOK, Within, AttemptInv

\* A step that leaves the query's record and does not enter the guarded gates.
LEMMA Entering ==
  ASSUME Good(run'), QueryOK', run'.at \notin {"open", "judge", "diagnose", "geo", "seed"}
  PROVE  MonitorInv'
BY DEF MonitorInv, AttemptInv, BurnedStaysOut

LEMMA EndedKeeps ==
  ASSUME NEW c, Ended(c) PROVE MonitorInv' /\ Down
<1>1. Good(run') /\ QueryOK' /\ run'.at = "done"
  BY MonitorAssumption DEF Ended, Fresh, NoQuery, Zero, Good, RunOK, Fields, Agree, Within, QueryPlaces, QueryOK
<1> QED BY <1>1, Entering DEF Down

LEMMA ReturnedKeeps ==
  ASSUME NEW r, Good(r), r.i = run.i, MonitorInv, run.at \in {"open", "judge", "over", "yield"},
         NEW page, Returned(r, page)
  PROVE  MonitorInv' /\ Down
<1>1. run.i < Searches /\ QueryOK /\ run.i \in Nat
  BY Opening DEF QueryPlaces
<1>2. /\ Good(run') /\ QueryOK'
      /\ \/ run'.at = "loop" /\ run'.i = run.i + 1
         \/ run'.at = "settle" /\ run'.i = run.i
  BY <1>1, GoodReturned
<1>3. MonitorInv'
  BY <1>2, Entering
<1>4. Down
  BY <1>1, <1>2, Opening DEF Down, Left, Rest, GatePlaces
<1> QED BY <1>3, <1>4

\* The other steps change where the run is, and of what counts nothing.
Same(r, s) == /\ Fields \subseteq DOMAIN s /\ s.i = r.i /\ s.tries = r.tries
              /\ s.queries = r.queries /\ s.captchas = r.captchas /\ s.logged = r.logged

Hop(from, to) == run.at = from /\ run'.at = to

Forward == \/ Hop("rotate", "burned") \/ Hop("burned", "health") \/ Hop("health", "diagnose")
           \/ Hop("diagnose", "seed") \/ Hop("diagnose", "geo") \/ Hop("geo", "seed") \/ Hop("seed", "loop")
           \/ Hop("loop", "open") \/ Hop("loop", "end") \/ Hop("open", "judge") \/ Hop("judge", "over")
           \/ Hop("judge", "restart") \/ Hop("judge", "yield") \/ Hop("judge", "raise")
           \/ Hop("yield", "raise") \/ Hop("restart", "raise") \/ Hop("raise", "end")

LEMMA ForwardGoesDown ==
  ASSUME MonitorInv, Same(run, run'), Forward, AttemptInv' PROVE Down
<1>1. run'.i = run.i /\ run'.tries = run.tries
  BY DEF Same
<1>2. CASE run.at \in GatePlaces
  BY <1>1, <1>2, Opening DEF Forward, Hop, Down, Left, Rest, GatePlaces
<1>3. CASE run.at = "judge"
  BY <1>1, <1>3, Opening DEF Forward, Hop, Down, Left, Rest, GatePlaces
<1>4. CASE Hop("open", "judge")
  BY <1>1, <1>4, Opening DEF Hop, Down, Left, Rest, GatePlaces, AttemptInv
<1>5. CASE run.at \in {"loop", "yield", "restart", "raise"}
  BY <1>1, <1>5, Opening DEF Forward, Hop, Down, Left, Rest, GatePlaces
<1> QED BY <1>2, <1>3, <1>4, <1>5 DEF Forward, Hop, GatePlaces

LEMMA ForwardKeeps ==
  ASSUME MonitorInv, Same(run, run'), Forward, QueryOK', AttemptInv', BurnedStaysOut',
         run.at = "loop" => run.i < Searches
  PROVE  MonitorInv' /\ Down
<1>1. run'.at \in QueryPlaces => run.i < Searches
  BY Opening DEF Forward, Hop, QueryPlaces
<1>2. Good(run')
  BY <1>1 DEF MonitorInv, Same, Good, RunOK, Agree, Within
<1> QED BY <1>2, ForwardGoesDown DEF MonitorInv

\* A gate that is passed leaves what the profile's record says.
LEMMA BurnedKept ==
  ASSUME MonitorInv, run.at \in {"diagnose", "geo", "seed"}, UNCHANGED <<setup, quality, flagged>>
  PROVE  BurnedStaysOut'
<1>1. Critical' = Critical
  BY DEF Critical, Spoilt, Total
<1> QED BY <1>1 DEF MonitorInv, BurnedStaysOut
-----------------------------------------------------------------------------
(* The gates.                                                              *)

LEMMA RotateOnStartKeeps ==
  ASSUME MonitorInv, RotateOnStart PROVE MonitorInv' /\ Down
<1>1. Hop("rotate", "burned") /\ Same(run, run')
  BY Opening DEF RotateOnStart, GoTo, At1, Hop, Same, Good, RunOK, Fields
<1>2. QueryOK' /\ AttemptInv' /\ BurnedStaysOut'
  BY <1>1, Opening DEF RotateOnStart, Hop, QueryOK, AttemptInv, BurnedStaysOut
<1> QED BY <1>1, <1>2, ForwardKeeps DEF Forward, Hop

LEMMA CheckBurnedKeeps ==
  ASSUME MonitorInv, CheckBurned PROVE MonitorInv' /\ Down
<1>1. Hop("burned", "health") /\ Same(run, run')
  BY Opening DEF CheckBurned, GoTo, At1, Hop, Same, Good, RunOK, Fields
<1>2. QueryOK' /\ AttemptInv' /\ BurnedStaysOut'
  BY <1>1, Opening DEF CheckBurned, Hop, QueryOK, AttemptInv, BurnedStaysOut
<1> QED BY <1>1, <1>2, ForwardKeeps DEF Forward, Hop

LEMMA HealthKeeps ==
  ASSUME MonitorInv, Health PROVE MonitorInv' /\ Down
<1>1. CASE Ended(75)
  BY <1>1, EndedKeeps
<1>2. CASE GoTo("diagnose") /\ Stays /\ ~(Critical /\ ~setup.rotating /\ ~setup.forced)
  <2>1. Hop("health", "diagnose") /\ Same(run, run')
    BY <1>2, Opening DEF Health, GoTo, At1, Hop, Same, Good, RunOK, Fields
  <2>2. QueryOK' /\ AttemptInv'
    BY <1>2, <2>1, Opening DEF Stays, Hop, QueryOK, AttemptInv
  <2>3. Critical' = Critical
    BY DEF Health, Critical, Spoilt, Total
  <2>4. BurnedStaysOut'
    BY <1>2, <2>3 DEF Health, BurnedStaysOut
  <2> QED BY <2>1, <2>2, <2>4, ForwardKeeps DEF Forward, Hop
<1> QED BY <1>1, <1>2 DEF Health

LEMMA DiagnoseKeeps ==
  ASSUME MonitorInv, Diagnose PROVE MonitorInv' /\ Down
<1>1. CASE Ended(0)
  BY <1>1, EndedKeeps
<1>2. CASE ~Ended(0)
  <2>1. Same(run, run') /\ (Hop("diagnose", "seed") \/ Hop("diagnose", "geo")) /\ Stays
    BY <1>2, Opening DEF Diagnose, GoTo, At1, Hop, Same, Good, RunOK, Fields
  <2>2. QueryOK' /\ AttemptInv' /\ BurnedStaysOut'
    BY <2>1, Opening, BurnedKept DEF Diagnose, At1, Stays, Hop, QueryOK, AttemptInv, kept
  <2> QED BY <2>1, <2>2, ForwardKeeps DEF Forward, Hop
<1> QED BY <1>1, <1>2

LEMMA GeoRotateKeeps ==
  ASSUME MonitorInv, GeoRotate PROVE MonitorInv' /\ Down
<1>0. run.at = "geo" /\ BurnedStaysOut'
  BY BurnedKept DEF GeoRotate, At1, kept
<1>1. CASE Ended(0)
  BY <1>1, EndedKeeps
<1>2. CASE GoTo("seed") /\ Stays
  <2>1. Same(run, run') /\ Hop("geo", "seed")
    BY <1>0, <1>2, Opening DEF GoTo, Hop, Same, Good, RunOK, Fields
  <2>2. QueryOK' /\ AttemptInv'
    BY <1>2, <2>1, Opening DEF Stays, Hop, QueryOK, AttemptInv
  <2> QED BY <1>0, <2>1, <2>2, ForwardKeeps DEF Forward, Hop
<1>3. CASE run.tries + 1 < GeoTries /\ run' = [run EXCEPT !.tries = @ + 1] /\ Stays
  <2>1. Good(run') /\ run'.at = "geo" /\ run'.tries = run.tries + 1
    BY <1>0, <1>3, Opening DEF Good, RunOK, Fields, Agree, Within, QueryPlaces
  <2>2. MonitorInv'
    BY <1>0, <1>3, <2>1, Opening DEF MonitorInv, AttemptInv, QueryOK, Stays
  <2>3. Down
    BY <1>0, <2>1, Opening DEF Down, Left, Rest, GatePlaces
  <2> QED BY <2>2, <2>3
<1> QED BY <1>1, <1>2, <1>3 DEF GeoRotate

LEMMA SeedConsentKeeps ==
  ASSUME MonitorInv, SeedConsent PROVE MonitorInv' /\ Down
<1>1. CASE Ended(0)
  BY <1>1, EndedKeeps
<1>2. CASE GoTo("loop") /\ Stays
  <2>1. Same(run, run') /\ Hop("seed", "loop")
    BY <1>2, Opening DEF SeedConsent, At1, GoTo, Hop, Same, Good, RunOK, Fields
  <2>2. QueryOK' /\ AttemptInv' /\ BurnedStaysOut'
    BY <1>2, <2>1, Opening DEF Stays, Hop, QueryOK, AttemptInv, BurnedStaysOut
  <2> QED BY <2>1, <2>2, ForwardKeeps DEF Forward, Hop
<1> QED BY <1>1, <1>2 DEF SeedConsent
-----------------------------------------------------------------------------
(* A query.                                                                *)

LEMMA NextQueryKeeps ==
  ASSUME MonitorInv, NextQuery PROVE MonitorInv' /\ Down
<1>1. run.at = "loop" /\ run.i < Searches /\ QueryOK'
  BY MonitorAssumption DEF NextQuery, At1, QueryOK, NoQuery
<1>2. Same(run, run') /\ (Hop("loop", "open") \/ Hop("loop", "end"))
  BY <1>1, Opening DEF NextQuery, Hop, Same, Recovered, Good, RunOK, Fields
<1>3. AttemptInv' /\ BurnedStaysOut'
  BY <1>2 DEF NextQuery, NoQuery, Hop, AttemptInv, BurnedStaysOut
<1> QED BY <1>1, <1>2, <1>3, ForwardKeeps DEF Forward

LEMMA NavigateKeeps ==
  ASSUME MonitorInv, Navigate PROVE MonitorInv' /\ Down
<1>0. run.at = "open" /\ Good(Recovered(run)) /\ Recovered(run).i = run.i
  BY Opening, GoodRecovered DEF Navigate, At1
<1>1. CASE Returned(Recovered(run), "none")
  BY <1>0, <1>1, ReturnedKeeps
<1>2. CASE ~Returned(Recovered(run), "none")
  <2>2. Same(run, run') /\ Hop("open", "judge")
    BY <1>0, <1>2, Opening DEF Navigate, GoTo, Hop, Same, Recovered, Good, RunOK, Fields
  <2>3. query'.attempt = 1 /\ QueryOK'
    BY <1>0, <1>2, Opening DEF Navigate, MonitorInv, AttemptInv, QueryOK
  <2>4. AttemptInv' /\ BurnedStaysOut'
    BY <2>2, <2>3, Opening DEF Hop, AttemptInv, BurnedStaysOut
  <2> QED BY <1>0, <2>2, <2>3, <2>4, ForwardKeeps DEF Forward
<1> QED BY <1>1, <1>2

LEMMA BarrierKeeps ==
  ASSUME MonitorInv, Barrier PROVE MonitorInv' /\ Down
BY Opening, ReturnedKeeps DEF Barrier, At1

LEMMA ExhaustedKeeps ==
  ASSUME MonitorInv, Exhausted PROVE MonitorInv' /\ Down
BY Opening, ReturnedKeeps DEF Exhausted, At1

LEMMA FoundKeeps ==
  ASSUME MonitorInv, Found PROVE MonitorInv' /\ Down
<1>1. Good([run EXCEPT !.diag = "none"]) /\ [run EXCEPT !.diag = "none"].i = run.i /\ run.at = "judge"
  BY Opening DEF Found, At1, Good, RunOK, Fields, Agree, Within
<1> QED BY <1>1, ReturnedKeeps DEF Found

LEMMA CountedKeeps ==
  ASSUME MonitorInv, NEW r, Good(r), r.i = run.i, run.at \in {"judge", "yield"}, CountCaptcha(r) PROVE MonitorInv' /\ Down
<1> DEFINE c == [r EXCEPT !.captchas = @ + 1, !.logged = Tally(@, "captchas", 1)]
<1>1. Good(c) /\ c.i = run.i
  BY GoodCaptcha
<1>2. Returned(c, "captcha")
  BY DEF CountCaptcha
<1> HIDE DEF c
<1> QED BY <1>1, <1>2, ReturnedKeeps

LEMMA GiveUpKeeps ==
  ASSUME MonitorInv, GiveUp PROVE MonitorInv' /\ Down
BY Opening, CountedKeeps DEF GiveUp, At1

LEMMA GoodDiag ==
  ASSUME NEW r, Good(r), NEW d
  PROVE  Good([r EXCEPT !.diag = d]) /\ [r EXCEPT !.diag = d].i = r.i /\ [r EXCEPT !.diag = d].at = r.at
         /\ Same(r, [r EXCEPT !.diag = d])
BY DEF Good, RunOK, Fields, Agree, Within, Same

LEMMA LateCaptchaKeeps ==
  ASSUME MonitorInv, LateCaptcha PROVE MonitorInv' /\ Down
<1>1. run.at = "judge" /\ CountCaptcha([run EXCEPT !.diag = Seen])
  BY DEF LateCaptcha, NoAds, At1
<1> QED BY <1>1, Opening, GoodDiag, CountedKeeps

LEMMA GiveBackKeeps ==
  ASSUME MonitorInv, GiveBack PROVE MonitorInv' /\ Down
<1>1. run.at = "judge" /\ Returned([run EXCEPT !.diag = Seen], "none")
  BY DEF GiveBack, NoAds, At1
<1> QED BY <1>1, Opening, GoodDiag, ReturnedKeeps

\* The rounds of a query.
LEMMA RoundKeeps ==
  ASSUME MonitorInv, run.at = "judge", NEW r, Same(run, r), "attempt" \in DOMAIN query,
         NEW n, n.attempt = query.attempt, "attempt" \in DOMAIN n, "at" \in DOMAIN r, NextRound(r, n)
  PROVE  MonitorInv' /\ Down
<1>1. Same(run, run') /\ run'.at = IF query.attempt = RefreshMax THEN "over" ELSE "judge"
  BY DEF NextRound, Same, Fields
<1>2. query'.attempt = query.attempt + 1 /\ QueryOK'
  BY Opening DEF NextRound, QueryOK
<1>3. AttemptInv' /\ BurnedStaysOut'
  BY <1>1, <1>2, Opening DEF AttemptInv, BurnedStaysOut
<1>4. CASE query.attempt = RefreshMax
  BY <1>1, <1>2, <1>3, <1>4, ForwardKeeps DEF Forward, Hop
<1>5. CASE query.attempt # RefreshMax
  <2>1. run'.at = "judge" /\ run'.i = run.i
    BY <1>1, <1>5 DEF Same
  <2>2. Good(run')
    BY <1>1, <2>1, Opening DEF Same, Good, RunOK, Agree, Within, QueryPlaces
  <2>3. Down
    BY <1>2, <2>1, Opening DEF Down, Left, Rest, GatePlaces
  <2> QED BY <1>2, <1>3, <2>2, <2>3 DEF MonitorInv
<1> QED BY <1>4, <1>5

LEMMA RotateOnCaptchaKeeps ==
  ASSUME MonitorInv, RotateOnCaptcha PROVE MonitorInv' /\ Down
<1>0. run.at = "judge" /\ Good(run) /\ "attempt" \in DOMAIN query
  BY Opening DEF RotateOnCaptcha, At1, QueryOK
<1> DEFINE next == [query EXCEPT !.rotated = @ + 1]
<1>1. PICK ip \in Rotations :
         \/ \E p \in {"captcha", "elsewhere"} :
              NextRound([run EXCEPT !.probed = TRUE],
                        [next EXCEPT !.ip = ip, !.page = p, !.moved = TRUE, !.failed = p = "captcha"])
         \/ NextRound(run, next)
         \/ GoTo("yield") /\ query' = next
  BY DEF RotateOnCaptcha
<1>2. ASSUME NEW p \in {"captcha", "elsewhere"},
             NextRound([run EXCEPT !.probed = TRUE],
                       [next EXCEPT !.ip = ip, !.page = p, !.moved = TRUE, !.failed = p = "captcha"])
      PROVE  MonitorInv' /\ Down
  <2> DEFINE r == [run EXCEPT !.probed = TRUE]
             n == [next EXCEPT !.ip = ip, !.page = p, !.moved = TRUE, !.failed = p = "captcha"]
  <2>1. Same(run, r) /\ "at" \in DOMAIN r
    BY <1>0 DEF Same, Good, RunOK, Fields
  <2>2. n.attempt = query.attempt /\ "attempt" \in DOMAIN n
    BY <1>0
  <2>3. NextRound(r, n)
    BY <1>2
  <2> HIDE DEF r, n
  <2> QED BY <1>0, <2>1, <2>2, <2>3, RoundKeeps
<1>3. CASE NextRound(run, next)
  <2> DEFINE n == next
  <2>1. Same(run, run) /\ "at" \in DOMAIN run
    BY <1>0 DEF Same, Good, RunOK, Fields
  <2>2. n.attempt = query.attempt /\ "attempt" \in DOMAIN n
    BY <1>0
  <2>3. NextRound(run, n)
    BY <1>3
  <2> HIDE DEF n
  <2> QED BY <1>0, <2>1, <2>2, <2>3, RoundKeeps
<1>4. CASE GoTo("yield") /\ query' = next
  <2>1. Hop("judge", "yield") /\ Same(run, run')
    BY <1>0, <1>4 DEF GoTo, Hop, Same, Good, RunOK, Fields
  <2>2. QueryOK' /\ AttemptInv' /\ BurnedStaysOut'
    BY <1>4, <2>1, Opening DEF Hop, QueryOK, AttemptInv, BurnedStaysOut
  <2> QED BY <2>1, <2>2, <1>0, ForwardKeeps DEF Forward, Hop
<1> QED BY <1>1, <1>2, <1>3, <1>4

\* A move out of a place of the query, with the query's record as it is.
LEMMA MoveKeeps ==
  ASSUME MonitorInv, NEW place \in {"restart", "yield", "raise"}, GoTo(place), UNCHANGED query,
         \/ run.at = "judge"
         \/ run.at \in {"yield", "restart"} /\ place = "raise"
  PROVE  MonitorInv' /\ Down
<1>1. Forward /\ Same(run, run') /\ run'.at = place /\ run.at # "loop"
  BY Opening DEF GoTo, Forward, Hop, Same, Good, RunOK, Fields
<1>2. QueryOK' /\ AttemptInv' /\ BurnedStaysOut'
  BY <1>1, Opening DEF QueryOK, AttemptInv, BurnedStaysOut
<1> QED BY <1>1, <1>2, ForwardKeeps

LEMMA NoMoreRotationsKeeps ==
  ASSUME MonitorInv, NoMoreRotations PROVE MonitorInv' /\ Down
BY MoveKeeps DEF NoMoreRotations, At1

LEMMA RestartSessionKeeps ==
  ASSUME MonitorInv, RestartSession PROVE MonitorInv' /\ Down
BY MoveKeeps DEF RestartSession, At1

LEMMA LostKeeps ==
  ASSUME MonitorInv, Lost PROVE MonitorInv' /\ Down
BY MoveKeeps DEF Lost, At1

LEMMA RefreshKeeps ==
  ASSUME MonitorInv, Refresh PROVE MonitorInv' /\ Down
<1> DEFINE r == [run EXCEPT !.diag = Seen]
<1>0. run.at = "judge" /\ Good(run) /\ "attempt" \in DOMAIN query
  BY Opening DEF Refresh, NoAds, At1, QueryOK
<1>1. Good(r) /\ r.i = run.i /\ Same(run, r) /\ "at" \in DOMAIN r
  BY <1>0, GoodDiag DEF Good, RunOK, Fields
<1>2. Good(Recovered(r)) /\ Recovered(r).i = run.i /\ Same(run, Recovered(r)) /\ "at" \in DOMAIN Recovered(r)
  BY <1>1, GoodRecovered DEF Recovered, Same, Good, RunOK, Fields
<1>3. \/ \E p \in Serp \cup {query.page} : NextRound(r, [query EXCEPT !.page = p])
      \/ NextRound(r, query)
      \/ NextRound(r, [query EXCEPT !.page = "stub"])
      \/ NextRound(Recovered(r), [query EXCEPT !.page = "elsewhere", !.failed = TRUE])
      \/ Returned(Recovered(r), "none")
  BY DEF Refresh
<1> HIDE DEF r
<1>4. ASSUME NEW p, NextRound(r, [query EXCEPT !.page = p]) PROVE MonitorInv' /\ Down
  BY <1>0, <1>1, <1>4, RoundKeeps
<1>5. CASE NextRound(r, query)
  BY <1>0, <1>1, <1>5, RoundKeeps
<1>6. CASE NextRound(Recovered(r), [query EXCEPT !.page = "elsewhere", !.failed = TRUE])
  <2> DEFINE n == [query EXCEPT !.page = "elsewhere", !.failed = TRUE]
  <2>1. n.attempt = query.attempt /\ "attempt" \in DOMAIN n
    BY <1>0
  <2>2. NextRound(Recovered(r), n)
    BY <1>6
  <2> HIDE DEF n
  <2> QED BY <1>0, <1>2, <2>1, <2>2, RoundKeeps
<1>7. CASE Returned(Recovered(r), "none")
  BY <1>0, <1>2, <1>7, ReturnedKeeps
<1> QED BY <1>3, <1>4, <1>5, <1>6, <1>7
-----------------------------------------------------------------------------
(* The loop over the queries, and the world.                               *)

LEMMA RaisedKeeps ==
  ASSUME MonitorInv, Raised PROVE MonitorInv' /\ Down
<1> DEFINE past(r) == [r EXCEPT !.at = "loop", !.i = @ + 1]
<1>0. run.at = "raise" /\ Good(run) /\ run.i < Searches /\ run.i \in Nat /\ QueryOK
  BY Opening DEF Raised, At1, QueryPlaces
<1>1. Good(Recovered(run)) /\ Recovered(run).at = run.at /\ Recovered(run).i = run.i
  BY <1>0, GoodRecovered
<1>2. CASE Ended(1)
  BY <1>2, EndedKeeps
<1>3. ASSUME NEW r, Good(r), r.i = run.i, run' = past(r), Stays PROVE MonitorInv' /\ Down
  <2>1. Good(run') /\ run'.at = "loop" /\ run'.i = run.i + 1
    BY <1>0, <1>3, GoodPast
  <2>2. MonitorInv'
    BY <1>0, <1>3, <2>1, Entering DEF Stays, QueryOK
  <2>3. Down
    BY <1>0, <2>1, Opening DEF Down, Left, GatePlaces
  <2> QED BY <2>2, <2>3
<1>4. CASE run' = [Recovered(run) EXCEPT !.at = "end"] /\ Stays
  <2>1. Same(run, run') /\ Hop("raise", "end")
    BY <1>0, <1>4 DEF Recovered, Hop, Same, Good, RunOK, Fields
  <2>2. QueryOK' /\ AttemptInv' /\ BurnedStaysOut'
    BY <1>0, <1>4, <2>1 DEF Stays, Hop, QueryOK, AttemptInv, BurnedStaysOut
  <2> QED BY <1>0, <2>1, <2>2, ForwardKeeps DEF Forward
<1> QED BY <1>0, <1>1, <1>2, <1>3, <1>4 DEF Raised

LEMMA EndKeeps ==
  ASSUME MonitorInv, End PROVE MonitorInv' /\ Down
BY EndedKeeps DEF End

\* Between two runs nothing of the run changes, and no gate is open.
LEMMA RestKeeps ==
  ASSUME MonitorInv, run.at = "done", UNCHANGED <<run, query>> PROVE MonitorInv'
BY DEF MonitorInv, QueryOK, AttemptInv, BurnedStaysOut

LEMMA SettleKeeps ==
  ASSUME MonitorInv, Settle PROVE MonitorInv' /\ Down
<1> DEFINE r == [run EXCEPT !.at = "loop", !.i = @ + 1, !.queries = @ + 1, !.logged = Tally(@, "searches", 1)]
           streak == IF query.page # "ads" /\ run.diag = "plenty" THEN run.streak + 1 ELSE 0
           counted == [r EXCEPT !.streak = streak, !.captchas = @ + 1, !.logged = Tally(@, "captchas", 1)]
           plain == [r EXCEPT !.streak = streak]
<1>0. run.at = "settle" /\ Good(run) /\ run.i < Searches /\ run.i \in Nat /\ run.queries \in Nat /\ QueryOK'
  BY MonitorAssumption, Opening DEF Settle, At1, QueryPlaces, QueryOK, NoQuery, Good, RunOK
<1>1. Tally(run.logged, "searches", 1) = [searches |-> run.queries + 1, captchas |-> run.captchas]
  BY <1>0, TallyOne DEF Good, RunOK, Agree
<1>2. /\ Fields \subseteq DOMAIN r /\ r.at = "loop" /\ r.i = run.i + 1 /\ r.tries = run.tries
      /\ r.queries = run.queries + 1 /\ r.captchas = run.captchas
      /\ r.logged = [searches |-> run.queries + 1, captchas |-> run.captchas]
  BY <1>0, <1>1 DEF Good, RunOK, Fields
<1> HIDE DEF r, streak
<1>3. Good(r)
  BY <1>0, <1>2, Opening DEF Good, RunOK, Agree, Within, QueryPlaces
<1>4. Good(plain) /\ plain.at = "loop" /\ plain.i = run.i + 1
  BY <1>2, <1>3 DEF Good, RunOK, Fields, Agree, Within
<1>5. Good(counted) /\ counted.at = "loop" /\ counted.i = run.i + 1
  <2>1. Tally(r.logged, "captchas", 1) = [searches |-> r.queries, captchas |-> r.captchas + 1]
    BY <1>3, TallyOne DEF Good, RunOK, Agree
  <2>2. r.captchas \in Nat
    BY <1>3 DEF Good, RunOK
  <2> QED BY <1>2, <1>3, <2>1, <2>2 DEF Good, RunOK, Fields, Agree, Within
<1>6. run' = counted \/ run' = plain
  BY DEF Settle, r, streak
<1> HIDE DEF counted, plain
<1>7. Good(run') /\ run'.at = "loop" /\ run'.i = run.i + 1
  BY <1>4, <1>5, <1>6
<1>8. MonitorInv'
  BY <1>0, <1>7, Entering
<1>9. Down
  BY <1>0, <1>7, Opening DEF Down, Left, GatePlaces
<1> QED BY <1>8, <1>9

LEMMA LaunchKeeps ==
  ASSUME MonitorInv, LaunchRun PROVE MonitorInv'
<1>1. run'.at \in {"rotate", "done"} /\ Good(run') /\ QueryOK'
  BY MonitorAssumption
  DEF LaunchRun, Fresh, NoQuery, Zero, Good, RunOK, Fields, Agree, Within, QueryPlaces, QueryOK
<1> QED BY <1>1, Entering

LEMMA WorldKeeps ==
  ASSUME MonitorInv, Interrupted \/ HourPasses \/ DayPasses \/ Repair \/ ClearAttention PROVE MonitorInv'
BY EndedKeeps, RestKeeps DEF Interrupted, HourPasses, DayPasses, Repair, ClearAttention, At1

LEMMA StepKeeps ==
  ASSUME MonitorInv, MonitorStep PROVE MonitorInv' /\ Down
<1>1. CASE Gates
  BY <1>1, RotateOnStartKeeps, CheckBurnedKeeps, HealthKeeps, DiagnoseKeeps, GeoRotateKeeps, SeedConsentKeeps DEF Gates
<1>2. CASE Query
  BY <1>2, NavigateKeeps, BarrierKeeps, ExhaustedKeeps, RotateOnCaptchaKeeps, NoMoreRotationsKeeps,
     RestartSessionKeeps, GiveUpKeeps, LostKeeps, FoundKeeps, LateCaptchaKeeps, GiveBackKeeps, RefreshKeeps DEF Query
<1>3. CASE NextQuery \/ Raised \/ Settle \/ End
  BY <1>3, NextQueryKeeps, RaisedKeeps, SettleKeeps, EndKeeps
<1> QED BY <1>1, <1>2, <1>3 DEF MonitorStep

LEMMA StutterKeeps ==
  ASSUME MonitorInv, UNCHANGED monitorVars PROVE MonitorInv'
<1>1. UNCHANGED <<setup, run, query, quality, flagged>>
  BY DEF monitorVars, kept
<1>2. Critical' = Critical
  BY <1>1 DEF Critical, Spoilt, Total
<1> QED BY <1>1, <1>2 DEF MonitorInv, QueryOK, AttemptInv, BurnedStaysOut

LEMMA MonitorInitial ==
  ASSUME MonitorInit PROVE MonitorInv
BY MonitorAssumption
   DEF MonitorInit, MonitorInv, Fresh, NoQuery, Zero, Good, RunOK, Fields, Agree, Within, QueryPlaces, QueryOK, AttemptInv,
       BurnedStaysOut
-----------------------------------------------------------------------------
(* MonitorInv is an invariant of a monitor's runs.                               *)
THEOREM MonitorInvariant == MonitorSpec => []MonitorInv
<1>1. MonitorInit => MonitorInv
  BY MonitorInitial
<1>2. MonitorInv /\ [MonitorNext]_monitorVars => MonitorInv'
  BY StepKeeps, LaunchKeeps, WorldKeeps, StutterKeeps DEF MonitorNext
<1> QED BY <1>1, <1>2, PTL DEF MonitorSpec

(* The run's row and its quality log count the same, for any number of     *)
(* queries, retries and runs.                                              *)
THEOREM CountersSound == MonitorSpec => []CountersAgree
<1>1. MonitorInv => CountersAgree
  BY DEF MonitorInv, Good, Agree, CountersAgree
<1> QED BY <1>1, MonitorInvariant, PTL

(* A burned profile on a static proxy does not get past the gates unforced. *)
THEOREM BurnedOut == MonitorSpec => []BurnedStaysOut
<1>1. MonitorInv => BurnedStaysOut
  BY DEF MonitorInv
<1> QED BY <1>1, MonitorInvariant, PTL

(* Every step of a run ends it, takes a query (or the gates) off what is   *)
(* left, or something off the rest of the current query: recoveries,       *)
(* refreshes, rotations and restarts cannot keep a run going for ever.     *)
THEOREM StepsUseUp == MonitorSpec => [][MonitorStep => Down]_monitorVars
<1>1. MonitorInv /\ [MonitorNext]_monitorVars => [MonitorStep => Down]_monitorVars
  BY StepKeeps
<1> QED BY <1>1, MonitorInvariant, PTL DEF MonitorSpec

(* What is left is never negative, so the descent has an end.              *)
THEOREM DescentEnds == MonitorSpec => [](Left \in Nat /\ Rest \in Nat)
<1>1. MonitorInv => Left \in Nat /\ Rest \in Nat
  <2> SUFFICES ASSUME MonitorInv PROVE Left \in Nat /\ Rest \in Nat
    OBVIOUS
  <2>1. Left \in Nat
    BY Opening DEF Left
  <2>2. CASE run.at = "judge"
    BY <2>1, <2>2, Opening DEF Rest
  <2>3. CASE run.at = "geo"
    BY <2>1, <2>3, Opening DEF Rest
  <2>4. CASE run.at \notin {"judge", "geo"}
    BY <2>1, <2>4, Opening DEF Rest
  <2> QED BY <2>2, <2>3, <2>4
<1> QED BY <1>1, MonitorInvariant, PTL
=============================================================================
