---------------------------- MODULE BrowserProofs ----------------------------
(***************************************************************************)
(* What goes on beside one browser: what the lock file does keep apart,    *)
(* for any number of processes, directories and launches; that a watchdog  *)
(* which gives up has seen its own browser fail, for any number of         *)
(* browsers and any limit; and that a page which follows the log shows     *)
(* every line once, except the lines the stream gives no promise about,    *)
(* for any number of threads, lines, broken streams and restarts, and any  *)
(* length of the ring and of the queue.                                    *)
(***************************************************************************)
EXTENDS ProfileLock, Watchdogs, LogStream, CardinalityLemmas, TLAPS

(* The lock file.                                                            *)

Places1 == {"gone", "idle", "guarded", "swept", "claimed", "failed", "retry", "up", "closing"}
Hearts  == {"none", "waiting", "write", "late"}

\* A process that has claimed its directory and not given it up.
Holding(p) == at[p] \in {"claimed", "failed", "up"}

(* The shape of the variables; a process that is there has a directory.      *)
Shape == /\ at \in [Procs -> Places1] /\ dir \in [Procs -> Dirs \cup {Free}]
         /\ beat \in [Procs -> Hearts] /\ lock \in [Dirs -> Procs \cup {Free}]
         /\ \A p \in Procs : at[p] # "gone" => dir[p] \in Dirs

(* What makes the guard work: off the directories in breach, the lock of a   *)
(* process that holds its directory is its own, and kept fresh.              *)
Held == \A p \in Procs : Holding(p) /\ dir[p] \notin breach =>
           /\ p \in path /\ lock[dir[p]] = p /\ dir[p] \in fresh
           /\ beat[p] \in {"waiting", "write"}

(* Heartbeats belong to processes that hold their directories.               *)
Hearty == \A p \in Procs : beat[p] \in {"waiting", "write"} => Holding(p)

(* A Chrome belongs to a process that has it up or is closing it.            *)
Chromed == \A p \in Procs : p \in chrome => at[p] \in {"up", "closing"}

(* From the sweep on a directory is clean, until the process fails or closes.*)
Clean == \A p \in Procs : at[p] \in {"swept", "retry", "claimed", "up"} /\ dir[p] \in orphans => dir[p] \in breach

LockInv == Shape /\ Held /\ Hearty /\ OneAtATime /\ Chromed /\ BrowserKept /\ Clean

LEMMA LockInitial == ASSUME LockInit PROVE LockInv
BY LockAssumption DEF LockInit, LockInv, Shape, Places1, Hearts, Held, Holding, Hearty, OneAtATime, Works, Chromed,
   BrowserKept, Clean
-----------------------------------------------------------------------------
LEMMA SpawnedKeeps ==
  ASSUME LockInv, NEW p \in Procs, NEW d \in Dirs, Spawned(p, d) PROVE LockInv'
<1> USE LockAssumption DEF LockInv, Spawned, files, browsers
<1>1. Shape'
  BY DEF Shape, Places1
<1>2. Held'
  BY DEF Held, Holding
<1>3. Hearty'
  BY DEF Hearty, Holding
<1>4. OneAtATime'
  BY DEF OneAtATime, Works
<1>5. Chromed'
  BY DEF Chromed
<1>6. BrowserKept'
  BY DEF BrowserKept
<1>7. Clean'
  BY DEF Clean
<1> QED
  BY <1>1, <1>2, <1>3, <1>4, <1>5, <1>6, <1>7

LEMMA GuardKeeps ==
  ASSUME LockInv, NEW p \in Procs, Guard(p) PROVE LockInv'
<1> USE LockAssumption DEF LockInv, Guard, files, browsers
<1>1. Shape'
  BY DEF Shape, Places1
<1>2. Held'
  BY DEF Held, Holding
<1>3. Hearty'
  BY DEF Hearty, Holding
<1>4. OneAtATime'
  <2> SUFFICES ASSUME NEW q \in Procs \ {p}, Works(q, dir[p]), dir[p] \notin breach' PROVE FALSE
    BY DEF Shape, OneAtATime, Works
  <2>1. ~Exposed(q)
    BY DEF Works
  <2>2. Holding(q) /\ q \in ByPath
    BY <2>1 DEF Exposed, Holding, Works, Shape, Places1
  <2>3. Live(dir[p])
    BY <2>2 DEF Held, Holding, Live, Works
  <2> QED
    BY <2>3
<1>5. Chromed'
  BY DEF Chromed
<1>6. BrowserKept'
  BY DEF BrowserKept
<1>7. Clean'
  BY DEF Clean
<1> QED
  BY <1>1, <1>2, <1>3, <1>4, <1>5, <1>6, <1>7

LEMMA SweepKeeps ==
  ASSUME LockInv, NEW p \in Procs, Sweep(p) PROVE LockInv'
<1> USE LockAssumption DEF LockInv, Sweep, files, browsers
<1>1. Shape'
  BY DEF Shape, Places1
<1>2. Held'
  BY DEF Held, Holding
<1>3. Hearty'
  BY DEF Hearty, Holding
<1>4. OneAtATime'
  BY DEF OneAtATime, Works
<1>5. Chromed'
  BY DEF Chromed, Swept
<1>6. BrowserKept'
  <2> SUFFICES ASSUME NEW q \in Procs, at'[q] = "up", q \notin chrome', dir[q] \notin breach
               PROVE  Prefixed(dir[q])
    BY DEF BrowserKept
  <2>1. at[q] = "up" /\ q # p
    BY DEF Shape, Again
  <2>2. CASE q \notin chrome
    BY <2>1, <2>2 DEF BrowserKept
  <2>3. CASE q \in chrome
    <3>1. <<dir[p], dir[q]>> \in Matches
      BY <2>3 DEF Swept
    <3>2. dir[p] # dir[q]
      BY <2>1 DEF OneAtATime, Works, Shape
    <3> QED
      BY <3>1, <3>2 DEF Prefixed, Shape
  <2> QED
    BY <2>2, <2>3
<1>7. Clean'
  BY DEF Shape, Clean, Swept
<1> QED
  BY <1>1, <1>2, <1>3, <1>4, <1>5, <1>6, <1>7

LEMMA ClaimKeeps ==
  ASSUME LockInv, NEW p \in Procs, Claim(p) PROVE LockInv'
<1> USE LockAssumption DEF LockInv, Claim, files, browsers
<1>1. Shape'
  BY DEF Shape, Places1, Hearts
<1>2. Held'
  BY DEF Shape, Held, Holding, OneAtATime, Works
<1>3. Hearty'
  BY DEF Shape, Hearty, Holding
<1>4. OneAtATime'
  BY DEF OneAtATime, Works
<1>5. Chromed'
  BY DEF Chromed
<1>6. BrowserKept'
  BY DEF BrowserKept
<1>7. Clean'
  BY DEF Clean
<1> QED
  BY <1>1, <1>2, <1>3, <1>4, <1>5, <1>6, <1>7

LEMMA ClaimFailsKeeps ==
  ASSUME LockInv, NEW p \in Procs, ClaimFails(p) PROVE LockInv'
<1> USE LockAssumption DEF LockInv, ClaimFails, files, browsers
<1>1. Shape'
  BY DEF Shape, Places1
<1>2. Held'
  BY DEF Held, Holding
<1>3. Hearty'
  BY DEF Hearty, Holding
<1>4. OneAtATime'
  BY DEF OneAtATime, Works
<1>5. Chromed'
  BY DEF Chromed
<1>6. BrowserKept'
  BY DEF BrowserKept
<1>7. Clean'
  BY DEF Clean
<1> QED
  BY <1>1, <1>2, <1>3, <1>4, <1>5, <1>6, <1>7

LEMMA UpKeeps ==
  ASSUME LockInv, NEW p \in Procs, Up(p) PROVE LockInv'
<1> USE LockAssumption DEF LockInv, Up, files, browsers
<1>1. Shape'
  BY DEF Shape, Places1
<1>2. Held'
  BY DEF Held, Holding
<1>3. Hearty'
  BY DEF Hearty, Holding
<1>4. OneAtATime'
  BY DEF OneAtATime, Works
<1>5. Chromed'
  BY DEF Shape, Chromed
<1>6. BrowserKept'
  BY DEF BrowserKept
<1>7. Clean'
  BY DEF Clean
<1> QED
  BY <1>1, <1>2, <1>3, <1>4, <1>5, <1>6, <1>7

LEMMA LaunchDiesKeeps ==
  ASSUME LockInv, NEW p \in Procs, LaunchDies(p) PROVE LockInv'
<1> USE LockAssumption DEF LockInv, LaunchDies, files, browsers
<1>1. Shape'
  BY DEF Shape, Places1
<1>2. Held'
  BY DEF Held, Holding
<1>3. Hearty'
  BY DEF Hearty, Holding
<1>4. OneAtATime'
  BY DEF OneAtATime, Works
<1>5. Chromed'
  BY DEF Chromed
<1>6. BrowserKept'
  BY DEF BrowserKept
<1>7. Clean'
  BY DEF Shape, Clean, OneAtATime, Works
<1> QED
  BY <1>1, <1>2, <1>3, <1>4, <1>5, <1>6, <1>7

LEMMA CleanUpKeeps ==
  ASSUME LockInv, NEW p \in Procs, CleanUp(p) PROVE LockInv'
<1> USE LockAssumption DEF LockInv, CleanUp, files, browsers
<1>1. Shape'
  BY DEF Shape, Places1, Hearts, Hush, Unlock, Again
<1>2. Held'
  BY DEF Shape, Held, Holding, Hush, Unlock, Again
<1>3. Hearty'
  BY DEF Shape, Hearty, Holding, Hush, Again
<1>4. OneAtATime'
  BY DEF Shape, OneAtATime, Works, Again
<1>5. Chromed'
  BY DEF Shape, Chromed, Swept, Again
<1>6. BrowserKept'
  <2> SUFFICES ASSUME NEW q \in Procs, at'[q] = "up", q \notin chrome', dir[q] \notin breach
               PROVE  Prefixed(dir[q])
    BY DEF BrowserKept
  <2>1. at[q] = "up" /\ q # p
    BY DEF Shape, Again
  <2>2. CASE q \notin chrome
    BY <2>1, <2>2 DEF BrowserKept
  <2>3. CASE q \in chrome
    <3>1. <<dir[p], dir[q]>> \in Matches
      BY <2>3 DEF Swept
    <3>2. dir[p] # dir[q]
      BY <2>1 DEF OneAtATime, Works, Shape
    <3> QED
      BY <3>1, <3>2 DEF Prefixed, Shape
  <2> QED
    BY <2>2, <2>3
<1>7. Clean'
  BY DEF Shape, Clean, Swept, Again
<1> QED
  BY <1>1, <1>2, <1>3, <1>4, <1>5, <1>6, <1>7

LEMMA BeatReadKeeps ==
  ASSUME LockInv, NEW p \in Procs, BeatRead(p) PROVE LockInv'
<1> USE LockAssumption DEF LockInv, BeatRead, files, browsers
<1>1. Shape'
  BY DEF Shape, Hearts
<1>2. Held'
  BY DEF Held, Holding
<1>3. Hearty'
  BY DEF Hearty, Holding
<1>4. OneAtATime'
  BY DEF OneAtATime, Works
<1>5. Chromed'
  BY DEF Chromed
<1>6. BrowserKept'
  BY DEF BrowserKept
<1>7. Clean'
  BY DEF Clean
<1> QED
  BY <1>1, <1>2, <1>3, <1>4, <1>5, <1>6, <1>7

LEMMA BeatWriteKeeps ==
  ASSUME LockInv, NEW p \in Procs, BeatWrite(p) PROVE LockInv'
<1> USE LockAssumption DEF LockInv, BeatWrite, files, browsers
<1>1. Shape'
  BY DEF Shape, Hearts
<1>2. Held'
  BY DEF Held, Holding, Works
<1>3. Hearty'
  BY DEF Hearty, Holding
<1>4. OneAtATime'
  BY DEF OneAtATime, Works
<1>5. Chromed'
  BY DEF Chromed
<1>6. BrowserKept'
  BY DEF BrowserKept
<1>7. Clean'
  BY DEF Clean
<1> QED
  BY <1>1, <1>2, <1>3, <1>4, <1>5, <1>6, <1>7

LEMMA CloseKeeps ==
  ASSUME LockInv, NEW p \in Procs, Close(p) PROVE LockInv'
<1> USE LockAssumption DEF LockInv, Close, files, browsers
<1>1. Shape'
  BY DEF Shape, Places1, Hearts, Hush, Unlock
<1>2. Held'
  BY DEF Shape, Held, Holding, Hush, Unlock
<1>3. Hearty'
  BY DEF Shape, Hearty, Holding, Hush
<1>4. OneAtATime'
  BY DEF OneAtATime, Works
<1>5. Chromed'
  BY DEF Chromed
<1>6. BrowserKept'
  BY DEF BrowserKept
<1>7. Clean'
  BY DEF Clean
<1> QED
  BY <1>1, <1>2, <1>3, <1>4, <1>5, <1>6, <1>7

LEMMA QuitKeeps ==
  ASSUME LockInv, NEW p \in Procs, Quit(p) PROVE LockInv'
<1> USE LockAssumption DEF LockInv, Quit, files, browsers
<1>1. Shape'
  BY DEF Shape, Places1
<1>2. Held'
  BY DEF Held, Holding
<1>3. Hearty'
  BY DEF Hearty, Holding
<1>4. OneAtATime'
  BY DEF OneAtATime, Works
<1>5. Chromed'
  BY DEF Chromed
<1>6. BrowserKept'
  BY DEF BrowserKept
<1>7. Clean'
  BY DEF Clean
<1> QED
  BY <1>1, <1>2, <1>3, <1>4, <1>5, <1>6, <1>7

LEMMA EndsKeeps ==
  ASSUME LockInv, NEW p \in Procs, Ends(p) PROVE LockInv'
<1> USE LockAssumption DEF LockInv, Ends, files, browsers
<1>1. Shape'
  BY DEF Shape, Places1, Hearts
<1>2. Held'
  BY DEF Shape, Held, Holding
<1>3. Hearty'
  BY DEF Shape, Hearty, Holding
<1>4. OneAtATime'
  BY DEF OneAtATime, Works
<1>5. Chromed'
  BY DEF Chromed
<1>6. BrowserKept'
  BY DEF Shape, BrowserKept
<1>7. Clean'
  BY DEF Shape, Clean, OneAtATime, Works, Chromed
<1> QED
  BY <1>1, <1>2, <1>3, <1>4, <1>5, <1>6, <1>7

LEMMA FreezeKeeps ==
  ASSUME LockInv, NEW p \in Procs, Freeze(p) PROVE LockInv'
<1> USE LockAssumption DEF LockInv, Freeze, files, browsers
<1>1. Shape'
  BY DEF Shape
<1>2. Held'
  BY DEF Held, Holding
<1>3. Hearty'
  BY DEF Hearty, Holding
<1>4. OneAtATime'
  BY DEF OneAtATime, Works
<1>5. Chromed'
  BY DEF Chromed
<1>6. BrowserKept'
  BY DEF BrowserKept
<1>7. Clean'
  BY DEF Clean
<1> QED
  BY <1>1, <1>2, <1>3, <1>4, <1>5, <1>6, <1>7

LEMMA ThawKeeps ==
  ASSUME LockInv, NEW p \in Procs, Thaw(p) PROVE LockInv'
<1> USE LockAssumption DEF LockInv, Thaw, files, browsers
<1>1. Shape'
  BY DEF Shape
<1>2. Held'
  BY DEF Held, Holding
<1>3. Hearty'
  BY DEF Hearty, Holding
<1>4. OneAtATime'
  BY DEF OneAtATime, Works
<1>5. Chromed'
  BY DEF Chromed
<1>6. BrowserKept'
  BY DEF BrowserKept
<1>7. Clean'
  BY DEF Clean
<1> QED
  BY <1>1, <1>2, <1>3, <1>4, <1>5, <1>6, <1>7

LEMMA AgeKeeps ==
  ASSUME LockInv, NEW d \in Dirs, Age(d) PROVE LockInv'
<1> USE LockAssumption DEF LockInv, Age, files, browsers
<1>1. Shape'
  BY DEF Shape
<1>2. Held'
  BY DEF Held, Holding, Beats, Awake
<1>3. Hearty'
  BY DEF Hearty, Holding
<1>4. OneAtATime'
  BY DEF OneAtATime, Works
<1>5. Chromed'
  BY DEF Chromed
<1>6. BrowserKept'
  BY DEF BrowserKept
<1>7. Clean'
  BY DEF Clean
<1> QED
  BY <1>1, <1>2, <1>3, <1>4, <1>5, <1>6, <1>7
-----------------------------------------------------------------------------
LEMMA LockStep == ASSUME LockInv, [LockNext]_lockVars PROVE LockInv'
<1>1. CASE UNCHANGED lockVars
  BY <1>1 DEF lockVars, files, browsers, LockInv, Shape, Held, Holding, Hearty, OneAtATime, Works, Chromed,
              BrowserKept, Clean
<1>2. ASSUME NEW p \in Procs, \E d \in Dirs : Spawned(p, d) PROVE LockInv'
  BY <1>2, SpawnedKeeps
<1>3. ASSUME NEW p \in Procs, Guard(p) \/ Sweep(p) \/ Claim(p) \/ ClaimFails(p) \/ Up(p) PROVE LockInv'
  BY <1>3, GuardKeeps, SweepKeeps, ClaimKeeps, ClaimFailsKeeps, UpKeeps
<1>4. ASSUME NEW p \in Procs, LaunchDies(p) \/ CleanUp(p) \/ BeatRead(p) \/ BeatWrite(p) PROVE LockInv'
  BY <1>4, LaunchDiesKeeps, CleanUpKeeps, BeatReadKeeps, BeatWriteKeeps
<1>5. ASSUME NEW p \in Procs, Close(p) \/ Quit(p) \/ Ends(p) \/ Freeze(p) \/ Thaw(p) PROVE LockInv'
  BY <1>5, CloseKeeps, QuitKeeps, EndsKeeps, FreezeKeeps, ThawKeeps
<1>6. ASSUME NEW d \in Dirs, Age(d) PROVE LockInv'
  BY <1>6, AgeKeeps
<1> QED
  BY <1>1, <1>2, <1>3, <1>4, <1>5, <1>6 DEF LockNext

(* The argument of all of the following: the invariant holds of every state. *)
THEOREM LockInvariant == LockSpec => []LockInv
<1> QED
  BY LockInitial, LockStep, PTL DEF LockSpec

(* However many runs there are and whatever is launched, retried, closed or  *)
(* killed: two are at work on one directory only after a breach of the kinds *)
(* the model records, all of which the code admits.                          *)
THEOREM LockSafe == LockSpec => []OneAtATime
<1>1. LockInv => OneAtATime
  BY DEF LockInv
<1> QED
  BY <1>1, LockInvariant, PTL

(* No other run's sweep takes the Chrome of a browser that is up, on a       *)
(* directory without a breach and whose path none is the beginning of.       *)
THEOREM BrowsersKept == LockSpec => []BrowserKept
<1>1. LockInv => BrowserKept
  BY DEF LockInv
<1> QED
  BY <1>1, LockInvariant, PTL

(* A Chrome is launched into a directory only after what died there is gone. *)
THEOREM NoOrphans == LockSpec => []NoOrphanBeside
<1>1. LockInv => NoOrphanBeside
  BY DEF LockInv, Clean, NoOrphanBeside
<1> QED
  BY <1>1, LockInvariant, PTL

(* Only a process at work keeps a lock fresh.                                *)
THEOREM BeatsEnd == LockSpec => []NoIdleBeat
<1>1. LockInv => NoIdleBeat
  BY DEF LockInv, Hearty, Holding, Shape, NoIdleBeat, Beats, Works
<1> QED
  BY <1>1, LockInvariant, PTL
-----------------------------------------------------------------------------
(* The watchdogs.                                                            *)

\* The shape of the watchdogs' variables.
DogsShape == /\ gen \in Gens /\ driver \in {0, gen} /\ (main = "closing" => gen < Generations)
             /\ probe \in [Gens -> {"none", "wait", "ask", "kill", "forget"}]
             /\ asked \in [Gens -> 0..Generations]
             /\ strikes \in [Gens -> 0..KillAfter]
             /\ fails \in Nat

(* Until a probe has outlived its browser there is one thread, that of the   *)
(* browser at hand; while it asks, the shared count is below the limit and   *)
(* not above what this browser has failed, and a pause has reset it.         *)
OneProbe == ~crossed => \A g \in Gens :
              /\ g # gen => probe[g] = "none"
              /\ probe[g] = "ask" => asked[g] = gen
              /\ probe[g] \in {"wait", "ask"} => fails < KillAfter /\ fails <= strikes[gen]
              /\ probe[g] = "ask" /\ pause => fails = 0

\* The inductive invariant.
DogsInv == DogsShape /\ OneProbe

\* At first there is no probe.
LEMMA DogsInitial == DogsInit => DogsInv
BY WatchdogsAssumption DEF DogsInit, DogsInv, DogsShape, OneProbe, Gens

\* Every step keeps it.
LEMMA DogsStep == ASSUME DogsInv, [DogsNext]_dogsVars PROVE DogsInv'
<1> USE WatchdogsAssumption DEF DogsInv, DogsShape, OneProbe, Gens, browser, flags, threads
<1>1. CASE Command \/ Returns \/ LongStep \/ LongEnds \/ EaseEnds
  BY <1>1, SMTT(30) DEF Command, Returns, LongStep, LongEnds, EaseEnds
<1>2. CASE Rotate \/ Rotated
  <2>1. DogsShape'
    BY <1>2 DEF Rotate, Rotated
  <2>2. ASSUME ~crossed', NEW h \in Gens
        PROVE  /\ h # gen' => probe'[h] = "none"
               /\ probe'[h] = "ask" => asked'[h] = gen'
               /\ probe'[h] \in {"wait", "ask"} => fails' < KillAfter /\ fails' <= strikes'[gen']
               /\ probe'[h] = "ask" /\ pause' => fails' = 0
    BY <1>2, <2>2, SMTT(30) DEF Rotate, Rotated
  <2> QED
    BY <2>1, <2>2
<1>3. CASE Restart \/ Leave
  BY <1>3, SMTT(30) DEF Restart, Leave, Stopping
<1>4. CASE Launch
  <2>1. DogsShape'
    BY <1>4 DEF Launch
  <2>2. ASSUME ~crossed', NEW h \in Gens
        PROVE  /\ h # gen' => probe'[h] = "none"
               /\ probe'[h] = "ask" => asked'[h] = gen'
               /\ probe'[h] \in {"wait", "ask"} => fails' < KillAfter /\ fails' <= strikes'[gen']
               /\ probe'[h] = "ask" /\ pause' => fails' = 0
    BY <1>4, <2>2 DEF Launch
  <2> QED
    BY <2>1, <2>2
<1>5. CASE Started
  BY <1>5 DEF Started
<1>6. CASE StartFails \/ Left
  <2>1. DogsShape'
    BY <1>6, SMTT(30) DEF StartFails, Left
  <2> QED
    BY <1>6, <2>1, SMTT(30) DEF StartFails, Left
<1>7. CASE Stall \/ DogBites \/ Wedge \/ Dies
  <2>1. UNCHANGED <<main, driver, gen, pause, fails, probe, asked, strikes, crossed>>
    BY <1>7 DEF Stall, DogBites, Wedge, Dies
  <2> QED
    BY <2>1
<1>8. ASSUME NEW g \in Gens, Ask(g) PROVE DogsInv'
  <2>1. DogsShape'
    <3>1. driver \in 0..Generations
      OBVIOUS
    <3>2. probe' \in [Gens -> {"none", "wait", "ask", "kill", "forget"}]
      <4>1. CASE probe' = [probe EXCEPT ![g] = "none"]
        BY <4>1
      <4>2. CASE probe' = [probe EXCEPT ![g] = "ask"]
        BY <4>2
      <4> QED
        BY <1>8, <4>1, <4>2 DEF Ask
    <3>3. asked' \in [Gens -> 0..Generations]
      <4>1. asked' = asked \/ asked' = [asked EXCEPT ![g] = driver]
        BY <1>8 DEF Ask
      <4> QED
        BY <3>1, <4>1
    <3> QED
      BY <1>8, <3>2, <3>3 DEF Ask
  <2>2. ASSUME ~crossed', NEW h \in Gens
        PROVE  /\ h # gen' => probe'[h] = "none"
               /\ probe'[h] = "ask" => asked'[h] = gen'
               /\ probe'[h] \in {"wait", "ask"} => fails' < KillAfter /\ fails' <= strikes'[gen']
               /\ probe'[h] = "ask" /\ pause' => fails' = 0
    BY <1>8, <2>2, SMTT(30) DEF Ask
  <2> QED
    BY <2>1, <2>2
<1>9. ASSUME NEW g \in Gens, Answers(g) PROVE DogsInv'
  <2>1. DogsShape'
    <3>1. strikes' = [h \in Gens |-> IF h = asked[g] THEN 0 ELSE strikes[h]]
      BY <1>9 DEF Answers
    <3>2. strikes' \in [Gens -> 0..KillAfter]
      BY <3>1
    <3> QED
      BY <1>9, <3>2 DEF Answers, AskAgain
  <2>2. ASSUME ~crossed', NEW h \in Gens
        PROVE  /\ h # gen' => probe'[h] = "none"
               /\ probe'[h] = "ask" => asked'[h] = gen'
               /\ probe'[h] \in {"wait", "ask"} => fails' < KillAfter /\ fails' <= strikes'[gen']
               /\ probe'[h] = "ask" /\ pause' => fails' = 0
    BY <1>9, <2>2 DEF Answers, AskAgain
  <2> QED
    BY <2>1, <2>2
<1>10. ASSUME NEW g \in Gens, Fails(g) PROVE DogsInv'
  <2>1. DogsShape'
    <3>1. strikes' \in [Gens -> 0..KillAfter]
      <4>1. CASE asked[g] = 0
        <5>1. strikes' = strikes
          BY <1>10, <4>1 DEF Fails
        <5> QED
          BY <5>1
      <4>2. CASE asked[g] \in Gens
        BY <1>10, <4>2 DEF Fails
      <4> QED
        BY <1>10, <4>1, <4>2
    <3> QED
      BY <1>10, <3>1, SMTT(30) DEF Fails, AskAgain
  <2>2. ASSUME ~crossed PROVE g = gen /\ asked[g] = gen /\ fails < KillAfter /\ fails <= strikes[gen]
    BY <1>10, <2>2 DEF Fails
  <2>3. ASSUME ~crossed PROVE strikes'[gen] = KillAfter \/ fails' <= strikes'[gen]
    BY <1>10, <2>2, <2>3 DEF Fails
  <2>4. ASSUME ~crossed, NEW h \in Gens
        PROVE  /\ h # gen' => probe'[h] = "none"
               /\ probe'[h] # "ask"
               /\ probe'[h] = "wait" => fails' < KillAfter /\ fails' <= strikes'[gen']
    BY <1>10, <2>2, <2>3, <2>4, SMTT(30) DEF Fails, AskAgain
  <2> QED
    BY <1>10, <2>1, <2>4 DEF Fails
<1>11. ASSUME NEW g \in Gens, Kill(g) PROVE DogsInv'
  BY <1>11 DEF Kill
<1>12. ASSUME NEW g \in Gens, Forget(g) PROVE DogsInv'
  BY <1>12 DEF Forget
<1>13. CASE UNCHANGED dogsVars
  BY <1>13 DEF dogsVars
<1> QED
  BY <1>1, <1>2, <1>3, <1>4, <1>5, <1>6, <1>7, <1>8, <1>9, <1>10, <1>11, <1>12, <1>13 DEF DogsNext

(* A probe that gives a browser up to be killed has seen as many failures   *)
(* of that browser as the limit says, and not while the run had paused it:  *)
(* for any number of browsers in a run and any limit of at least two. With  *)
(* a limit of one the first failure would do, paused or not.                *)
THEOREM ProbesStrikeOut == DogsSpec => StruckOut
<1>1. ASSUME DogsInv, [DogsNext]_dogsVars, NEW g \in Gens, probe[g] = "ask", probe'[g] = "kill", ~crossed
      PROVE  driver = 0 \/ (strikes'[driver] = KillAfter /\ ~pause)
  <2> USE WatchdogsAssumption DEF DogsInv, DogsShape, OneProbe, Gens
  <2>1. Fails(g)
    <3> USE DEF browser, flags, threads
    <3>1. ASSUME NEW h \in Gens, Ask(h) \/ Answers(h) \/ Kill(h) \/ Forget(h) PROVE FALSE
      BY <1>1, <3>1 DEF Ask, Answers, AskAgain, Kill, Forget
    <3>2. ASSUME NEW h \in Gens, Fails(h) PROVE h = g
      BY <1>1, <3>2 DEF Fails, AskAgain
    <3>3. ~(Command \/ Returns \/ LongStep \/ LongEnds \/ EaseEnds \/ Rotate \/ Rotated \/ Launch \/ StartFails
             \/ Stall \/ DogBites \/ Wedge \/ Dies)
      BY <1>1 DEF Command, Returns, LongStep, LongEnds, EaseEnds, Rotate, Rotated, Launch, StartFails, Stall,
                  DogBites, Wedge, Dies
    <3>4. ~(Restart \/ Leave \/ Started \/ Left)
      BY <1>1 DEF Restart, Leave, Stopping, Started, Left
    <3>5. ~UNCHANGED dogsVars
      BY <1>1 DEF dogsVars
    <3> QED
      BY <1>1, <3>1, <3>2, <3>3, <3>4, <3>5 DEF DogsNext
  <2>2. g = gen /\ asked[g] = gen /\ fails <= strikes[gen] /\ fails < KillAfter
    BY <1>1, <2>1 DEF Fails
  <2>3. fails + 1 >= KillAfter
    BY <1>1, <2>1 DEF Fails, AskAgain
  <2>4. strikes'[gen] = KillAfter
    BY <1>1, <2>1, <2>2, <2>3 DEF Fails
  <2>5. ~pause
    BY <1>1, <2>2, <2>3
  <2> QED
    BY <1>1, <2>4, <2>5
<1>2. ASSUME DogsInv, [DogsNext]_dogsVars
      PROVE  [\A g \in Gens : probe[g] = "ask" /\ probe'[g] = "kill" /\ ~crossed
                  => driver = 0 \/ (strikes'[driver] = KillAfter /\ ~pause)]_dogsVars
  BY <1>1, <1>2
<1> QED
  BY <1>2, DogsInitial, DogsStep, PTL DEF DogsSpec, StruckOut
-----------------------------------------------------------------------------
(* The log.  The inductive invariant says on which way a line still is.      *)

\* A request for recent lines.
Requests == [since : Nat, got : (SUBSET Entries) \cup {Nothing}]

\* An entry that was numbered since the last restart.
Belongs(e, n, c) == e.line \in 1..n /\ e.seq \in 1..c /\ e.line - e.seq = n - c
\* And it has the number of now.
Current(e) == Belongs(e, lines, counter)

\* The types.
LogTypes == /\ {counter, lastSeq, stale, lines} \subseteq Nat /\ counter <= lines /\ lines <= MaxLines
            /\ ring \in Seq(Entries) /\ Len(ring) <= Ring
            /\ hand \in [Threads -> Entries \cup {Nothing}]
            /\ src \in {"shut", "opening", "open"}
            /\ IF src = "open" THEN queue \in Seq(Entries) /\ Len(queue) <= QueueCap ELSE queue = Nothing
            /\ asks \subseteq Requests

\* What is in the ring, in a hand and in the queue was numbered since the last
\* restart, and a line is in one hand or once in the queue.
Numbered == /\ \A e \in ToSet(ring) \cup InHand : Current(e)
            /\ \A t, u \in Threads : hand[t] # Nothing /\ hand[u] # Nothing /\ hand[t].line = hand[u].line => t = u
            /\ src = "open" => /\ \A i \in 1..Len(queue) : Current(queue[i])
                               /\ \A i, j \in 1..Len(queue) : queue[i].line = queue[j].line => i = j
                               /\ \A i \in 1..Len(queue) : queue[i].line \notin LinesOf(InHand)
            /\ src = "opening" => LinesOf(InHand) \subseteq excused
            /\ \A l \in Lines : l > lines => shown[l] = 0

\* What an answer brought: the ring's lines above since, or lines from before a
\* restart that are excused.
Replies == \A a \in asks :
  /\ a.since <= lastSeq
  /\ a.got # Nothing => \A f \in a.got :
       /\ f.seq > a.since
       /\ \/ Current(f)
          \/ f.line \in excused /\ f.line <= lines - counter /\ f.seq <= stale
       /\ \A e \in ToSet(ring) : e.seq <= f.seq => e \in a.got \/ e.seq <= a.since \/ f.seq <= stale

\* The last number the page has is one given out, or from before a restart.
SeqInv == lastSeq <= counter \/ lastSeq <= stale

\* The ways on which a line may still reach the page.
Handed(l) == src = "open" /\ (l \in LinesOf(InHand) \/ \E i \in 1..Len(queue) : queue[i].line = l)
\* A request that will bring the line.
Sent(l, a) == IF a.got = Nothing THEN \E e \in ToSet(ring) : e.line = l /\ e.seq > a.since
              ELSE l \in LinesOf(a.got)

\* A line is shown, or on exactly one way, or waits in the ring for the page to
\* open the stream again.
Waits(l) == src = "shut" /\ \E e \in ToSet(ring) : e.line = l /\ e.seq > lastSeq /\ e.seq > stale

\* What is known of a line that is not excused.
LineOK(l) ==
  /\ shown[l] = 1 => /\ ~Handed(l) /\ \A a \in asks : ~Sent(l, a)
                     /\ \A e \in ToSet(ring) : e.line = l => e.seq <= lastSeq
  /\ shown[l] # 1 => /\ shown[l] = 0
                     /\ l \in LinesOf(ToSet(ring))
                     /\ Handed(l) => \A a \in asks : ~Sent(l, a)
                     /\ \A a, b \in asks : Sent(l, a) /\ Sent(l, b) => a = b
                     /\ Handed(l) \/ (\E a \in asks : Sent(l, a)) \/ Waits(l)

\* The inductive invariant.
LogInv == LogTypes /\ Numbered /\ Replies /\ SeqInv /\ \A l \in (1..lines) \ excused : LineOK(l)

\* A set of bounded naturals has a highest element.
LEMMA NatMax ==
  ASSUME NEW S, S \subseteq Nat, S # {}, NEW bound \in Nat, \A n \in S : n <= bound
  PROVE  Highest(S) \in S /\ \A n \in S : n <= Highest(S)
<1> DEFINE above == {b \in Nat : \A n \in S : n <= b}
<1>1. \E m \in above : \A n \in above : m <= n
  <2>1. above # {} /\ above \subseteq Nat
    OBVIOUS
  <2> QED
    BY <2>1, NatMin
<1>2. PICK m \in above : \A n \in above : m <= n
  BY <1>1
<1>3. m \in S
  <2> SUFFICES ASSUME m \notin S PROVE FALSE
    OBVIOUS
  <2>1. \A n \in S : n <= m - 1 /\ m - 1 \in Nat
    OBVIOUS
  <2>2. m - 1 \in above
    BY <2>1
  <2> QED
    BY <1>2, <2>2
<1>4. \E n \in S : \A k \in S : k <= n
  BY <1>3
<1> QED
  BY <1>4 DEF Highest

\* What the ends of a sequence say of its elements.
LEMMA SetOfSeq ==
  ASSUME NEW S, NEW s \in Seq(S)
  PROVE  /\ ToSet(s) \subseteq S /\ ToSet(s) = {s[i] : i \in 1..Len(s)}
         /\ \A e \in S : Append(s, e) \in Seq(S) /\ ToSet(Append(s, e)) = ToSet(s) \cup {e}
         /\ s # << >> => /\ Tail(s) \in Seq(S) /\ s[1] \in S /\ ToSet(s) = ToSet(Tail(s)) \cup {s[1]}
<1>1. ToSet(s) = {s[i] : i \in 1..Len(s)} /\ ToSet(s) \subseteq S
  BY DEF ToSet
<1>2. ASSUME NEW e \in S PROVE Append(s, e) \in Seq(S) /\ ToSet(Append(s, e)) = ToSet(s) \cup {e}
  <2>1. Append(s, e) \in Seq(S) /\ Len(Append(s, e)) = Len(s) + 1
    OBVIOUS
  <2>2. \A i \in 1..Len(s) + 1 : Append(s, e)[i] = IF i = Len(s) + 1 THEN e ELSE s[i]
    OBVIOUS
  <2>3. ToSet(Append(s, e)) = {Append(s, e)[i] : i \in 1..Len(s) + 1}
    BY <2>1 DEF ToSet
  <2>4. Len(s) \in Nat
    OBVIOUS
  <2> QED
    BY <1>1, <2>1, <2>2, <2>3, <2>4
<1>3. ASSUME s # << >> PROVE /\ Tail(s) \in Seq(S) /\ s[1] \in S /\ ToSet(s) = ToSet(Tail(s)) \cup {s[1]}
  <2>1. Tail(s) \in Seq(S) /\ Len(Tail(s)) = Len(s) - 1 /\ Len(s) \in Nat \ {0} /\ s[1] \in S
    BY <1>3
  <2>2. \A i \in 1..Len(s) - 1 : Tail(s)[i] = s[i + 1]
    BY <1>3
  <2>3. ToSet(Tail(s)) = {Tail(s)[i] : i \in 1..Len(s) - 1}
    <3>1. DOMAIN Tail(s) = 1..Len(s) - 1
      BY <2>1
    <3> QED
      BY <3>1 DEF ToSet
  <2>4. \A i \in 1..Len(s) : i = 1 \/ (i - 1 \in 1..Len(s) - 1 /\ Tail(s)[i - 1] = s[i])
    BY <2>1, <2>2
  <2>5. ToSet(s) \subseteq ToSet(Tail(s)) \cup {s[1]}
    BY <1>1, <2>3, <2>4, SMTT(30)
  <2>6. ToSet(Tail(s)) \cup {s[1]} \subseteq ToSet(s)
    BY <1>1, <2>1, <2>2, <2>3
  <2> QED
    BY <2>1, <2>5, <2>6
<1> QED
  BY <1>1, <1>2, <1>3

\* The entry a thread numbers, and what the ring keeps.
LEMMA NumberFacts ==
  ASSUME LogInv, NEW t \in Threads, Number(t)
  PROVE  LET e == [line |-> lines + 1, seq |-> counter + 1]
         IN  /\ e \in Entries /\ e # Nothing /\ lines' = lines + 1 /\ counter' = counter + 1 /\ lines < MaxLines
             /\ hand[t] = Nothing /\ hand' = [hand EXCEPT ![t] = e]
             /\ ring' \in Seq(Entries) /\ Len(ring') <= Ring
             /\ ToSet(ring') \subseteq ToSet(ring) \cup {e} /\ e \in ToSet(ring')
             /\ \A f \in ToSet(ring) : f \in ToSet(ring') \/ shown[f.line] # 0 \/ f.line \in excused'
             /\ excused \subseteq excused'
             /\ lines + 1 \notin excused' => ~Opening /\ (src = "shut" => counter + 1 > stale)
             /\ UNCHANGED <<queue, src, asks, lastSeq, shown, stale>>
<1> DEFINE e == [line |-> lines + 1, seq |-> counter + 1]
           gone == IF Len(ring) = Ring THEN {ring[1].line} ELSE {}
           kept == IF gone = {} THEN ring ELSE Tail(ring)
<1>1. /\ hand[t] = Nothing /\ lines < MaxLines /\ lines' = lines + 1 /\ counter' = counter + 1
      /\ hand' = [hand EXCEPT ![t] = e] /\ ring' = Append(kept, e)
      /\ excused' = excused \cup {l \in gone : shown[l] = 0}
              \cup (IF Opening \/ (src = "shut" /\ e.seq <= stale) THEN {e.line} ELSE {})
      /\ UNCHANGED <<queue, src, asks, lastSeq, shown, stale>>
  BY DEF Number, page
<1>2. e \in Entries /\ e # Nothing
  BY NothingAssumption DEF LogInv, LogTypes, Entries
<1>3. ring \in Seq(Entries) /\ Len(ring) <= Ring /\ Ring \in Nat \ {0} /\ Len(ring) \in Nat
  BY LogAssumption DEF LogInv, LogTypes
<1>4. /\ kept \in Seq(Entries) /\ Len(kept) < Ring /\ Len(kept) \in Nat
      /\ ToSet(kept) \subseteq ToSet(ring)
      /\ \A f \in ToSet(ring) : f \in ToSet(kept) \/ f.line \in gone
  <2>1. CASE Len(ring) = Ring
    <3>1. ring # << >> /\ kept = Tail(ring) /\ gone = {ring[1].line}
      BY <1>3, <2>1
    <3>2. Tail(ring) \in Seq(Entries) /\ ToSet(ring) = ToSet(Tail(ring)) \cup {ring[1]}
      BY <1>3, <3>1, SetOfSeq
    <3>3. Len(Tail(ring)) = Len(ring) - 1
      BY <1>3, <3>1
    <3> QED
      BY <1>3, <2>1, <3>1, <3>2, <3>3
  <2>2. CASE Len(ring) # Ring
    BY <1>3, <2>2
  <2> QED
    BY <2>1, <2>2
<1> HIDE DEF kept
<1>5. ring' \in Seq(Entries) /\ ToSet(ring') = ToSet(kept) \cup {e}
  BY <1>1, <1>2, <1>4, SetOfSeq
<1>6. Len(ring') <= Ring
  <2>1. Len(ring') = Len(kept) + 1
    BY <1>1, <1>2, <1>4
  <2> QED
    BY <1>3, <1>4, <2>1
<1>7. \A f \in ToSet(ring) : f \in ToSet(ring') \/ shown[f.line] # 0 \/ f.line \in excused'
  BY <1>1, <1>4, <1>5
<1>8. lines + 1 \notin excused' => ~Opening /\ (src = "shut" => counter + 1 > stale)
  <2>1. counter \in Nat /\ stale \in Nat
    BY DEF LogInv, LogTypes
  <2> QED
    BY <1>1, <2>1
<1>9. ToSet(ring') \subseteq ToSet(ring) \cup {e} /\ e \in ToSet(ring')
  BY <1>4, <1>5
<1> QED
  BY <1>1, <1>2, <1>5, <1>6, <1>7, <1>8, <1>9

\* A line is numbered: what is known stays known.
LEMMA NumberTypes ==
  ASSUME LogInv, NEW t \in Threads, Number(t) PROVE LogTypes' /\ Numbered' /\ Replies' /\ SeqInv'
<1> DEFINE e == [line |-> lines + 1, seq |-> counter + 1]
<1>1. /\ e \in Entries /\ e # Nothing /\ lines' = lines + 1 /\ counter' = counter + 1 /\ lines < MaxLines
      /\ hand[t] = Nothing /\ hand' = [hand EXCEPT ![t] = e]
      /\ ring' \in Seq(Entries) /\ Len(ring') <= Ring
      /\ ToSet(ring') \subseteq ToSet(ring) \cup {e}
      /\ excused \subseteq excused'
      /\ lines + 1 \notin excused' => ~Opening
      /\ UNCHANGED <<queue, src, asks, lastSeq, shown, stale>>
  BY NumberFacts
<1>2. counter \in Nat /\ lastSeq \in Nat /\ stale \in Nat /\ lines \in Nat /\ MaxLines \in Nat
  BY LogAssumption DEF LogInv, LogTypes
<1>3. LogTypes'
  BY <1>1, <1>2 DEF LogInv, LogTypes
<1>3a. counter <= lines /\ e.line = lines + 1 /\ e.seq = counter + 1
  BY DEF LogInv, LogTypes
<1> HIDE DEF e
<1> DEFINE Still(f) == Belongs(f, lines', counter')
<1>4. ASSUME NEW f, Current(f) PROVE Still(f) /\ f.line # e.line /\ f.seq <= counter
  <2>1. f.line \in 1..lines /\ f.seq \in 1..counter /\ f.line - f.seq = lines - counter
    BY <1>4 DEF Current, Belongs
  <2>2. f.line \in Int /\ f.seq \in Int /\ f.line <= lines /\ f.seq <= counter /\ 1 <= f.line /\ 1 <= f.seq
    BY <1>2, <2>1
  <2>3. lines' - counter' = lines - counter /\ lines' = lines + 1 /\ counter' = counter + 1
    BY <1>1, <1>2
  <2>4. Still(f)
    BY <1>2, <2>1, <2>2, <2>3 DEF Belongs
  <2> QED
    BY <1>2, <1>3a, <2>2, <2>4
<1>5. Still(e)
  BY <1>1, <1>2, <1>3a DEF Belongs
<1> HIDE DEF Still
<1>6. InHand' \subseteq InHand \cup {e}
  BY <1>1 DEF InHand, LogInv, LogTypes
<1>7. \A f \in ToSet(ring)' \cup InHand' : Still(f)
  BY <1>1, <1>4, <1>5, <1>6 DEF LogInv, Numbered
<1>8. ASSUME NEW u \in Threads, NEW v \in Threads, hand'[u] # Nothing, hand'[v] # Nothing, hand'[u].line = hand'[v].line
      PROVE  u = v
  <2>1. \A w \in Threads : w # t => hand'[w] = hand[w] /\ (hand[w] # Nothing => hand[w] \in InHand)
    BY <1>1 DEF InHand, LogInv, LogTypes
  <2>2. hand'[t] = e
    BY <1>1 DEF LogInv, LogTypes
  <2>3. \A w \in Threads : w # t /\ hand[w] # Nothing => hand[w].line # e.line
    BY <1>4, <2>1 DEF LogInv, Numbered
  <2> QED
    BY <1>8, <2>1, <2>2, <2>3 DEF LogInv, Numbered
<1>9. src' = "open" => /\ \A i \in 1..Len(queue') : Still(queue'[i])
                       /\ \A i, j \in 1..Len(queue') : queue'[i].line = queue'[j].line => i = j
                       /\ \A i \in 1..Len(queue') : queue'[i].line \notin LinesOf(InHand')
  BY <1>1, <1>4, <1>5, <1>6 DEF LogInv, Numbered, LinesOf
<1>10. src' = "opening" => LinesOf(InHand') \subseteq excused'
  BY <1>1, <1>3a, <1>6 DEF LogInv, Numbered, LinesOf, Opening
<1>11. \A l \in Lines : l > lines' => shown'[l] = 0
  BY <1>1, <1>2 DEF LogInv, Numbered, Lines
<1>12. Replies'
  <2> SUFFICES ASSUME NEW a \in asks
               PROVE  /\ a.since <= lastSeq
                      /\ a.got # Nothing => \A f \in a.got :
                           /\ f.seq > a.since
                           /\ Still(f) \/ (f.line \in excused' /\ f.line <= lines' - counter' /\ f.seq <= stale)
                           /\ \A g \in ToSet(ring') : g.seq <= f.seq => g \in a.got \/ g.seq <= a.since \/ f.seq <= stale
    BY <1>1 DEF Replies, Current, Still
  <2>1. a.since <= lastSeq
    BY DEF LogInv, Replies
  <2>2. ASSUME a.got # Nothing, NEW f \in a.got
        PROVE  /\ f.seq > a.since
               /\ Still(f) \/ (f.line \in excused' /\ f.line <= lines' - counter' /\ f.seq <= stale)
               /\ \A g \in ToSet(ring') : g.seq <= f.seq => g \in a.got \/ g.seq <= a.since \/ f.seq <= stale
    <3>1. /\ f.seq > a.since
          /\ Current(f) \/ (f.line \in excused /\ f.line <= lines - counter /\ f.seq <= stale)
          /\ \A g \in ToSet(ring) : g.seq <= f.seq => g \in a.got \/ g.seq <= a.since \/ f.seq <= stale
      BY <2>2 DEF LogInv, Replies
    <3>2. lines' - counter' = lines - counter
      BY <1>1, <1>2
    <3>3. e.seq <= f.seq => f.seq <= stale
      <4>1. CASE Current(f)
        <5>1. f.seq <= counter /\ f.seq \in Int
          BY <1>2, <1>4, <4>1 DEF Current, Belongs
        <5> QED
          BY <1>2, <1>3a, <5>1
      <4>2. CASE ~Current(f)
        BY <3>1, <4>2
      <4> QED
        BY <4>1, <4>2
    <3> QED
      BY <1>1, <1>4, <3>1, <3>2, <3>3
  <2> QED
    BY <2>1, <2>2
<1>13. SeqInv'
  BY <1>1, <1>2 DEF LogInv, SeqInv
<1> QED
  BY <1>3, <1>7, <1>8, <1>9, <1>10, <1>11, <1>12, <1>13 DEF Numbered, Current, Still

\* Nothing that is known has a number to come.
LEMMA NoneAhead ==
  ASSUME LogInv
  PROVE  /\ \A a \in asks : a.got # Nothing => \A f \in a.got : f.line <= lines
         /\ \A f \in ToSet(ring) \cup InHand : f.line <= lines
         /\ src = "open" => \A i \in 1..Len(queue) : queue[i].line <= lines
<1>1. counter \in Nat /\ lines \in Nat /\ counter <= lines
  BY DEF LogInv, LogTypes
<1>2. ASSUME NEW f, Current(f) PROVE f.line <= lines
  BY <1>1, <1>2 DEF Current, Belongs
<1>3. ASSUME NEW a \in asks, a.got # Nothing, NEW f \in a.got PROVE f.line <= lines
  <2>1. CASE Current(f)
    BY <1>2, <2>1
  <2>2. CASE f.line <= lines - counter
    <3>1. f.line \in Nat
      BY <1>3 DEF LogInv, LogTypes, Requests, Entries
    <3> QED
      BY <1>1, <2>2, <3>1
  <2> QED
    BY <1>3, <2>1, <2>2 DEF LogInv, Replies
<1> QED
  BY <1>2, <1>3 DEF LogInv, Numbered

\* A line is numbered: it is in a hand, and where it may go; the others are
\* where they were.
LEMMA NumberLines ==
  ASSUME LogInv, NEW t \in Threads, Number(t), NEW l \in (1..lines') \ excused' PROVE LineOK(l)'
<1> DEFINE e == [line |-> lines + 1, seq |-> counter + 1]
<1>1. /\ e # Nothing /\ lines' = lines + 1 /\ lines < MaxLines
      /\ hand[t] = Nothing /\ hand' = [hand EXCEPT ![t] = e]
      /\ ToSet(ring') \subseteq ToSet(ring) \cup {e} /\ e \in ToSet(ring')
      /\ \A f \in ToSet(ring) : f \in ToSet(ring') \/ shown[f.line] # 0 \/ f.line \in excused'
      /\ excused \subseteq excused'
      /\ lines + 1 \notin excused' => ~Opening /\ (src = "shut" => counter + 1 > stale)
      /\ UNCHANGED <<queue, src, asks, lastSeq, shown, stale>>
  BY NumberFacts
<1>2. counter \in Nat /\ lastSeq \in Nat /\ stale \in Nat /\ lines \in Nat /\ MaxLines \in Nat
  BY LogAssumption DEF LogInv, LogTypes
<1>3. e.line = lines + 1 /\ e.seq = counter + 1
  OBVIOUS
<1> HIDE DEF e
<1>4. InHand' = InHand \cup {e}
  <2>1. hand' \in [Threads -> Entries \cup {Nothing, e}] /\ hand'[t] = e /\ \A u \in Threads : u # t => hand'[u] = hand[u]
    BY <1>1 DEF LogInv, LogTypes
  <2> QED
    BY <1>1, <2>1 DEF InHand
<1>5. CASE l = lines + 1
  <2>1. shown'[l] = 0 /\ l \in LinesOf(ToSet(ring'))
    <3>1. l \in Lines /\ l > lines
      BY <1>1, <1>2, <1>5 DEF Lines
    <3> QED
      BY <1>1, <1>3, <1>5, <3>1 DEF LogInv, Numbered, LinesOf
  <2>2. ASSUME NEW a \in asks PROVE ~Sent(l, a)'
    <3>1. a.got # Nothing
      BY <1>1, <1>5 DEF Opening
    <3>2. \A f \in a.got : f.line # l
      BY <1>2, <1>5, <3>1, NoneAhead
    <3> QED
      BY <3>1, <3>2 DEF Sent, LinesOf
  <2>3. src = "open" => Handed(l)'
    BY <1>1, <1>3, <1>4, <1>5 DEF Handed, LinesOf
  <2>4. src = "shut" => Waits(l)'
    <3>1. src = "shut" => e.seq > lastSeq /\ e.seq > stale
      BY <1>1, <1>2, <1>3, <1>5 DEF LogInv, SeqInv
    <3> QED
      BY <1>1, <1>3, <1>5, <3>1 DEF Waits
  <2>5. src \in {"shut", "open"}
    BY <1>1, <1>5 DEF Opening, LogInv, LogTypes
  <2> QED
    BY <1>1, <2>1, <2>2, <2>3, <2>4, <2>5 DEF LineOK
<1>6. CASE l # lines + 1
  <2>1. l \in 1..lines /\ l \notin excused /\ LineOK(l) /\ e.line # l
    BY <1>1, <1>2, <1>3, <1>6 DEF LogInv
  <2>2. Handed(l)' <=> Handed(l)
    BY <1>1, <1>4, <2>1 DEF Handed, LinesOf
  <2>3. \A f \in ToSet(ring') : f.line = l => f \in ToSet(ring)
    BY <1>1, <2>1
  <2>4. \A a : Sent(l, a)' => Sent(l, a)
    BY <2>3 DEF Sent, LinesOf
  <2>5. CASE shown[l] = 1
    BY <1>1, <2>1, <2>2, <2>3, <2>4, <2>5 DEF LineOK
  <2>6. CASE shown[l] # 1
    <3>1. shown[l] = 0 /\ \A f \in ToSet(ring) : f.line = l => f \in ToSet(ring')
      BY <1>1, <2>1, <2>6 DEF LineOK
    <3>2. \A a : Sent(l, a) => Sent(l, a)'
      BY <3>1 DEF Sent, LinesOf
    <3>3. Waits(l) => Waits(l)'
      BY <1>1, <3>1 DEF Waits
    <3>4. l \in LinesOf(ToSet(ring'))
      BY <2>1, <2>6, <3>1 DEF LineOK, LinesOf
    <3> QED
      BY <1>1, <2>1, <2>2, <2>4, <2>6, <3>1, <3>2, <3>3, <3>4 DEF LineOK
  <2> QED
    BY <2>5, <2>6
<1> QED
  BY <1>5, <1>6

\* An entry leaves its thread's hand, and where it goes.
LEMMA HandOutFacts ==
  ASSUME LogInv, NEW t \in Threads, HandOut(t)
  PROVE  /\ hand[t] # Nothing /\ hand[t] \in InHand /\ hand[t] \in Entries
         /\ hand' \in [Threads -> Entries \cup {Nothing}] /\ InHand = InHand' \cup {hand[t]}
         /\ \A u \in Threads : hand'[u] # Nothing => u # t /\ hand'[u] = hand[u]
         /\ hand[t].line \notin LinesOf(InHand')
         /\ excused \subseteq excused'
         /\ UNCHANGED <<counter, ring, src, asks, lastSeq, shown, stale, lines>>
<1>1. /\ hand[t] # Nothing /\ hand' = [hand EXCEPT ![t] = Nothing] /\ excused \subseteq excused'
      /\ UNCHANGED <<counter, ring, src, asks, lastSeq, shown, stale, lines>>
  BY DEF HandOut, page
<1>2. hand \in [Threads -> Entries \cup {Nothing}]
  BY DEF LogInv, LogTypes
<1>3. InHand = InHand' \cup {hand[t]} /\ hand[t] \in InHand
  BY <1>1, <1>2 DEF InHand
<1>4. \A u \in Threads : hand'[u] # Nothing => u # t /\ hand'[u] = hand[u]
  BY <1>1, <1>2
<1>5. hand[t].line \notin LinesOf(InHand')
  <2> SUFFICES ASSUME NEW u \in Threads, hand'[u] # Nothing, hand'[u].line = hand[t].line PROVE FALSE
    BY DEF LinesOf, InHand
  <2> QED
    BY <1>1, <1>4 DEF LogInv, Numbered
<1> QED
  BY <1>1, <1>2, <1>3, <1>4, <1>5

\* What the queue holds after an entry was handed out to it: it is shifted by
\* one if it was full.
Shifted(t, o) == /\ queue' \in Seq(Entries) /\ Len(queue') = Len(queue) - o + 1 /\ Len(queue') <= QueueCap
                 /\ \A i \in 1..Len(queue) - o : i + o \in 1..Len(queue) /\ queue'[i] = queue[i + o]
                 /\ queue'[Len(queue) - o + 1] = hand[t]
                 /\ o = 1 => queue[1].line \in excused'

\* A hand is emptied into the queue.
LEMMA QueueFacts ==
  ASSUME LogInv, NEW t \in Threads, HandOut(t), src = "open"
  PROVE  Len(queue) \in Nat /\ \E o \in {0, 1} : o <= Len(queue) /\ Shifted(t, o)
<1> DEFINE kept == IF Len(queue) = QueueCap THEN Tail(queue) ELSE queue
<1>1. queue \in Seq(Entries) /\ Len(queue) \in Nat /\ Len(queue) <= QueueCap /\ QueueCap \in Nat \ {0}
  BY LogAssumption DEF LogInv, LogTypes
<1>2. queue # Nothing
  BY <1>1, NothingAssumption
<1>3. queue' = Append(kept, hand[t]) /\ (Len(queue) = QueueCap => queue[1].line \in excused')
  BY <1>2 DEF HandOut
<1>4. hand[t] \in Entries
  BY HandOutFacts
<1>5. PICK o \in {0, 1} : /\ kept \in Seq(Entries) /\ Len(kept) = Len(queue) - o /\ Len(kept) < QueueCap /\ Len(kept) \in Nat
                          /\ \A i \in 1..Len(kept) : kept[i] = queue[i + o]
                          /\ o = 1 => Len(queue) = QueueCap
  <2>1. CASE Len(queue) = QueueCap
    BY <1>1, <2>1
  <2>2. CASE Len(queue) # QueueCap
    BY <1>1, <2>2
  <2> QED
    BY <2>1, <2>2
<1> HIDE DEF kept
<1>6. queue' \in Seq(Entries) /\ Len(queue') = Len(kept) + 1
  BY <1>3, <1>4, <1>5
<1>7. \A i \in 1..Len(kept) + 1 : queue'[i] = IF i = Len(kept) + 1 THEN hand[t] ELSE kept[i]
  BY <1>3, <1>4, <1>5
<1>8. ASSUME NEW i \in 1..Len(queue) - o PROVE i + o \in 1..Len(queue) /\ queue'[i] = queue[i + o]
  <2>1. i \in 1..Len(kept) /\ i \in 1..Len(kept) + 1 /\ i # Len(kept) + 1
    BY <1>5
  <2>2. i + o \in 1..Len(queue)
    BY <1>1
  <2> QED
    BY <1>5, <1>7, <2>1, <2>2
<1>9. queue'[Len(queue) - o + 1] = hand[t] /\ Len(queue') = Len(queue) - o + 1 /\ Len(queue') <= QueueCap /\ o <= Len(queue)
  BY <1>1, <1>5, <1>6, <1>7
<1> QED
  BY <1>1, <1>3, <1>5, <1>6, <1>8, <1>9 DEF Shifted

\* And what the queue holds then was in it, or in the hand.
LEMMA ShiftedBack ==
  ASSUME NEW t \in Threads, NEW o \in {0, 1}, Len(queue) \in Nat, o <= Len(queue), Shifted(t, o), NEW i \in 1..Len(queue')
  PROVE  \/ i = Len(queue') /\ queue'[i] = hand[t]
         \/ i + o \in 1..Len(queue) /\ queue'[i] = queue[i + o]
<1>1. Len(queue') = Len(queue) - o + 1 /\ queue'[Len(queue) - o + 1] = hand[t]
  BY DEF Shifted
<1>2. CASE i = Len(queue) - o + 1
  BY <1>1, <1>2
<1>3. CASE i # Len(queue) - o + 1
  <2>1. i \in 1..Len(queue) - o
    BY <1>1, <1>3
  <2> QED
    BY <2>1 DEF Shifted
<1> QED
  BY <1>2, <1>3

\* A line is handed out: what is known stays known.
LEMMA HandOutTypes == ASSUME LogInv, NEW t \in Threads, HandOut(t) PROVE LogTypes' /\ Numbered' /\ Replies' /\ SeqInv'
<1>1. /\ hand[t] \in InHand /\ hand' \in [Threads -> Entries \cup {Nothing}] /\ InHand = InHand' \cup {hand[t]}
      /\ \A u \in Threads : hand'[u] # Nothing => u # t /\ hand'[u] = hand[u]
      /\ hand[t].line \notin LinesOf(InHand')
      /\ excused \subseteq excused'
      /\ UNCHANGED <<counter, ring, src, asks, lastSeq, shown, stale, lines>>
  BY HandOutFacts
<1>2. Len(queue) \in Nat /\ (src = "open" => \E o \in {0, 1} : o <= Len(queue) /\ Shifted(t, o))
  BY QueueFacts
<1>3. src # "open" => queue' = Nothing
  BY <1>1 DEF LogInv, LogTypes, HandOut
<1>4. LogTypes'
  BY <1>1, <1>2, <1>3 DEF LogInv, LogTypes, Shifted
<1>5. ASSUME src = "open"
      PROVE  /\ \A i \in 1..Len(queue') : Current(queue'[i])
             /\ \A i, j \in 1..Len(queue') : queue'[i].line = queue'[j].line => i = j
             /\ \A i \in 1..Len(queue') : queue'[i].line \notin LinesOf(InHand')
  <2>1. PICK o \in {0, 1} : o <= Len(queue) /\ Shifted(t, o)
    BY <1>2, <1>5
  <2>2. /\ \A i \in 1..Len(queue) : Current(queue[i]) /\ queue[i].line \notin LinesOf(InHand)
        /\ \A i, j \in 1..Len(queue) : queue[i].line = queue[j].line => i = j
        /\ Current(hand[t])
    BY <1>1, <1>5 DEF LogInv, Numbered
  <2>3. ASSUME NEW i \in 1..Len(queue')
        PROVE  \/ i = Len(queue') /\ queue'[i] = hand[t]
               \/ i + o \in 1..Len(queue) /\ queue'[i] = queue[i + o]
    BY <1>2, <2>1, ShiftedBack
  <2>4. hand[t].line \in LinesOf(InHand)
    BY <1>1 DEF LinesOf
  <2>5. LinesOf(InHand') \subseteq LinesOf(InHand)
    BY <1>1 DEF LinesOf
  <2>6. ASSUME NEW i \in 1..Len(queue'), NEW j \in 1..Len(queue'), queue'[i].line = queue'[j].line PROVE i = j
    <3>1. CASE i + o \in 1..Len(queue) /\ queue'[i] = queue[i + o] /\ j + o \in 1..Len(queue) /\ queue'[j] = queue[j + o]
      <4>1. i + o = j + o
        BY <2>2, <2>6, <3>1
      <4> QED
        BY <1>2, <4>1
    <3> QED
      BY <2>2, <2>3, <2>4, <2>6, <3>1
  <2> QED
    BY <1>1, <2>2, <2>3, <2>5, <2>6
<1>6. Numbered'
  <2>1. \A f \in ToSet(ring)' \cup InHand' : Current(f)'
    BY <1>1 DEF LogInv, Numbered, Current, ToSet
  <2>2. LinesOf(InHand') \subseteq LinesOf(InHand)
    BY <1>1 DEF LinesOf
  <2> QED
    BY <1>1, <1>5, <2>1, <2>2, ZenonT(30) DEF LogInv, Numbered, Current
<1>7. Replies' /\ SeqInv'
  BY <1>1 DEF LogInv, Replies, Current, SeqInv, ToSet
<1> QED
  BY <1>4, <1>6, <1>7

\* A line is handed out: it is still on its way, unless there is no stream or
\* the queue is full.
LEMMA HandOutLines ==
  ASSUME LogInv, NEW t \in Threads, HandOut(t), NEW l \in (1..lines') \ excused' PROVE LineOK(l)'
<1>1. /\ hand[t] \in InHand /\ InHand = InHand' \cup {hand[t]}
      /\ excused \subseteq excused'
      /\ UNCHANGED <<counter, ring, src, asks, lastSeq, shown, stale, lines>>
  BY HandOutFacts
<1>2. Len(queue) \in Nat /\ (src = "open" => \E o \in {0, 1} : o <= Len(queue) /\ Shifted(t, o))
  BY QueueFacts
<1>3. Handed(l)' <=> Handed(l)
  <2>1. CASE src = "open"
    <3>1. PICK o \in {0, 1} : o <= Len(queue) /\ Shifted(t, o)
      BY <1>2, <2>1
    <3>2. ASSUME NEW i \in 1..Len(queue')
          PROVE  \/ queue'[i] = hand[t]
                 \/ i + o \in 1..Len(queue) /\ queue'[i] = queue[i + o]
      BY <1>2, <3>1, ShiftedBack
    <3>3. ASSUME NEW j \in 1..Len(queue), queue[j].line = l PROVE \E i \in 1..Len(queue') : queue'[i] = queue[j]
      <4>1. j - o \in 1..Len(queue) - o
        BY <1>2, <3>1, <3>3 DEF Shifted
      <4>2. queue'[j - o] = queue[j] /\ j - o \in 1..Len(queue')
        BY <1>2, <3>1, <4>1 DEF Shifted
      <4> QED
        BY <4>2
    <3>4. \E i \in 1..Len(queue') : queue'[i] = hand[t]
      BY <1>2, <3>1 DEF Shifted
    <3>5. l \in LinesOf(InHand) <=> l \in LinesOf(InHand') \/ l = hand[t].line
      BY <1>1 DEF LinesOf
    <3>6. hand[t].line \in LinesOf(InHand)
      BY <1>1 DEF LinesOf
    <3> QED
      BY <1>1, <2>1, <3>2, <3>3, <3>4, <3>5, <3>6 DEF Handed
  <2>2. CASE src # "open"
    BY <1>1, <2>2 DEF Handed
  <2> QED
    BY <2>1, <2>2
<1> QED
  BY <1>1, <1>3 DEF LogInv, LineOK, Sent, Waits, LinesOf, ToSet

\* What a log line's invariant counts with.
LEMMA LogNumbers ==
  ASSUME LogInv
  PROVE  /\ counter \in Nat /\ lastSeq \in Nat /\ stale \in Nat /\ lines \in Nat /\ MaxLines \in Nat /\ counter <= lines
         /\ \A e \in ToSet(ring) : e \in Entries /\ e.seq \in Nat /\ Current(e)
         /\ src = "open" => queue \in Seq(Entries) /\ queue # Nothing /\ Len(queue) \in Nat
         /\ src # "open" => queue = Nothing
         /\ \A a \in asks : /\ a.since \in Nat /\ (a.got # Nothing => a.got \subseteq Entries)
                            /\ a.got = Nothing \/ \A f \in a.got : f \in Entries /\ f.seq \in Nat /\ f.line \in Nat
<1>1. ring \in Seq(Entries) /\ counter \in Nat /\ lastSeq \in Nat /\ stale \in Nat /\ lines \in Nat /\ counter <= lines
  BY DEF LogInv, LogTypes
<1>2. ToSet(ring) \subseteq Entries
  BY <1>1, SetOfSeq
<1>3. \A e \in ToSet(ring) : e \in Entries /\ e.seq \in Nat /\ Current(e)
  BY <1>2 DEF LogInv, Numbered, Entries
<1>4. src = "open" => queue \in Seq(Entries) /\ queue # Nothing /\ Len(queue) \in Nat
  BY NothingAssumption DEF LogInv, LogTypes
<1>5. src # "open" => queue = Nothing
  BY DEF LogInv, LogTypes
<1>6. \A a \in asks : /\ a.since \in Nat /\ (a.got # Nothing => a.got \subseteq Entries)
                      /\ a.got = Nothing \/ \A f \in a.got : f \in Entries /\ f.seq \in Nat /\ f.line \in Nat
  BY DEF LogInv, LogTypes, Requests, Entries
<1> QED
  BY <1>1, <1>3, <1>4, <1>5, <1>6, LogAssumption

\* Since a restart, a line has one number.
LEMMA SameNumber ==
  ASSUME LogInv, NEW e, NEW f, Current(e), Current(f), e.line = f.line
  PROVE  e.seq = f.seq /\ e.seq \in Nat /\ e.seq <= counter /\ e.line <= lines
<1>1. /\ e.line \in 1..lines /\ e.seq \in 1..counter /\ e.line - e.seq = lines - counter
      /\ f.line \in 1..lines /\ f.seq \in 1..counter /\ f.line - f.seq = lines - counter
  BY DEF Current, Belongs
<1>2. counter \in Nat /\ lines \in Nat
  BY DEF LogInv, LogTypes
<1>3. e.line \in Int /\ e.seq \in Nat /\ f.seq \in Nat /\ f.line \in Int /\ e.line <= lines /\ e.seq <= counter
  BY <1>1, <1>2
<1> QED
  BY <1>1, <1>2, <1>3

\* Nothing happens.
LEMMA LogStutters == ASSUME LogInv, UNCHANGED logVars PROVE LogInv'
<1>1. UNCHANGED <<counter, ring, hand, queue, src, asks, lastSeq, shown, stale, excused, lines>>
  BY DEF logVars
<1>2. LogTypes' /\ Numbered' /\ Replies' /\ SeqInv'
  <2>1. LogTypes'
    BY <1>1 DEF LogInv, LogTypes
  <2>2. Numbered'
    BY <1>1 DEF LogInv, Numbered, Current, InHand, ToSet
  <2>3. Replies' /\ SeqInv'
    BY <1>1 DEF LogInv, Replies, SeqInv, Current, ToSet
  <2> QED
    BY <2>1, <2>2, <2>3
<1>3. \A l : LineOK(l) => LineOK(l)'
  BY <1>1 DEF LineOK, Handed, Sent, Waits, InHand, ToSet
<1> QED
  BY <1>1, <1>2, <1>3 DEF LogInv

\* The stream begins: what is in a hand may have missed it.
LEMMA SubscribeKeeps == ASSUME LogInv, Subscribe PROVE LogInv'
<1>1. /\ src = "opening" /\ src' = "open" /\ queue' = <<>>
      /\ UNCHANGED <<counter, ring, hand, asks, lastSeq, shown, stale, excused, lines>>
  BY DEF Subscribe
<1>2. LogTypes'
  <2>1. <<>> \in Seq(Entries) /\ Len(<<>>) = 0 /\ 0 <= QueueCap
    BY LogAssumption
  <2> QED
    BY <1>1, <2>1 DEF LogInv, LogTypes
<1>3. Numbered' /\ Replies' /\ SeqInv'
  BY <1>1 DEF LogInv, Numbered, Replies, SeqInv, Current, InHand, ToSet
<1>4. ASSUME NEW l \in (1..lines') \ excused' PROVE LineOK(l)'
  <2>1. ~Handed(l)' /\ ~Handed(l) /\ ~Waits(l) /\ ~Waits(l)'
    <3>1. l \notin LinesOf(InHand)
      BY <1>1, <1>4 DEF LogInv, Numbered
    <3> QED
      BY <1>1, <3>1 DEF Handed, Waits, InHand
  <2>2. \A a : Sent(l, a)' <=> Sent(l, a)
    BY <1>1 DEF Sent, ToSet
  <2>3. LineOK(l)
    BY <1>1, <1>4 DEF LogInv
  <2> QED
    BY <1>1, <2>1, <2>2, <2>3 DEF LineOK, ToSet
<1> QED
  BY <1>2, <1>3, <1>4 DEF LogInv

\* A request is answered: what it brings is what it was to bring.
LEMMA AnswerKeeps == ASSUME LogInv, NEW a \in asks, Answer1(a) PROVE LogInv'
<1>0. PICK R, b : R = Recent(a.since) /\ b = [a EXCEPT !.got = R]
  OBVIOUS
<1>1. /\ a.got = Nothing /\ asks' = (asks \ {a}) \cup {b}
      /\ UNCHANGED <<counter, ring, hand, queue, src, lastSeq, shown, stale, excused, lines>>
  BY <1>0 DEF Answer1
<1>2. a \in [since : Nat, got : (SUBSET Entries) \cup {Nothing}]
  BY DEF LogInv, LogTypes, Requests
<1>3. b \in [since : Nat, got : (SUBSET Entries) \cup {Nothing}] /\ b.since = a.since /\ b.got = R /\ R \subseteq ToSet(ring)
  <2>1. R \subseteq ToSet(ring) /\ R \subseteq Entries
    BY <1>0, LogNumbers DEF Recent
  <2> QED
    BY <1>0, <1>2, <2>1
<1>4. \A e : e \in R <=> e \in ToSet(ring) /\ e.seq > a.since
  BY <1>0 DEF Recent
<1>5. CASE R = Nothing
  <2>1. b = a
    BY <1>0, <1>1, <1>2, <1>5
  <2>2. asks' = asks
    BY <1>1, <2>1
  <2>3. LogTypes' /\ Numbered' /\ Replies' /\ SeqInv'
    <3>1. LogTypes'
      BY <1>1, <2>2 DEF LogInv, LogTypes
    <3>2. Numbered'
      BY <1>1, <2>2 DEF LogInv, Numbered, Current, InHand, ToSet
    <3>3. Replies' /\ SeqInv'
      BY <1>1, <2>2 DEF LogInv, Replies, SeqInv, Current, ToSet
    <3> QED
      BY <3>1, <3>2, <3>3
  <2>4. \A l : LineOK(l) => LineOK(l)'
    BY <1>1, <2>2 DEF LineOK, Handed, Sent, Waits, InHand, ToSet
  <2> QED
    BY <1>1, <2>3, <2>4 DEF LogInv
<1>6. CASE R # Nothing
  <2>1. LogTypes' /\ Numbered' /\ SeqInv'
    <3>1. b \in Requests /\ asks \subseteq Requests
      BY <1>3 DEF LogInv, LogTypes, Requests
    <3>2. asks' \subseteq Requests
      BY <1>1, <3>1
    <3> QED
      BY <1>1, <3>2, SMTT(30) DEF LogInv, LogTypes, Numbered, SeqInv, Current, InHand, ToSet
  <2>2. ASSUME NEW c \in asks'
        PROVE  /\ c.since <= lastSeq
               /\ c.got # Nothing => \A f \in c.got :
                    /\ f.seq > c.since
                    /\ Current(f) \/ (f.line \in excused /\ f.line <= lines - counter /\ f.seq <= stale)
                    /\ \A e \in ToSet(ring) : e.seq <= f.seq => e \in c.got \/ e.seq <= c.since \/ f.seq <= stale
    <3>1. CASE c = b
      <4>1. \A f \in R : f.seq > a.since /\ Current(f)
        BY <1>3, <1>4, LogNumbers
      <4>2. \A e \in ToSet(ring) : e \in R \/ e.seq <= a.since
        BY <1>4, LogNumbers
      <4>3. a.since <= lastSeq
        BY DEF LogInv, Replies
      <4> QED
        BY <1>3, <3>1, <4>1, <4>2, <4>3
    <3>2. CASE c \in asks
      BY <3>2 DEF LogInv, Replies
    <3> QED
      BY <1>1, <3>1, <3>2
  <2>3. Replies'
    BY <1>1, <2>2 DEF Replies, Current, ToSet
  <2>4. ASSUME NEW l \in (1..lines') \ excused' PROVE LineOK(l)'
    <3>1. Sent(l, b)' <=> Sent(l, a)
      BY <1>1, <1>3, <1>4, <1>6 DEF Sent, LinesOf
    <3>2. \A c : Sent(l, c)' <=> Sent(l, c)
      BY <1>1 DEF Sent, ToSet
    <3>3. LineOK(l) /\ (Handed(l)' <=> Handed(l)) /\ (Waits(l)' <=> Waits(l))
      BY <1>1, <2>4 DEF LogInv, Handed, Waits, InHand, ToSet
    <3>4. ASSUME NEW c \in asks', Sent(l, c)' PROVE \E d \in asks : Sent(l, d) /\ (c = IF d = a THEN b ELSE d)
      BY <1>1, <3>1, <3>2, <3>4
    <3>5. ASSUME NEW d \in asks, Sent(l, d) PROVE \E c \in asks' : Sent(l, c)'
      BY <1>1, <3>1, <3>2, <3>5
    <3>6. CASE shown[l] = 1
      BY <1>1, <3>3, <3>4, <3>6 DEF LineOK, ToSet
    <3>7. CASE shown[l] # 1
      <4>1. /\ shown'[l] = 0 /\ l \in LinesOf(ToSet(ring)) /\ l \in LinesOf(ToSet(ring))'
            /\ Handed(l) => \A c \in asks : ~Sent(l, c)
            /\ \A c, d \in asks : Sent(l, c) /\ Sent(l, d) => c = d
            /\ Handed(l) \/ (\E c \in asks : Sent(l, c)) \/ Waits(l)
        BY <1>1, <3>3, <3>7 DEF LineOK, ToSet
      <4>2. \A c, d \in asks' : Sent(l, c)' /\ Sent(l, d)' => c = d
        BY <3>4, <4>1
      <4>3. Handed(l)' => \A c \in asks' : ~Sent(l, c)'
        BY <3>3, <3>4, <4>1
      <4>4. Handed(l)' \/ (\E c \in asks' : Sent(l, c)') \/ Waits(l)'
        BY <3>3, <3>5, <4>1
      <4> QED
        BY <1>1, <3>7, <4>1, <4>2, <4>3, <4>4 DEF LineOK
    <3> QED
      BY <3>6, <3>7
  <2> QED
    BY <2>1, <2>3, <2>4 DEF LogInv
<1> QED
  BY <1>5, <1>6

\* A request fails: its lines are lost to it.
LEMMA NotPrimedKeeps == ASSUME LogInv, NEW a \in asks, NotPrimed(a) PROVE LogInv'
<1>1. /\ asks' = asks \ {a} /\ excused \subseteq excused'
      /\ {e.line : e \in {e \in ToSet(ring) : e.seq > a.since}} \subseteq excused'
      /\ a.got # Nothing => LinesOf(a.got) \subseteq excused'
      /\ UNCHANGED <<counter, ring, hand, queue, src, lastSeq, shown, stale, lines>>
  BY DEF NotPrimed
<1>2. LogTypes' /\ Numbered' /\ Replies' /\ SeqInv'
  <2>1. LogTypes'
    BY <1>1 DEF LogInv, LogTypes
  <2>2. Numbered'
    BY <1>1 DEF LogInv, Numbered, Current, InHand, ToSet
  <2>3. Replies' /\ SeqInv'
    BY <1>1 DEF LogInv, Replies, SeqInv, Current, ToSet
  <2> QED
    BY <2>1, <2>2, <2>3
<1>3. ASSUME NEW l \in (1..lines') \ excused' PROVE LineOK(l)'
  <2>1. ~Sent(l, a)
    BY <1>1, <1>3 DEF Sent, LinesOf
  <2>2. \A c : Sent(l, c)' <=> Sent(l, c)
    BY <1>1 DEF Sent, ToSet
  <2>3. LineOK(l) /\ (Handed(l)' <=> Handed(l)) /\ (Waits(l)' <=> Waits(l))
    BY <1>1, <1>3 DEF LogInv, Handed, Waits, InHand, ToSet
  <2> QED
    BY <1>1, <2>1, <2>2, <2>3 DEF LineOK, ToSet
<1> QED
  BY <1>2, <1>3 DEF LogInv

\* The stream and a request leave together.
LEMMA OpenStreamKeeps == ASSUME LogInv, OpenStream PROVE LogInv'
<1>0. PICK b : b = [since |-> lastSeq, got |-> Nothing]
  OBVIOUS
<1>1. /\ src = "shut" /\ src' = "opening" /\ asks' = asks \cup {b}
      /\ excused \subseteq excused' /\ LinesOf(InHand) \subseteq excused'
      /\ \A e \in ToSet(ring) : e.line \notin excused' => \A a \in asks : ~(e.seq > a.since)
      /\ UNCHANGED <<counter, ring, hand, queue, lastSeq, shown, stale, lines>>
  BY <1>0 DEF OpenStream
<1>2. b \in Requests /\ b.since = lastSeq /\ b.got = Nothing /\ lastSeq \in Nat
  BY <1>0 DEF LogInv, LogTypes, Requests
<1>3. LogTypes' /\ Numbered' /\ SeqInv'
  BY <1>1, <1>2 DEF LogInv, LogTypes, Numbered, SeqInv, Current, InHand, ToSet
<1>4. Replies'
  BY <1>1, <1>2 DEF LogInv, Replies, Current, ToSet
<1>5. ASSUME NEW l \in (1..lines') \ excused' PROVE LineOK(l)'
  <2>1. LineOK(l) /\ ~Handed(l) /\ ~Handed(l)' /\ l \notin excused
    BY <1>1, <1>5 DEF LogInv, Handed
  <2>2. Sent(l, b)' <=> \E e \in ToSet(ring) : e.line = l /\ e.seq > lastSeq
    BY <1>1, <1>2 DEF Sent, ToSet
  <2>3. \A c : Sent(l, c)' <=> Sent(l, c)
    BY <1>1 DEF Sent, ToSet
  <2>4. CASE shown[l] = 1
    <3>1. ~Sent(l, b)'
      BY <1>2, <2>1, <2>2, <2>4, LogNumbers DEF LineOK
    <3> QED
      BY <1>1, <2>1, <2>3, <2>4, <3>1 DEF LineOK, ToSet
  <2>5. CASE shown[l] # 1
    <3>1. PICK e \in ToSet(ring) : e.line = l
      BY <2>1, <2>5 DEF LineOK, LinesOf
    <3>2. Current(e) /\ e.seq \in Nat /\ \A c \in asks : ~(e.seq > c.since)
      BY <1>1, <1>5, <3>1, LogNumbers
    <3>3. ASSUME NEW c \in asks PROVE ~Sent(l, c)
      <4>1. CASE c.got = Nothing
        BY <1>1, <1>5, <4>1 DEF Sent
      <4>2. ASSUME c.got # Nothing, NEW f \in c.got, f.line = l PROVE FALSE
        <5>1. Current(f) /\ f.seq > c.since
          BY <2>1, <4>2 DEF LogInv, Replies
        <5>2. f.seq = e.seq
          BY <3>1, <3>2, <4>2, <5>1, SameNumber
        <5> QED
          BY <3>2, <5>1, <5>2
      <4> QED
        BY <4>1, <4>2 DEF Sent, LinesOf
    <3>4. Waits(l)
      BY <2>1, <2>5, <3>3 DEF LineOK
    <3>5. Sent(l, b)'
      BY <2>2, <3>4 DEF Waits
    <3>6. shown'[l] = 0 /\ l \in LinesOf(ToSet(ring'))
      BY <1>1, <2>1, <2>5 DEF LineOK
    <3>7. \A c, d \in asks' : Sent(l, c)' /\ Sent(l, d)' => c = d
      BY <1>1, <2>3, <3>3
    <3> QED
      BY <1>1, <2>1, <2>5, <3>5, <3>6, <3>7 DEF LineOK
  <2> QED
    BY <2>4, <2>5
<1> QED
  BY <1>3, <1>4, <1>5 DEF LogInv

\* The stream breaks: what it held waits in the ring.
LEMMA DropKeeps == ASSUME LogInv, Drop PROVE LogInv'
<1> DEFINE held == InHand \cup (IF queue = Nothing THEN {} ELSE ToSet(queue))
<1>1. /\ src # "shut" /\ src' = "shut" /\ queue' = Nothing /\ excused \subseteq excused'
      /\ \A e \in held : e.line \notin excused' => ~(e.seq <= lastSeq) /\ ~(e.seq <= stale)
      /\ UNCHANGED <<counter, ring, hand, asks, lastSeq, shown, stale, lines>>
  BY DEF Drop
<1>2. LogTypes' /\ Numbered' /\ Replies' /\ SeqInv'
  <2>1. LogTypes'
    BY <1>1 DEF LogInv, LogTypes
  <2>2. Numbered'
    BY <1>1 DEF LogInv, Numbered, Current, InHand, ToSet
  <2>3. Replies' /\ SeqInv'
    BY <1>1 DEF LogInv, Replies, SeqInv, Current, ToSet
  <2> QED
    BY <2>1, <2>2, <2>3
<1>3. ASSUME NEW l \in (1..lines') \ excused' PROVE LineOK(l)'
  <2>1. LineOK(l) /\ ~Waits(l) /\ ~Handed(l)'
    BY <1>1, <1>3 DEF LogInv, Handed, Waits
  <2>2. \A c : Sent(l, c)' <=> Sent(l, c)
    BY <1>1 DEF Sent, ToSet
  <2>3. ASSUME shown[l] # 1, Handed(l) PROVE Waits(l)'
    <3>1. \E f \in held : f.line = l /\ Current(f)
      <4>1. src = "open" /\ queue \in Seq(Entries) /\ queue # Nothing
        BY <2>3, LogNumbers DEF Handed
      <4>2. ToSet(queue) = {queue[i] : i \in 1..Len(queue)}
        BY <4>1, SetOfSeq
      <4>3. /\ \A f \in InHand : Current(f)
            /\ \A i \in 1..Len(queue) : Current(queue[i])
        BY <4>1 DEF LogInv, Numbered
      <4> QED
        BY <2>3, <4>1, <4>2, <4>3 DEF Handed, LinesOf
    <3>2. PICK f \in held : f.line = l /\ Current(f)
      BY <3>1
    <3>3. PICK e \in ToSet(ring) : e.line = l
      BY <2>1, <2>3 DEF LineOK, LinesOf
    <3>4. e.seq = f.seq /\ e.seq \in Nat
      BY <3>2, <3>3, SameNumber, LogNumbers
    <3>5. e.seq > lastSeq /\ e.seq > stale
      BY <1>1, <1>3, <3>2, <3>4, LogNumbers
    <3> QED
      BY <1>1, <3>3, <3>5 DEF Waits, ToSet
  <2> QED
    BY <1>1, <2>1, <2>2, <2>3 DEF LineOK, ToSet
<1> QED
  BY <1>2, <1>3 DEF LogInv

\* The dashboard is started again: what the page was sent before is old.
LEMMA RebootKeeps == ASSUME LogInv, Reboot PROVE LogInv'
<1> DEFINE S == {stale, lastSeq} \cup {e.seq : e \in UNION {a.got : a \in {a \in asks : a.got # Nothing}}}
<1>1. /\ excused' = excused \cup {l \in 1..lines : shown[l] = 0} /\ stale' = Highest(S)
      /\ counter' = 0 /\ ring' = <<>> /\ hand' = [t \in Threads |-> Nothing] /\ queue' = Nothing /\ src' = "shut"
      /\ asks' = {a \in asks : a.got # Nothing}
      /\ UNCHANGED <<lastSeq, shown, lines>>
  BY DEF Reboot
<1>2. /\ counter \in Nat /\ lastSeq \in Nat /\ stale \in Nat /\ lines \in Nat /\ counter <= lines
      /\ \A a \in asks : a.got # Nothing => \A f \in a.got : f \in Entries /\ f.seq \in Nat /\ f.line \in Nat
  BY LogNumbers
<1>3. ASSUME NEW a \in asks, a.got # Nothing, NEW f \in a.got
      PROVE  f.seq \in S /\ f.seq <= counter + stale /\ f.line \in excused' /\ f.line <= lines
  <2>1. f.seq \in S
    BY <1>3
  <2>2. f.line <= lines
    BY <1>3, NoneAhead
  <2>3. CASE Current(f)
    <3>1. f.line \in 1..lines /\ f.seq \in 1..counter
      BY <2>3 DEF Current, Belongs
    <3>2. f.line \notin excused => shown[f.line] # 1
      BY <1>3, <3>1 DEF LogInv, LineOK, Sent, LinesOf
    <3>3. f.line \notin excused => shown[f.line] = 0
      BY <3>1, <3>2 DEF LogInv, LineOK
    <3>4. f.seq <= counter + stale
      BY <1>2, <3>1
    <3> QED
      BY <1>1, <2>1, <2>2, <3>1, <3>3, <3>4
  <2>4. CASE ~Current(f)
    <3>1. f.line \in excused /\ f.seq <= stale
      BY <1>3, <2>4 DEF LogInv, Replies
    <3>2. f.seq <= counter + stale
      BY <1>2, <1>3, <3>1
    <3> QED
      BY <1>1, <2>1, <2>2, <3>1, <3>2
  <2> QED
    BY <2>3, <2>4
<1>4. S \subseteq Nat /\ S # {} /\ lastSeq \in S
  BY <1>2
<1>5. counter + stale + lastSeq \in Nat /\ \A n \in S : n <= counter + stale + lastSeq
  <2>1. \A n \in S : n = stale \/ n = lastSeq \/ \E a \in asks : a.got # Nothing /\ \E f \in a.got : n = f.seq
    OBVIOUS
  <2>2. \A n \in S : n \in Nat /\ (n = stale \/ n = lastSeq \/ n <= counter + stale)
    BY <1>3, <1>4, <2>1
  <2> HIDE DEF S
  <2> QED
    BY <1>2, <2>2
<1> HIDE DEF S
<1>6. stale' \in Nat /\ \A n \in S : n <= stale'
  <2>1. Highest(S) \in S /\ \A n \in S : n <= Highest(S)
    BY <1>4, <1>5, NatMax
  <2> QED
    BY <1>1, <1>4, <2>1
<1>7. InHand' = {} /\ ToSet(ring') = {} /\ \A t \in Threads : hand'[t] = Nothing
  <2>1. ToSet(<<>>) = {}
    BY DEF ToSet
  <2> QED
    BY <1>1, <2>1 DEF InHand
<1>8. LogTypes'
  <2>1. <<>> \in Seq(Entries) /\ Len(<<>>) = 0 /\ 0 <= Ring
    BY LogAssumption
  <2>2. hand' \in [Threads -> Entries \cup {Nothing}]
    BY <1>1
  <2>3. asks' \subseteq Requests /\ lines <= MaxLines
    BY <1>1 DEF LogInv, LogTypes
  <2> QED
    BY <1>1, <1>2, <1>6, <2>1, <2>2, <2>3 DEF LogTypes
<1>9. Numbered' /\ SeqInv'
  BY <1>1, <1>4, <1>6, <1>7 DEF LogInv, Numbered, SeqInv, LinesOf
<1>10. Replies'
  <2>1. \A a \in asks : a.since <= lastSeq /\ (a.got # Nothing => \A f \in a.got : f.seq > a.since)
    BY DEF LogInv, Replies
  <2>2. \A a \in asks : a.got # Nothing => \A f \in a.got : f.line \in excused' /\ f.line <= lines - 0 /\ f.seq <= stale'
    BY <1>2, <1>3, <1>6
  <2> QED
    BY <1>1, <1>7, <2>1, <2>2 DEF Replies
<1>11. ASSUME NEW l \in (1..lines') \ excused' PROVE LineOK(l)'
  <2>1. shown[l] # 0 /\ LineOK(l)
    BY <1>1, <1>11 DEF LogInv
  <2>2. shown[l] = 1
    BY <2>1 DEF LineOK
  <2>3. \A a \in asks : a.got # Nothing => (Sent(l, a)' <=> Sent(l, a))
    BY DEF Sent
  <2> QED
    BY <1>1, <1>7, <2>1, <2>2, <2>3 DEF LineOK, Handed
<1> QED
  BY <1>8, <1>9, <1>10, <1>11 DEF LogInv

\* How often a line is pushed with a set of entries.
LEMMA PushCounts ==
  ASSUME NEW T, NEW l
  PROVE  /\ (\A e \in T : e.line # l) => Cardinality({e \in T : e.line = l}) = 0
         /\ \A f \in T : f.line = l /\ (\A e \in T : e.line = l => e = f) => Cardinality({e \in T : e.line = l}) = 1
<1>1. ASSUME \A e \in T : e.line # l PROVE Cardinality({e \in T : e.line = l}) = 0
  <2>1. {e \in T : e.line = l} = {}
    BY <1>1
  <2> QED
    BY <2>1, FS_EmptySet
<1>2. ASSUME NEW f \in T, f.line = l, \A e \in T : e.line = l => e = f
      PROVE  Cardinality({e \in T : e.line = l}) = 1
  <2>1. {e \in T : e.line = l} = {f}
    BY <1>2
  <2> QED
    BY <2>1, FS_Singleton
<1> QED
  BY <1>1, <1>2

\* The page takes the line at the head of its queue.
LEMMA MessageKeeps == ASSUME LogInv, Message PROVE LogInv'
<1>0. PICK q : q = queue[1]
  OBVIOUS
<1>1. /\ src = "open" /\ queue # <<>> /\ queue' = Tail(queue)
      /\ shown' = [k \in Lines |-> shown[k] + Cardinality({e \in {q} : e.line = k})]
      /\ lastSeq' = Highest({lastSeq} \cup {e.seq : e \in {q}})
      /\ UNCHANGED <<counter, ring, hand, src, asks, stale, excused, lines>>
  BY <1>0 DEF Message, Push
<1>2. /\ counter \in Nat /\ lastSeq \in Nat /\ stale \in Nat /\ lines \in Nat /\ MaxLines \in Nat
      /\ queue \in Seq(Entries) /\ Len(queue) \in Nat /\ lines <= MaxLines
  BY <1>1, LogNumbers DEF LogInv, LogTypes
<1>3. /\ Len(queue) # 0 /\ q \in Entries /\ q.seq \in Nat /\ Current(q) /\ q.seq <= counter /\ q.line <= lines
      /\ q.line \in 1..lines /\ q.line \notin LinesOf(InHand)
  <2>1. Len(queue) # 0 /\ 1 \in 1..Len(queue) /\ q \in Entries
    BY <1>0, <1>1, <1>2
  <2>2. Current(q) /\ q.line \notin LinesOf(InHand)
    BY <1>0, <1>1, <2>1 DEF LogInv, Numbered
  <2>3. q.line \in 1..lines
    BY <2>2 DEF Current, Belongs
  <2> QED
    BY <2>1, <2>2, <2>3, SameNumber
<1>4. /\ queue' \in Seq(Entries) /\ Len(queue') = Len(queue) - 1
      /\ \A i \in 1..Len(queue) - 1 : i + 1 \in 1..Len(queue) /\ queue'[i] = queue[i + 1]
  BY <1>1, <1>2
<1>5. lastSeq' \in {lastSeq, q.seq} /\ lastSeq <= lastSeq' /\ q.seq <= lastSeq' /\ lastSeq' \in Nat
  <2>1. {lastSeq} \cup {e.seq : e \in {q}} = {lastSeq, q.seq}
    OBVIOUS
  <2>2. lastSeq + q.seq \in Nat /\ \A n \in {lastSeq, q.seq} : n <= lastSeq + q.seq
    BY <1>2, <1>3
  <2>3. {lastSeq, q.seq} \subseteq Nat
    BY <1>2, <1>3
  <2>4. Highest({lastSeq, q.seq}) \in {lastSeq, q.seq} /\ \A n \in {lastSeq, q.seq} : n <= Highest({lastSeq, q.seq})
    BY <2>2, <2>3, NatMax, Zenon
  <2> QED
    BY <1>1, <2>1, <2>3, <2>4
<1>6. \A i, j \in 1..Len(queue) : queue[i].line = queue[j].line => i = j
  BY <1>1 DEF LogInv, Numbered
<1>7. ASSUME NEW i \in 1..Len(queue') PROVE i + 1 \in 1..Len(queue) /\ queue'[i] = queue[i + 1] /\ queue'[i].line # q.line
  <2>1. i + 1 \in 1..Len(queue) /\ queue'[i] = queue[i + 1] /\ i + 1 # 1 /\ 1 \in 1..Len(queue)
    BY <1>2, <1>3, <1>4, SMTT(30)
  <2> QED
    BY <1>0, <1>6, <2>1
<1>8. \A k \in Lines : k # q.line => (shown[k] \in {0, 1} => shown'[k] = shown[k])
  <2>1. \A k \in Lines : k # q.line => Cardinality({e \in {q} : e.line = k}) = 0
    <3> SUFFICES ASSUME NEW k \in Lines, k # q.line PROVE Cardinality({e \in {q} : e.line = k}) = 0
      OBVIOUS
    <3>1. \A e \in {q} : e.line # k
      OBVIOUS
    <3> QED
      BY <3>1, PushCounts
  <2> QED
    BY <1>1, <2>1
<1>9. shown[q.line] = 0 => shown'[q.line] = 1
  <2>1. Cardinality({e \in {q} : e.line = q.line}) = 1
    BY PushCounts
  <2>2. q.line \in Lines
    BY <1>2, <1>3 DEF Lines
  <2> QED
    BY <1>1, <2>1, <2>2
<1>10. LogTypes'
  <2>1. Len(queue) <= QueueCap /\ QueueCap \in Nat
    BY <1>1, LogAssumption DEF LogInv, LogTypes
  <2>2. Len(queue') <= QueueCap
    BY <1>2, <1>4, <2>1
  <2> QED
    BY <1>1, <1>4, <1>5, <2>2 DEF LogInv, LogTypes
<1>11. Numbered'
  <2>1. \A e \in ToSet(ring)' \cup InHand' : Current(e)'
    BY <1>1 DEF LogInv, Numbered, Current, InHand, ToSet
  <2>2. \A t, u \in Threads : hand'[t] # Nothing /\ hand'[u] # Nothing /\ hand'[t].line = hand'[u].line => t = u
    BY <1>1 DEF LogInv, Numbered
  <2>3. \A i \in 1..Len(queue') : Belongs(queue'[i], lines', counter') /\ queue'[i].line \notin LinesOf(InHand')
    BY <1>1, <1>7 DEF LogInv, Numbered, Current, InHand
  <2>4. ASSUME NEW i \in 1..Len(queue'), NEW j \in 1..Len(queue'), queue'[i].line = queue'[j].line PROVE i = j
    <3>1. i + 1 = j + 1
      BY <1>6, <1>7, <2>4
    <3> QED
      BY <1>2, <1>4, <3>1
  <2>5. \A k \in Lines : k > lines => shown'[k] = 0
    <3>1. \A k \in Lines : k > lines => k # q.line /\ shown[k] = 0
      BY <1>2, <1>3 DEF LogInv, Numbered, Lines
    <3> QED
      BY <1>8, <3>1
  <2> QED
    BY <1>1, <2>1, <2>2, <2>3, <2>4, <2>5 DEF Numbered, Current
<1>12. Replies'
  <2>1. \A a \in asks : a.since <= lastSeq'
    BY <1>2, <1>5, LogNumbers DEF LogInv, Replies
  <2> QED
    BY <1>1, <2>1 DEF LogInv, Replies, Current, ToSet
<1>13. SeqInv'
  BY <1>1, <1>2, <1>3, <1>5 DEF LogInv, SeqInv
<1>14. ASSUME NEW l \in (1..lines') \ excused' PROVE LineOK(l)'
  <2>1. LineOK(l) /\ ~Waits(l) /\ ~Waits(l)' /\ l \in Lines
    BY <1>1, <1>2, <1>14 DEF LogInv, Waits, Lines
  <2>2. \A c : Sent(l, c)' <=> Sent(l, c)
    BY <1>1 DEF Sent, ToSet
  <2>3. CASE l = q.line
    <3>1. Handed(l)
      BY <1>0, <1>1, <1>2, <1>3, <2>3 DEF Handed
    <3>2. ~Handed(l)'
      BY <1>1, <1>3, <1>7, <2>3 DEF Handed, InHand
    <3>3. shown[l] = 0 /\ \A a \in asks : ~Sent(l, a)
      BY <2>1, <3>1 DEF LineOK
    <3>4. \A e \in ToSet(ring) : e.line = l => e.seq <= lastSeq'
      <4>1. \A e \in ToSet(ring) : e.line = l => e.seq = q.seq
        BY <1>3, <2>3, SameNumber, LogNumbers
      <4> QED
        BY <1>5, <4>1
    <3> QED
      BY <1>1, <1>9, <2>2, <2>3, <3>2, <3>3, <3>4 DEF LineOK, ToSet
  <2>4. CASE l # q.line
    <3>1. shown[l] \in {0, 1} /\ shown'[l] = shown[l]
      BY <1>8, <2>1, <2>4 DEF LineOK
    <3>2. Handed(l)' <=> Handed(l)
      <4>1. \A i \in 1..Len(queue) : queue[i].line = l => i - 1 \in 1..Len(queue') /\ queue'[i - 1] = queue[i]
        <5> SUFFICES ASSUME NEW i \in 1..Len(queue), queue[i].line = l
                     PROVE  i - 1 \in 1..Len(queue') /\ queue'[i - 1] = queue[i]
          OBVIOUS
        <5>1. i # 1
          BY <1>0, <2>4
        <5>2. i - 1 \in 1..Len(queue) - 1 /\ (i - 1) + 1 = i
          BY <1>2, <5>1
        <5> QED
          BY <1>2, <1>4, <5>2
      <4>2. (l \in LinesOf(InHand))' <=> l \in LinesOf(InHand)
        BY <1>1 DEF LinesOf, InHand
      <4> QED
        BY <1>1, <1>7, <4>1, <4>2 DEF Handed
    <3>3. \A e \in ToSet(ring) : e.seq <= lastSeq => e.seq <= lastSeq'
      BY <1>2, <1>5, LogNumbers
    <3> QED
      BY <1>1, <2>1, <2>2, <3>1, <3>2, <3>3 DEF LineOK, ToSet
  <2> QED
    BY <2>3, <2>4
<1> QED
  BY <1>10, <1>11, <1>12, <1>13, <1>14 DEF LogInv

\* What the page's last number becomes when it pushes an answer's lines.
LEMMA PrimedNumber ==
  ASSUME LogInv, NEW a \in asks, Primed(a)
  PROVE  /\ lastSeq' \in Nat /\ lastSeq <= lastSeq' /\ \A f \in a.got : f.seq <= lastSeq'
         /\ lastSeq' = lastSeq \/ \E f \in a.got : lastSeq' = f.seq
         /\ lastSeq' <= counter \/ lastSeq' <= stale
<1> DEFINE S == {lastSeq} \cup {e.seq : e \in a.got}
<1>1. a.got # Nothing /\ lastSeq' = Highest(S)
  BY DEF Primed, Push
<1>2. /\ counter \in Nat /\ lastSeq \in Nat /\ stale \in Nat
      /\ \A f \in a.got : f \in Entries /\ f.seq \in Nat /\ f.line \in Nat
  BY <1>1, LogNumbers
<1>3. ASSUME NEW f \in a.got PROVE f.seq <= counter \/ f.seq <= stale
  <2>1. CASE Current(f)
    BY <2>1, SameNumber
  <2>2. CASE ~Current(f)
    BY <1>1, <2>2 DEF LogInv, Replies
  <2> QED
    BY <2>1, <2>2
<1>4. S \subseteq Nat /\ S # {} /\ lastSeq \in S /\ \A f \in a.got : f.seq \in S
  BY <1>2
<1>5. \A n \in S : n = lastSeq \/ \E f \in a.got : n = f.seq
  OBVIOUS
<1> HIDE DEF S
<1>6. lastSeq + counter + stale \in Nat /\ \A n \in S : n <= lastSeq + counter + stale
  <2>1. \A f \in a.got : f.seq <= lastSeq + counter + stale
    BY <1>2, <1>3
  <2> QED
    BY <1>2, <1>5, <2>1
<1>7. lastSeq' \in S /\ \A n \in S : n <= lastSeq'
  BY <1>1, <1>4, <1>6, NatMax
<1>8. lastSeq' <= counter \/ lastSeq' <= stale
  BY <1>3, <1>5, <1>7 DEF LogInv, SeqInv
<1> QED
  BY <1>4, <1>5, <1>7, <1>8

\* The page pushes the lines an answer brought.
LEMMA PrimedKeeps == ASSUME LogInv, NEW a \in asks, Primed(a) PROVE LogInv'
<1>1. /\ a.got # Nothing /\ asks' = asks \ {a}
      /\ shown' = [k \in Lines |-> shown[k] + Cardinality({e \in a.got : e.line = k})]
      /\ UNCHANGED <<counter, ring, hand, queue, src, stale, excused, lines>>
  BY DEF Primed, Push
<1>2. /\ lastSeq' \in Nat /\ lastSeq <= lastSeq' /\ \A f \in a.got : f.seq <= lastSeq'
      /\ lastSeq' = lastSeq \/ \E f \in a.got : lastSeq' = f.seq
      /\ lastSeq' <= counter \/ lastSeq' <= stale
  BY PrimedNumber
<1>3. /\ counter \in Nat /\ lastSeq \in Nat /\ stale \in Nat /\ lines \in Nat /\ MaxLines \in Nat /\ lines <= MaxLines
      /\ \A f \in a.got : f \in Entries /\ f.seq \in Nat /\ f.line \in Nat /\ f.line <= lines
  BY <1>1, LogNumbers, NoneAhead DEF LogInv, LogTypes
<1>4. ASSUME NEW k \in Lines, \A f \in a.got : f.line # k, shown[k] \in {0, 1} PROVE shown'[k] = shown[k]
  <2>1. Cardinality({e \in a.got : e.line = k}) = 0
    BY <1>4, PushCounts
  <2> QED
    BY <1>1, <1>4, <2>1
<1>5. LogTypes'
  BY <1>1, <1>2 DEF LogInv, LogTypes
<1>6. Numbered'
  <2>1. ASSUME NEW k \in Lines, k > lines PROVE shown'[k] = 0
    <3>1. \A f \in a.got : f.line # k
      BY <1>3, <2>1 DEF Lines
    <3>2. shown[k] = 0
      BY <2>1 DEF LogInv, Numbered
    <3> QED
      BY <1>4, <3>1, <3>2
  <2> QED
    BY <1>1, <2>1 DEF LogInv, Numbered, Current, InHand, ToSet
<1>7. Replies' /\ SeqInv'
  <2>1. \A c \in asks : c.since <= lastSeq'
    BY <1>2, <1>3, LogNumbers DEF LogInv, Replies
  <2> QED
    BY <1>1, <1>2, <2>1 DEF LogInv, Replies, SeqInv, Current, ToSet
<1>8. ASSUME NEW l \in (1..lines') \ excused' PROVE LineOK(l)'
  <2>1. LineOK(l) /\ (Handed(l)' <=> Handed(l)) /\ l \in Lines /\ l \notin excused
    BY <1>1, <1>3, <1>8 DEF LogInv, Handed, InHand, Lines
  <2>2. \A c : Sent(l, c)' <=> Sent(l, c)
    BY <1>1 DEF Sent, ToSet
  <2>3. Sent(l, a) <=> \E f \in a.got : f.line = l
    BY <1>1 DEF Sent, LinesOf
  <2>4. ASSUME NEW f \in a.got, f.line = l PROVE Current(f)
    BY <1>1, <2>1, <2>4 DEF LogInv, Replies
  <2>5. ASSUME NEW f \in a.got, f.line = l PROVE LineOK(l)'
    <3>1. Sent(l, a) /\ Current(f)
      BY <2>3, <2>4, <2>5
    <3>2. shown[l] = 0 /\ ~Handed(l) /\ \A c \in asks : Sent(l, c) => c = a
      BY <2>1, <3>1 DEF LineOK
    <3>3. ASSUME NEW g \in a.got, g.line = l PROVE g = f
      <4>1. g.seq = f.seq
        BY <2>4, <2>5, <3>1, <3>3, SameNumber
      <4> QED
        BY <1>3, <2>5, <3>3, <4>1 DEF Entries
    <3>4. shown'[l] = 1
      <4>1. Cardinality({e \in a.got : e.line = l}) = 1
        <5>1. f \in a.got /\ f.line = l /\ \A e \in a.got : e.line = l => e = f
          BY <2>5, <3>3
        <5>2. \A g \in a.got : g.line = l /\ (\A e \in a.got : e.line = l => e = g) => Cardinality({e \in a.got : e.line = l}) = 1
          BY PushCounts
        <5> QED
          BY <5>1, <5>2
      <4> QED
        BY <1>1, <2>1, <3>2, <4>1
    <3>5. \A e \in ToSet(ring) : e.line = l => e.seq <= lastSeq'
      <4>1. \A e \in ToSet(ring) : e.line = l => e.seq = f.seq
        BY <2>5, <3>1, SameNumber, LogNumbers
      <4> QED
        BY <1>2, <4>1
    <3> QED
      BY <1>1, <2>1, <2>2, <3>2, <3>4, <3>5 DEF LineOK, ToSet
  <2>6. ASSUME \A f \in a.got : f.line # l PROVE LineOK(l)'
    <3>1. ~Sent(l, a)
      BY <2>3, <2>6
    <3>2. shown'[l] = shown[l]
      BY <1>4, <2>1, <2>6 DEF LineOK
    <3>3. \A e \in ToSet(ring) : e.seq <= lastSeq => e.seq <= lastSeq'
      BY <1>2, <1>3, LogNumbers
    <3>4. ASSUME Waits(l) PROVE Waits(l)'
      <4>1. PICK e \in ToSet(ring) : e.line = l /\ e.seq > lastSeq /\ e.seq > stale
        BY <3>4 DEF Waits
      <4>2. e.seq \in Nat /\ e.seq > lastSeq'
        <5>1. e.seq \in Nat /\ e \notin a.got /\ a.since <= lastSeq /\ a.since \in Nat
          BY <2>6, <4>1, LogNumbers DEF LogInv, Replies
        <5>2. ASSUME NEW f \in a.got PROVE ~(e.seq <= f.seq)
          <6>1. e.seq <= f.seq => e.seq <= a.since \/ f.seq <= stale
            BY <1>1, <5>1 DEF LogInv, Replies
          <6> QED
            BY <1>3, <4>1, <5>1, <6>1
        <5> QED
          BY <1>2, <1>3, <4>1, <5>1, <5>2
      <4> QED
        BY <1>1, <3>4, <4>1, <4>2 DEF Waits, ToSet
    <3> QED
      BY <1>1, <2>1, <2>2, <3>1, <3>2, <3>3, <3>4 DEF LineOK, ToSet
  <2> QED
    BY <2>5, <2>6
<1> QED
  BY <1>5, <1>6, <1>7, <1>8 DEF LogInv

\* Every step keeps it.
LEMMA LogStep == LogInv /\ [LogNext]_logVars => LogInv'
<1> SUFFICES ASSUME LogInv, [LogNext]_logVars PROVE LogInv'
  OBVIOUS
<1>1. ASSUME NEW t \in Threads, Number(t) PROVE LogInv'
  BY <1>1, NumberTypes, NumberLines DEF LogInv
<1>2. ASSUME NEW t \in Threads, HandOut(t) PROVE LogInv'
  BY <1>2, HandOutTypes, HandOutLines DEF LogInv
<1>3. ASSUME NEW a \in asks, Answer1(a) \/ Primed(a) \/ NotPrimed(a) PROVE LogInv'
  BY <1>3, AnswerKeeps, PrimedKeeps, NotPrimedKeeps
<1>4. CASE Subscribe \/ Reboot \/ OpenStream \/ Message \/ Drop
  BY <1>4, SubscribeKeeps, RebootKeeps, OpenStreamKeeps, MessageKeeps, DropKeeps
<1>5. CASE UNCHANGED logVars
  BY <1>5, LogStutters
<1> QED
  BY <1>1, <1>2, <1>3, <1>4, <1>5 DEF LogNext

\* At first nothing is logged.
LEMMA LogStarts == LogInit => LogInv
<1> SUFFICES ASSUME LogInit PROVE LogInv
  OBVIOUS
<1>1. <<>> \in Seq(Entries) /\ Len(<<>>) = 0 /\ ToSet(<<>>) = {} /\ 0 <= Ring /\ 0 <= MaxLines
  BY LogAssumption DEF ToSet
<1>2. LogTypes
  BY <1>1 DEF LogInit, LogTypes
<1>3. InHand = {}
  BY DEF LogInit, InHand
<1>4. Numbered /\ Replies /\ SeqInv
  BY <1>1, <1>3 DEF LogInit, Numbered, Replies, SeqInv
<1>5. 1..lines = {}
  BY DEF LogInit
<1> QED
  BY <1>2, <1>4, <1>5 DEF LogInv

(* Every line that is not excused is shown, or is on exactly one of its     *)
(* ways to the page: in a hand or the queue of its stream, in the answer    *)
(* to one request, or in the ring until the page opens the stream again.    *)
THEOREM LogInvariant == LogSpec => []LogInv
BY LogStarts, LogStep, PTL DEF LogSpec

(* A page that has caught up shows every line exactly once, but for the     *)
(* lines the history variable excuses: broadcast_log, recent_logs and the   *)
(* stream, against startLogStream and its priming request in runner.js.     *)
THEOREM LinesShownOnce == LogSpec => []LinesOnce
<1>1. LogInv => LinesOnce
  <2> SUFFICES ASSUME LogInv, CaughtUp, NEW l \in 1..lines, l \notin excused PROVE shown[l] = 1
    BY DEF LinesOnce
  <2>1. ~Handed(l)
    BY DEF CaughtUp, Handed, LinesOf
  <2>2. asks = {} /\ ~Waits(l)
    BY DEF CaughtUp, Waits
  <2> QED
    BY <2>1, <2>2 DEF LogInv, LineOK
<1> QED
  BY <1>1, LogInvariant, PTL
=============================================================================
