----------------------------- MODULE ProfileLock -----------------------------
(***************************************************************************)
(* The lock file .ghost_shell.lock of a profile directory, and the starts, *)
(* retries, closes and deaths of the run processes that share directories  *)
(* (browser/runtime.py, start and close; core/process_reaper.py, the sweep *)
(* by command line).  Chrome itself does not keep two of its instances     *)
(* apart here: the start removes its Singleton files.                      *)
(***************************************************************************)
EXTENDS Integers, FiniteSets

CONSTANTS Procs,     \* run processes, one Chrome each
          Dirs,      \* profile directories
          ByPath,    \* processes whose command line names main.py, not "-m ghost_shell"
          Matches,   \* <<d, e>>: the path d is found in the command line of a Chrome on e
          Places,    \* bound: <<p, d>>, the directories a process is launched on
          Free,      \* no lock file, no directory
          Attempts,  \* launches one start makes (3)
          MaxFrights \* bound: frozen processes, lost writes, slow beats

ASSUME LockAssumption == /\ ByPath \subseteq Procs
                         /\ Matches \subseteq Dirs \X Dirs
                         /\ \A d \in Dirs : <<d, d>> \in Matches
                         /\ Places \subseteq Procs \X Dirs /\ Free \notin Procs \cup Dirs
                         /\ Attempts \in Nat \ {0} /\ MaxFrights \in Nat

VARIABLES
  at,      \* where each process is: gone, idle, guarded, swept, claimed, failed, retry, up, closing
  dir,     \* the directory it works on
  tries,   \* launches its start has made
  path,    \* _gs_lock_path is set
  beat,    \* its heartbeat thread: none, waiting, or between the read and the write
  frozen,  \* processes the host has suspended
  lock,    \* whose pid each directory's lock file holds
  fresh,   \* directories whose lock was refreshed less than 180 s ago
  chrome,  \* processes whose Chrome is alive
  orphans, \* directories with a Chrome whose process is gone
  breach,  \* history: directories on which the lock could not keep two processes apart
  frights  \* faults so far

lockVars == <<at, dir, tries, path, beat, frozen, lock, fresh, chrome, orphans, breach, frights>>
files    == <<lock, fresh>>
browsers == <<chrome, orphans>>

\* The process has passed the guard of a start, or is closing its browser.
Works(p, d) == dir[p] = d /\ at[p] \notin {"gone", "idle"}

\* It works on its directory and its lock does not show it: not there yet, not
\* there between two launches, not there any more, or not taken for a run's.
Exposed(p) == /\ at[p] \notin {"gone", "idle"}
              /\ at[p] \in {"guarded", "swept", "retry", "closing"} \/ p \notin ByPath

Awake(p) == at[p] # "gone" /\ p \notin frozen

\* _is_lock_live: the pid is alive, pid_looks_like_ghost_shell, and the
\* heartbeat is fresh.
Live(d) == lock[d] \in ByPath /\ at[lock[d]] # "gone" /\ d \in fresh

Fright == frights < MaxFrights /\ frights' = frights + 1

LockInit == /\ at = [p \in Procs |-> "gone"] /\ dir = [p \in Procs |-> Free]
            /\ tries = [p \in Procs |-> 0] /\ path = {} /\ beat = [p \in Procs |-> "none"]
            /\ frozen = {}
            /\ lock = [d \in Dirs |-> Free] /\ fresh = {}
            /\ chrome = {} /\ orphans = {}
            /\ breach = {} /\ frights = 0
-----------------------------------------------------------------------------
(* A start.                                                                *)

\* A run process is launched for a profile.
Spawned(p, d) == /\ at[p] = "gone" /\ <<p, d>> \in Places
                 /\ at'  = [at EXCEPT ![p] = "idle"]
                 /\ dir' = [dir EXCEPT ![p] = d]
                 /\ UNCHANGED <<tries, path, beat, frozen, files, browsers, breach, frights>>

\* The guard, past which another process of the directory may be exposed.
\* A process that is refused stays without a browser.
Guard(p) ==
  /\ at[p] = "idle" /\ Awake(p) /\ ~Live(dir[p])
  /\ at' = [at EXCEPT ![p] = "guarded"]
  /\ tries' = [tries EXCEPT ![p] = 1]
  /\ breach' = breach \cup {dir[q] : q \in {q \in Procs \ {p} : dir[q] = dir[p] /\ Exposed(q)}}
  /\ UNCHANGED <<dir, path, beat, frozen, files, browsers, frights>>

\* Seeded fault: every Chrome that has a profile of ours, whatever its path.
SweptFault(d) == /\ chrome'  = {q \in chrome : dir[q] \notin Dirs}
                 /\ orphans' = {}

\* Every Chrome whose command line holds the path, whoever's it is.
Swept(d) == /\ chrome'  = {q \in chrome : <<d, dir[q]>> \notin Matches}
            /\ orphans' = {e \in orphans : <<d, e>> \notin Matches}

\* The pre-flight sweep (the validator's repairs follow).
Sweep(p) == /\ at[p] = "guarded" /\ Awake(p)
            /\ Swept(dir[p])
            /\ at' = [at EXCEPT ![p] = "swept"]
            /\ UNCHANGED <<dir, tries, path, beat, frozen, files, breach, frights>>

\* Seeded fault: the lock is written, but nothing refreshes it.
ClaimFault(p) == /\ at[p] \in {"swept", "retry"} /\ Awake(p)
                 /\ at'    = [at EXCEPT ![p] = "claimed"]
                 /\ lock'  = [lock EXCEPT ![dir[p]] = p]
                 /\ fresh' = fresh \cup {dir[p]}
                 /\ path'  = path \cup {p}
                 /\ UNCHANGED <<dir, tries, beat, frozen, browsers, breach, frights>>

\* _start_once takes the lock over, whoever's it is, and starts the heartbeat.
Claim(p) == /\ at[p] \in {"swept", "retry"} /\ Awake(p)
            /\ at'    = [at EXCEPT ![p] = "claimed"]
            /\ lock'  = [lock EXCEPT ![dir[p]] = p]
            /\ fresh' = fresh \cup {dir[p]}
            /\ path'  = path \cup {p}
            /\ beat'  = [beat EXCEPT ![p] = "waiting"]
            /\ UNCHANGED <<dir, tries, frozen, browsers, breach, frights>>

\* The lock could not be written: the launch goes on without one.
ClaimFails(p) == /\ at[p] \in {"swept", "retry"} /\ Awake(p) /\ Fright
                 /\ at'     = [at EXCEPT ![p] = "claimed"]
                 /\ path'   = path \ {p}
                 /\ breach' = breach \cup {dir[p]}
                 /\ UNCHANGED <<dir, tries, beat, frozen, files, browsers>>

\* Chrome is started and the driver connected.
Up(p) == /\ at[p] = "claimed" /\ Awake(p)
         /\ at'     = [at EXCEPT ![p] = "up"]
         /\ tries'  = [tries EXCEPT ![p] = 0]
         /\ chrome' = chrome \cup {p}
         /\ UNCHANGED <<dir, path, beat, frozen, files, orphans, breach, frights>>

\* The lock file goes, whoever's it is, if this process had written one.
Unlock(p) == /\ lock' = IF p \in path THEN [lock EXCEPT ![dir[p]] = Free] ELSE lock
             /\ path' = path \ {p}

\* stop, then a join of two seconds: a thread that is slow in its write
\* outlives it.
Hush(p) == \/ beat[p] # "write" /\ beat' = [beat EXCEPT ![p] = "none"] /\ UNCHANGED frights
           \/ beat[p] = "write" /\ beat' = [beat EXCEPT ![p] = "late"] /\ Fright

\* The driver's constructor fails and leaves a Chrome nobody refers to.
LaunchDies(p) == /\ at[p] = "claimed" /\ Awake(p)
                 /\ at' = [at EXCEPT ![p] = "failed"]
                 /\ orphans' = orphans \cup {dir[p]}
                 /\ UNCHANGED <<dir, tries, path, beat, frozen, files, chrome, breach, frights>>

\* What follows _cleanup_after_failed_start: another launch, the last one
\* without extensions, or the exception.
Again(p) == IF tries[p] < Attempts
            THEN tries' = [tries EXCEPT ![p] = @ + 1] /\ at' = [at EXCEPT ![p] = "retry"]
            ELSE tries' = [tries EXCEPT ![p] = 0]     /\ at' = [at EXCEPT ![p] = "idle"]

\* Seeded fault: only a driver that is known is killed.
CleanUpFault(p) == /\ at[p] = "failed" /\ Awake(p)
                   /\ Hush(p) /\ Unlock(p) /\ Again(p)
                   /\ UNCHANGED <<dir, frozen, fresh, browsers, breach>>

\* The leftovers are swept, the heartbeat stopped and the lock removed.
CleanUp(p) == /\ at[p] = "failed" /\ Awake(p)
              /\ Swept(dir[p])
              /\ Hush(p) /\ Unlock(p) /\ Again(p)
              /\ UNCHANGED <<dir, frozen, fresh, breach>>
-----------------------------------------------------------------------------
(* The heartbeat thread: the file is read, its pid compared, and written.  *)

BeatRead(p) == /\ beat[p] = "waiting" /\ Awake(p)
               /\ beat' = [beat EXCEPT ![p] = IF p \in path /\ lock[dir[p]] = p THEN "write" ELSE "none"]
               /\ UNCHANGED <<at, dir, tries, path, frozen, files, browsers, breach, frights>>

\* A late write may take the lock from the next process of the directory.
BeatWrite(p) == /\ beat[p] \in {"write", "late"} /\ Awake(p)
                /\ lock'  = [lock EXCEPT ![dir[p]] = p]
                /\ fresh' = fresh \cup {dir[p]}
                /\ beat'  = [beat EXCEPT ![p] = IF @ = "late" THEN "none" ELSE "waiting"]
                /\ breach' = breach \cup {dir[q] : q \in {q \in Procs \ {p} : Works(q, dir[p])}}
                /\ UNCHANGED <<at, dir, tries, path, frozen, browsers, frights>>

Beats(d) == \E p \in Procs : dir[p] = d /\ Awake(p) /\ beat[p] \in {"waiting", "write"} /\ lock[d] = p

\* 180 s pass without a refresh.
Age(d) == /\ d \in fresh /\ ~Beats(d)
          /\ fresh'  = fresh \ {d}
          /\ breach' = IF \E p \in frozen : at[p] \notin {"gone", "idle"} /\ dir[p] = d
                       THEN breach \cup {d} ELSE breach
          /\ UNCHANGED <<at, dir, tries, path, beat, frozen, lock, browsers, frights>>
-----------------------------------------------------------------------------
(* The end of a browser and of a process.                                  *)

\* Seeded fault: the lock stays for the next start to find.
CloseFault(p) == /\ at[p] = "up" /\ Awake(p)
                 /\ at' = [at EXCEPT ![p] = "closing"]
                 /\ UNCHANGED <<dir, tries, path, beat, frozen, files, browsers, breach, frights>>

\* close: the heartbeat and the lock go first ...
Close(p) == /\ at[p] = "up" /\ Awake(p)
            /\ Hush(p)
            /\ Unlock(p)
            /\ at' = [at EXCEPT ![p] = "closing"]
            /\ UNCHANGED <<dir, tries, frozen, fresh, browsers, breach>>

\* ... then the session is saved and Chrome quits.  restart goes on to Guard.
Quit(p) == /\ at[p] = "closing" /\ Awake(p)
           /\ at'     = [at EXCEPT ![p] = "idle"]
           /\ chrome' = chrome \ {p}
           /\ UNCHANGED <<dir, tries, path, beat, frozen, files, orphans, breach, frights>>

\* The process ends or is killed, alone or with its tree; a setup error in
\* _start_once ends it with its lock in place.
Ends(p) == /\ at[p] # "gone"
           /\ at'     = [at EXCEPT ![p] = "gone"]
           /\ dir'    = [dir EXCEPT ![p] = Free]
           /\ tries'  = [tries EXCEPT ![p] = 0]
           /\ path'   = path \ {p}
           /\ beat'   = [beat EXCEPT ![p] = "none"]
           /\ frozen' = frozen \ {p}
           /\ chrome' = chrome \ {p}
           /\ orphans' \in IF p \in chrome THEN {orphans, orphans \cup {dir[p]}} ELSE {orphans}
           /\ UNCHANGED <<files, breach, frights>>

\* The host sleeps, or the process is starved.
Freeze(p) == /\ Awake(p) /\ Fright
             /\ frozen' = frozen \cup {p}
             /\ UNCHANGED <<at, dir, tries, path, beat, files, browsers, breach>>

Thaw(p) == /\ p \in frozen
           /\ frozen' = frozen \ {p}
           /\ UNCHANGED <<at, dir, tries, path, beat, files, browsers, breach, frights>>

LockNext == \/ \E p \in Procs :
                 \/ \E d \in Dirs : Spawned(p, d)
                 \/ Guard(p) \/ Sweep(p) \/ Claim(p) \/ ClaimFails(p) \/ Up(p)
                 \/ LaunchDies(p) \/ CleanUp(p)
                 \/ BeatRead(p) \/ BeatWrite(p)
                 \/ Close(p) \/ Quit(p) \/ Ends(p) \/ Freeze(p) \/ Thaw(p)
            \/ \E d \in Dirs : Age(d)

LockSpec == LockInit /\ [][LockNext]_lockVars
-----------------------------------------------------------------------------
(* Two processes work on one directory only when one of them passed the    *)
(* guard while the other had no lock yet, no lock between two launches, no *)
(* lock any more or one that is not recognised as a run's, or when a lock  *)
(* could not be written, went stale in a suspended process or was written  *)
(* by the slow heartbeat of a browser that is closed already: nothing else *)
(* gets past the guard, whoever dies, retries, closes or restarts.         *)
OneAtATime == \A p, q \in Procs : \A d \in Dirs \ breach : Works(p, d) /\ Works(q, d) => p = q

Prefixed(d) == \E e \in Dirs \ {d} : <<e, d>> \in Matches

(* A browser that is up keeps its Chrome, unless a start on its own        *)
(* directory got past the guard like that or there is a directory whose    *)
(* path is the beginning of its own: the sweep looks for the path anywhere *)
(* in the command line.                                                    *)
BrowserKept == \A p \in Procs : at[p] = "up" /\ p \notin chrome =>
                  dir[p] \in breach \/ Prefixed(dir[p])

(* Otherwise nothing of a run that died or of a launch that failed is left *)
(* in a directory where a Chrome is launched or up.                        *)
NoOrphanBeside == \A p \in Procs : at[p] \in {"claimed", "up"} /\ dir[p] \in orphans => dir[p] \in breach

(* A lock is kept fresh only while its process works on the directory: a   *)
(* browser that was closed, a launch that failed or a process that died    *)
(* locks nobody out for more than the 180 s.                               *)
NoIdleBeat == \A d \in Dirs : Beats(d) => \E p \in Procs : Works(p, d)
=============================================================================
