------------------------------ MODULE Watchdogs ------------------------------
(***************************************************************************)
(* The two watchdogs of a run (browser/watchdog.py, and the probe threads  *)
(* of browser/runtime.py), the main thread they guard, and the browser     *)
(* generations a run goes through when it recovers (main.py).              *)
(*                                                                         *)
(* The first watchdog, the dog, kills the processes it saw when it began   *)
(* once the main thread has not reported for max_stall_sec.  The second    *)
(* asks the driver a question every 30 s and kills Chrome after KillAfter  *)
(* failures in a row.  The shields of actions/runner.py find no browser in *)
(* the contexts they are given, so only a rotation pauses the second.      *)
(***************************************************************************)
EXTENDS Integers

CONSTANTS Generations, \* bound: Chromes of one run, one after the other (the budget is 2 restarts)
          KillAfter    \* WATCHDOG_KILL_AFTER

ASSUME WatchdogsAssumption == Generations \in Nat \ {0} /\ KillAfter \in Nat \ {0, 1}

Gens == 1..Generations

VARIABLES
  main,   \* what the main thread does
  on,     \* the generation its driver command was sent to
  health, \* Chrome of each generation: unborn, ok, wedged or dead
  driver, \* the generation browser.driver talks to, or 0
  gen,    \* generations launched
  reported, \* the last heartbeat is younger than max_stall_sec
  dog,    \* the first watchdog watches
  eased,  \* ... but inside dog.pause
  stop,   \* _watchdog_stop
  pause,  \* _watchdog_pause
  fails,  \* _watchdog_fail_count
  probe,  \* the probe thread of each start
  asked,  \* the generation its last question went to
  strikes,\* history: failures each generation has had since it last answered
  crossed \* history: a probe thread was still busy when the next browser came

dogsVars == <<main, on, health, driver, gen, reported, dog, eased, stop, pause, fails, probe, asked, strikes, crossed>>
browser  == <<health, driver, gen>>
flags    == <<stop, pause, fails>>
threads  == <<probe, asked, strikes, crossed>>

\* Where the main thread waits and does not report.  (A rotation is shorter
\* than max_stall_sec.)
Silent == main \in {"call", "long", "closing", "starting"}

Wedged(g) == g # 0 /\ health[g] = "wedged"

DogsInit == /\ main = "work" /\ on = 0
            /\ health = [g \in Gens |-> IF g = 1 THEN "ok" ELSE "unborn"]
            /\ driver = 1 /\ gen = 1
            /\ reported = TRUE /\ dog = TRUE /\ eased = FALSE
            /\ stop = FALSE /\ pause = FALSE /\ fails = 0
            /\ probe = [g \in Gens |-> IF g = 1 THEN "wait" ELSE "none"]
            /\ asked = [g \in Gens |-> 0]
            /\ strikes = [g \in Gens |-> 0] /\ crossed = FALSE
-----------------------------------------------------------------------------
(* The main thread.                                                        *)

\* A driver command.
Command == /\ main = "work" /\ driver # 0
           /\ main' = "call" /\ on' = driver
           /\ UNCHANGED <<browser, reported, dog, eased, flags, threads>>

\* It returns, and the next step reports.
Returns == /\ main = "call" /\ health[on] = "ok"
           /\ main' = "work" /\ on' = 0 /\ reported' = TRUE
           /\ UNCHANGED <<browser, dog, eased, flags, threads>>

\* A step that takes long without a report; the legacy loop pauses the dog for
\* the actions it runs on ads.
LongStep == /\ main = "work"
            /\ main' = "long" /\ eased' \in BOOLEAN
            /\ UNCHANGED <<on, browser, reported, dog, flags, threads>>

LongEnds == /\ main = "long"
            /\ main' = "work" /\ eased' = FALSE /\ reported' = TRUE
            /\ UNCHANGED <<on, browser, dog, flags, threads>>

\* Ten minutes in dog.pause.
EaseEnds == /\ eased /\ eased' = FALSE
            /\ UNCHANGED <<main, on, browser, reported, dog, flags, threads>>

\* Seeded fault: the count goes on after the pause.
RotateFault == /\ main = "work"
               /\ main' = "rotating" /\ pause' = TRUE
               /\ UNCHANGED <<on, browser, reported, dog, eased, stop, fails, threads>>

\* force_rotate_ip and check_and_rotate_if_burned: watchdog_pause ...
Rotate == /\ main = "work"
          /\ main' = "rotating" /\ pause' = TRUE /\ fails' = 0
          /\ UNCHANGED <<on, browser, reported, dog, eased, stop, threads>>

\* ... and watchdog_resume, whatever happened.
Rotated == /\ main = "rotating"
           /\ main' = "work" /\ pause' = FALSE
           /\ UNCHANGED <<on, browser, reported, dog, eased, stop, fails, threads>>

\* close tells the probe threads to stop: those that sleep wake up and end.
Stopping == /\ stop' = TRUE
            /\ probe' = [g \in Gens |-> IF probe[g] = "wait" THEN "none" ELSE probe[g]]

\* The command failed, or there is no driver: one more restart, or the end.
\* A captcha restarts a browser that is well.
Restart == /\ gen < Generations
           /\ \/ main = "call" /\ health[on] = "dead"
              \/ main = "work"
           /\ main' = "closing" /\ on' = 0
           /\ Stopping
           /\ UNCHANGED <<browser, reported, dog, eased, pause, fails, asked, strikes, crossed>>

\* The run is over, the dog first.
Leave == /\ \/ main = "call" /\ health[on] = "dead"
            \/ main = "work"
         /\ main' = "leaving" /\ on' = 0 /\ dog' = FALSE
         /\ Stopping
         /\ UNCHANGED <<browser, reported, eased, pause, fails, asked, strikes, crossed>>

\* driver.quit has returned, the orphan sweep has killed what was left, and
\* the next Chrome is there.
Launch == /\ main = "closing" /\ ~Wedged(driver)
          /\ main' = "starting"
          /\ health' = [g \in Gens |-> IF g = gen + 1 THEN "ok" ELSE IF g <= gen THEN "dead" ELSE "unborn"]
          /\ driver' = gen + 1 /\ gen' = gen + 1
          /\ crossed'  = (crossed \/ \E g \in Gens : probe[g] # "none")
          /\ UNCHANGED <<on, reported, dog, eased, flags, probe, asked, strikes>>

\* Seeded fault: the event is not cleared.
StartedFault == /\ main = "starting" /\ driver # 0 /\ health[driver] = "ok"
                /\ main' = "work" /\ reported' = TRUE
                /\ fails' = 0
                /\ probe' = [probe EXCEPT ![gen] = "wait"]
                /\ UNCHANGED <<on, browser, dog, eased, stop, pause, asked, strikes, crossed>>

\* The session is restored; the event is cleared and a probe thread started.
Started == /\ main = "starting" /\ driver # 0 /\ health[driver] = "ok"
           /\ main' = "work" /\ reported' = TRUE
           /\ stop' = FALSE /\ fails' = 0
           /\ probe' = [probe EXCEPT ![gen] = "wait"]
           /\ UNCHANGED <<on, browser, dog, eased, pause, asked, strikes, crossed>>

StartFails == /\ main = "starting" /\ ~Wedged(driver)
              /\ main' = "leaving" /\ dog' = FALSE
              /\ UNCHANGED <<on, browser, reported, eased, flags, threads>>

\* The process ends, and the threads with it.
Left == /\ main = "leaving" /\ ~Wedged(driver)
        /\ main' = "over"
        /\ driver' = 0 /\ health' = [g \in Gens |-> IF health[g] = "unborn" THEN "unborn" ELSE "dead"]
        /\ probe' = [g \in Gens |-> "none"]
        /\ UNCHANGED <<on, gen, reported, dog, eased, flags, asked, strikes, crossed>>
-----------------------------------------------------------------------------
(* The dog.                                                                *)

\* max_stall_sec without a heartbeat.
Stall == /\ reported /\ Silent
         /\ reported' = FALSE
         /\ UNCHANGED <<main, on, browser, dog, eased, flags, threads>>

\* It kills the Chrome of its start, the first, and watches no more.
DogBites == /\ dog /\ ~reported /\ ~eased
            /\ health' = [health EXCEPT ![1] = "dead"]
            /\ dog' = FALSE
            /\ UNCHANGED <<main, on, driver, gen, reported, eased, flags, threads>>
-----------------------------------------------------------------------------
(* The probe threads.                                                      *)

\* 30 s later: the flags, then driver.title.
Ask(g) == /\ probe[g] = "wait"
          /\ IF stop \/ driver = 0
             THEN probe' = [probe EXCEPT ![g] = "none"] /\ UNCHANGED asked
             ELSE /\ ~pause
                  /\ probe' = [probe EXCEPT ![g] = "ask"]
                  /\ asked' = [asked EXCEPT ![g] = driver]
          /\ UNCHANGED <<main, on, browser, reported, dog, eased, flags, strikes, crossed>>

\* while not _watchdog_stop.is_set()
AskAgain(g) == probe' = [probe EXCEPT ![g] = IF stop THEN "none" ELSE "wait"]

Answers(g) == /\ probe[g] = "ask" /\ health[asked[g]] = "ok"
              /\ fails' = 0
              /\ strikes' = [strikes EXCEPT ![asked[g]] = 0]
              /\ AskAgain(g)
              /\ UNCHANGED <<main, on, browser, reported, dog, eased, stop, pause, asked, crossed>>

\* A slow page, or one that still loads, fails a probe as a wedged browser does.
Fails(g) == /\ probe[g] = "ask"
            /\ health[asked[g]] # "ok" \/ main \in {"call", "long"}
            /\ fails' = fails + 1
            /\ strikes' = [strikes EXCEPT ![asked[g]] = IF @ < KillAfter THEN @ + 1 ELSE @]
            /\ IF fails' >= KillAfter THEN probe' = [probe EXCEPT ![g] = "kill"] ELSE AskAgain(g)
            /\ UNCHANGED <<main, on, browser, reported, dog, eased, stop, pause, asked, crossed>>

\* kill_process_tree of whatever the driver is now ...
Kill(g) == /\ probe[g] = "kill"
           /\ health' = IF driver = 0 THEN health ELSE [health EXCEPT ![driver] = "dead"]
           /\ probe' = [probe EXCEPT ![g] = "forget"]
           /\ UNCHANGED <<main, on, driver, gen, reported, dog, eased, flags, asked, strikes, crossed>>

\* ... and self.driver = None, whatever it is by then.
Forget(g) == /\ probe[g] = "forget"
             /\ driver' = 0
             /\ probe' = [probe EXCEPT ![g] = "none"]
             /\ UNCHANGED <<main, on, health, gen, reported, dog, eased, flags, asked, strikes, crossed>>
-----------------------------------------------------------------------------
\* Chrome hangs, or is closed.
Wedge == /\ driver # 0 /\ health[driver] = "ok"
         /\ health' = [health EXCEPT ![driver] = "wedged"]
         /\ UNCHANGED <<main, on, driver, gen, reported, dog, eased, flags, threads>>

Dies == /\ driver # 0 /\ health[driver] = "ok"
        /\ health' = [health EXCEPT ![driver] = "dead"]
        /\ UNCHANGED <<main, on, driver, gen, reported, dog, eased, flags, threads>>

Main    == Command \/ Returns \/ LongEnds \/ Rotated \/ Launch \/ Started \/ Left
Probe(g) == Ask(g) \/ Answers(g) \/ Fails(g) \/ Kill(g) \/ Forget(g)

DogsNext == \/ Command \/ Returns \/ LongStep \/ LongEnds \/ EaseEnds \/ Rotate \/ Rotated
            \/ Restart \/ Leave \/ Launch \/ Started \/ StartFails \/ Left
            \/ Stall \/ DogBites
            \/ \E g \in Gens : Ask(g) \/ Answers(g) \/ Fails(g) \/ Kill(g) \/ Forget(g)
            \/ Wedge \/ Dies

DogsFairness == /\ WF_dogsVars(Main) /\ WF_dogsVars(Stall \/ DogBites)
                /\ \A g \in Gens : WF_dogsVars(Probe(g))

DogsSpec == DogsInit /\ [][DogsNext]_dogsVars /\ DogsFairness
-----------------------------------------------------------------------------
(* A main thread that waits for a wedged browser is set free: by the       *)
(* probes, also after a restart, when the dog no longer knows whom to      *)
(* kill, unless a probe of an earlier browser was still out at the restart:*)
(* such a thread may drop or kill the new browser.                         *)
WedgeEnds == (main = "call" /\ Wedged(on)) ~> (main # "call" \/ ~Wedged(on) \/ crossed)

(* The probes kill only a browser that has failed KillAfter questions      *)
(* since it last answered, whatever was asked of the browser before it,    *)
(* and none while an address is being rotated.                             *)
StruckOut == [][\A g \in Gens : probe[g] = "ask" /\ probe'[g] = "kill" /\ ~crossed
                  => driver = 0 \/ (strikes'[driver] = KillAfter /\ ~pause)]_dogsVars
=============================================================================
