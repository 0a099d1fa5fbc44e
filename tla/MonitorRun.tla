------------------------------- MODULE MonitorRun -------------------------------
(***************************************************************************)
(* What a monitor process does between its launch and its exit code        *)
(* (main.py: run_monitor, search_query): the gates before the first        *)
(* search, the loop over the queries, a captcha's escalation and a         *)
(* browser's recovery, with what outlives the process and steers the next  *)
(* run: the profile's quality log (session/quality.py) and                 *)
(* needs_attention.  The history of exit addresses (ip_history) is left    *)
(* open: any address may be on record as burned.                           *)
(***************************************************************************)
EXTENDS Integers

CONSTANTS Exits,      \* addresses the proxy may leave by
          Setups,     \* configurations: [rotating, api, onStart, every, check, checkEvery, geo,
                      \*                  forced, restart, flow]
          Searches,   \* bound: queries of a run
          RefreshMax, \* search.refresh_max_attempts
          RotateMax,  \* CAPTCHA_ROTATE_MAX
          RecoverMax, \* _RECOVERY_ATTEMPTS["max"]
          GeoTries,   \* MAX_ROTATE_TRIES
          JudgeAfter, \* MIN_SEARCHES_FOR_JUDGE
          SilentMax,  \* SILENT_DEMOTION_BURN_THRESHOLD
          MaxRuns,    \* bound: runs of the profile; the operator steps in before the last
          Unknown     \* None, for an address

ASSUME MonitorAssumption ==
  /\ Searches \in Nat /\ MaxRuns \in Nat /\ RecoverMax \in Nat
  /\ {RefreshMax, RotateMax, GeoTries, JudgeAfter, SilentMax} \subseteq Nat \ {0}
  /\ Unknown \notin Exits

VARIABLES
  setup,    \* configuration of the current run
  nth,      \* rows of the profile in the runs table, this run's included
  run,      \* run_monitor: where it is, what it knows and what it has counted
  query,        \* search_query: its locals
  quality,  \* session_quality.json: events of the last hour and day, and how many in all
  flagged,  \* needs_attention
  code      \* exit code of the run, once it has ended

kept      == <<quality, flagged>>
monitorVars == <<setup, nth, run, query, kept, code>>

\* What the query's own page may hold: ads, none among many or among few results, or a barrier; "stub" is
\* what a timeout leaves of it, and "elsewhere" a page of another site.
Serp  == {"ads", "plenty", "bare", "captcha", "offline", "preview"}
Zero  == [searches |-> 0, captchas |-> 0]
Fresh == [at |-> "done", i |-> 0, ip |-> Unknown, probed |-> FALSE, tries |-> 0, recovered |-> 0, diag |-> "none",
          streak |-> 0, queries |-> 0, captchas |-> 0, logged |-> Zero]
NoQuery == [page |-> "none", ip |-> Unknown, attempt |-> 0, rotated |-> 0, moved |-> FALSE,
            failed |-> FALSE]

MonitorInit ==
  /\ setup \in Setups /\ nth = 0 /\ run = Fresh /\ query = NoQuery
  /\ quality = [hour |-> Zero, day |-> Zero, log |-> 0]
  /\ flagged = FALSE
  /\ code = 0

At1(place)  == run.at = place
GoTo(place) == run' = [run EXCEPT !.at = place]
\* The end of the process, whichever way it leaves run_monitor; what it knew is gone.
Ended(c)    == run' = Fresh /\ query' = NoQuery /\ code' = c
Stays       == UNCHANGED <<query, code>>
-----------------------------------------------------------------------------
(* The address and its record.                                             *)

\* What a probe of the exit sees; the provider may change it at any time.  Where the probe fails, the last
\* address the tracker has seen serves, if it has seen one.
Probes == Exits \cup (IF run.probed THEN {} ELSE {Unknown})

\* What force_rotate_ip returns: the old address if the call is refused, and if it is granted a new one,
\* or None where the polls show none.
Rotations == IF ~setup.rotating THEN {Unknown} ELSE Probes \cup (IF setup.api THEN {Unknown} ELSE {})

\* The tracker knows an address from now on.
Knows(ip) == run.probed \/ ip # Unknown

\* sqm.record, n times
Tally(t, kind, n) == IF kind \in DOMAIN t THEN [t EXCEPT ![kind] = @ + n] ELSE t
Recorded(qu, kind, n) == [hour |-> Tally(qu.hour, kind, n), day |-> Tally(qu.day, kind, n),
                          log |-> IF qu.log + n > 3 THEN 3 ELSE qu.log + n]

\* get_health and should_abort ("blocked" is never recorded).
Total(t)   == t.searches + t.captchas
Spoilt(t)  == Total(t) >= JudgeAfter /\ 10 * t.captchas >= 7 * Total(t)
Critical   == quality.log >= 3 /\ (Spoilt(quality.day) \/ Spoilt(quality.hour))
-----------------------------------------------------------------------------
(* The gates before the first search.                                      *)

ShouldRotate == setup.onStart /\ (setup.every = 1 \/ nth % setup.every = 1)

\* The browser comes up, or the run has failed.
LaunchRun ==
  /\ At1("done") /\ nth < MaxRuns /\ nth' = nth + 1
  /\ setup' \in Setups
  /\ \/ run' = [Fresh EXCEPT !.at = "rotate"] /\ code' = 0
     \/ run' = Fresh /\ code' = 1
  /\ query' = NoQuery /\ UNCHANGED kept

\* The early rotation for a burned profile imports a module that does not exist: only the cadence counts.
RotateOnStart ==
  /\ At1("rotate")
  /\ IF setup.rotating /\ ShouldRotate
     THEN \E ip \in Rotations : run' = [run EXCEPT !.at = "burned", !.ip = ip, !.probed = Knows(ip)]
     ELSE GoTo("burned")
  /\ UNCHANGED <<setup, nth, query, kept, code>>

\* check_and_rotate_if_burned: if the address is on record as burned in the last half day it is rotated
\* away, or kept where no other is seen.
CheckBurned ==
  /\ At1("burned") /\ UNCHANGED <<setup, nth, query, kept, code>>
  /\ IF setup.rotating /\ run.ip = Unknown
     THEN \E p \in Probes : \E seen \in IF p = Unknown THEN {p} ELSE Exits :
            run' = [run EXCEPT !.at = "health", !.ip = seen, !.probed = Knows(seen)]
     ELSE GoTo("health")

\* Seeded fault: a burned profile is flagged and goes on.
HealthFault ==
  /\ At1("health") /\ UNCHANGED <<setup, nth, quality>> /\ GoTo("diagnose") /\ Stays
  /\ flagged' = IF ~Critical THEN flagged /\ quality.log < 3 ELSE flagged \/ ~setup.rotating

\* A burned profile on a static proxy does not run, unless the operator forces it.
Health ==
  /\ At1("health") /\ UNCHANGED <<setup, nth, quality>>
  /\ flagged' = IF ~Critical THEN flagged /\ quality.log < 3 ELSE flagged \/ ~setup.rotating
  /\ IF Critical /\ ~setup.rotating /\ ~setup.forced THEN Ended(75) ELSE GoTo("diagnose") /\ Stays

\* The proxy's diagnosis, when it is due, may end the run, with exit code 0, or send it to look for home.
Diagnose ==
  /\ At1("diagnose") /\ UNCHANGED <<setup, nth, kept>>
  /\ IF setup.check \/ ShouldRotate \/ nth = 1 \/ nth % setup.checkEvery = 1
     THEN \/ \E seen \in Exits \cup {Unknown} :
                /\ run' = [run EXCEPT !.at = "seed", !.ip = IF @ = Unknown THEN seen ELSE @] /\ Stays
          \/ \E seen \in Exits : setup.geo = "rotate" /\ setup.rotating
                /\ run' = [run EXCEPT !.at = "geo", !.ip = IF @ = Unknown THEN seen ELSE @] /\ Stays
          \/ Ended(0)
     ELSE GoTo("seed") /\ Stays

\* Home, a check that failed, or abroad again; the address found is not taken over into current_ip.
GeoRotate ==
  /\ At1("geo") /\ UNCHANGED <<setup, nth, kept>>
  /\ \/ GoTo("seed") /\ Stays
     \/ run.tries + 1 < GeoTries /\ run' = [run EXCEPT !.tries = @ + 1] /\ Stays
     \/ run.tries + 1 = GeoTries /\ Ended(0)

\* The consent page of a fresh profile may be offline.
SeedConsent == /\ At1("seed") /\ UNCHANGED <<setup, nth, kept>>
        /\ \/ GoTo("loop") /\ Stays
           \/ Ended(0)
-----------------------------------------------------------------------------
(* One query (search_query).                                               *)

\* _try_recover_browser
CanRecover     == run.recovered < RecoverMax
Recovered(r)   == IF CanRecover THEN [r EXCEPT !.recovered = @ + 1] ELSE r

\* The next query, if Chrome is there or comes back; flows look after their browser themselves.
NextQuery ==
  /\ At1("loop") /\ run.i < Searches
  /\ query' = [NoQuery EXCEPT !.ip = run.ip, !.attempt = 1]
  /\ \/ run' = [run EXCEPT !.at = "open"]
     \/ ~setup.flow /\ CanRecover /\ run' = [Recovered(run) EXCEPT !.at = "open"]
     \/ ~setup.flow /\ run' = [Recovered(run) EXCEPT !.at = "end"]
  /\ UNCHANGED <<setup, nth, kept, code>>

\* What search_query returns goes to the loop, or to the flow's callback, which only passes it on.
Returned(r, page) ==
  /\ run' = IF setup.flow THEN [r EXCEPT !.at = "loop", !.i = @ + 1] ELSE [r EXCEPT !.at = "settle"]
  /\ query' = IF setup.flow THEN NoQuery ELSE [NoQuery EXCEPT !.page = page]

\* stealth_get: the page, what a timeout has left of it, or a dead browser and one more try.
Navigate ==
  /\ At1("open") /\ UNCHANGED <<setup, nth, kept, code>>
  /\ \/ \E p \in Serp : query' = [query EXCEPT !.page = p] /\ GoTo("judge")
     \/ query' = [query EXCEPT !.page = "stub"] /\ GoTo("judge")
     \/ /\ CanRecover
        /\ \E p \in Serp : query' = [query EXCEPT !.page = p]
        /\ run' = [Recovered(run) EXCEPT !.at = "judge"]
     \/ Returned(Recovered(run), "none")

Barrier == At1("judge") /\ query.page \in {"offline", "preview"} /\ Returned(run, query.page)
           /\ UNCHANGED <<setup, nth, kept, code>>

\* Seeded fault: a round starts over without being counted.
NextRoundFault(r, next) == run' = [r EXCEPT !.at = "judge"] /\ query' = next

\* The next round of the loop; there is none after the last.
NextRound(r, next) == /\ run' = [r EXCEPT !.at = IF query.attempt = RefreshMax THEN "over" ELSE "judge"]
                      /\ query' = [next EXCEPT !.attempt = @ + 1]

Exhausted == /\ At1("over") /\ Returned(run, "none")
        /\ UNCHANGED <<setup, nth, kept, code>>

RotationAvailable == setup.rotating /\ setup.api

\* A captcha asks for another address.  A new one is warmed up elsewhere (a site may fail), and the page
\* is not loaded again: search_url is not a name of this function.
RotateOnCaptcha ==
  /\ At1("judge") /\ query.page = "captcha" /\ RotationAvailable /\ query.rotated < RotateMax
  /\ quality' = Recorded(quality, "captcha_rotated", 1)
  /\ \E ip \in Rotations : LET next == [query EXCEPT !.rotated = @ + 1] IN
          \/ ip \notin {Unknown, query.ip}
             /\ \E p \in {"captcha", "elsewhere"} :
                  NextRound([run EXCEPT !.probed = TRUE],
                        [next EXCEPT !.ip = ip, !.page = p, !.moved = TRUE, !.failed = p = "captcha"])
          \/ ip = query.ip /\ NextRound(run, next)
          \/ ip = Unknown /\ query.ip # Unknown /\ GoTo("yield") /\ query' = next
  /\ UNCHANGED <<setup, nth, flagged, code>>

NoMoreRotations ==
  /\ At1("judge") /\ query.page = "captcha" /\ (~RotationAvailable \/ query.rotated = RotateMax)
  /\ GoTo(IF RotationAvailable /\ setup.restart THEN "restart" ELSE "yield")
  /\ UNCHANGED <<setup, nth, query, kept, code>>

\* The whole session starts anew and rotates once more.  The reload fails by its name, and the driver
\* the function holds is the old one: asking it for its address raises, and no captcha is recorded.
RestartSession ==
  /\ At1("restart")
  /\ GoTo("raise") /\ UNCHANGED <<setup, nth, query, kept, code>>

\* Seeded fault: a captcha reaches the log and not the counters.
CountCaptchaFault(r) == Returned([r EXCEPT !.logged = Tally(@, "captchas", 1)], "captcha")
                        /\ quality' = Recorded(quality, "captchas", 1)

\* The captcha is recorded and counted.
CountCaptcha(r) ==
  /\ Returned([r EXCEPT !.captchas = @ + 1, !.logged = Tally(@, "captchas", 1)], "captcha")
  /\ quality' = Recorded(quality, "captchas", 1)
\* A browser that dies now is asked for its address all the same.
Lost == /\ \/ At1("yield")
           \/ At1("judge") /\ query.page = "captcha"
        /\ GoTo("raise") /\ UNCHANGED <<setup, nth, query, kept, code>>
GiveUp == /\ At1("yield") /\ CountCaptcha(run)
          /\ UNCHANGED <<setup, nth, flagged, code>>

\* parse_ads leaves behind what it saw; a page it cannot read leaves the note of the last one.
Seen == IF query.page = "ads" THEN "none" ELSE query.page

Found == /\ At1("judge") /\ query.page = "ads" /\ Returned([run EXCEPT !.diag = "none"], "ads")
         /\ UNCHANGED <<setup, nth, kept, code>>
NoAds == At1("judge") /\ query.page \in {"plenty", "bare", "stub", "elsewhere"}
LateCaptcha == /\ NoAds /\ CountCaptcha([run EXCEPT !.diag = Seen])
               /\ UNCHANGED <<setup, nth, flagged, code>>
GiveBack == /\ NoAds /\ query.attempt = RefreshMax /\ Returned([run EXCEPT !.diag = Seen], "none")
            /\ UNCHANGED <<setup, nth, kept, code>>

\* A refresh shows the page anew, fails, or finds the browser dead; a new browser has another page open.
Refresh ==
  /\ NoAds /\ query.attempt < RefreshMax /\ UNCHANGED <<setup, nth, kept, code>>
  /\ LET r == [run EXCEPT !.diag = Seen] IN
     \/ \E p \in IF query.page = "elsewhere" THEN {query.page} ELSE Serp : NextRound(r, [query EXCEPT !.page = p])
     \/ NextRound(r, IF query.page = "elsewhere" THEN query ELSE [query EXCEPT !.page = "stub"])
     \/ /\ CanRecover
        /\ NextRound(Recovered(r), [query EXCEPT !.page = "elsewhere", !.failed = TRUE])
     \/ Returned(Recovered(r), "none")
-----------------------------------------------------------------------------
(* The loop over the queries.                                              *)

\* An exception of search_query: a dead browser is brought back, a flow's callback hides it.
Raised ==
  /\ At1("raise") /\ UNCHANGED <<setup, nth, kept>>
  /\ LET past(r) == [r EXCEPT !.at = "loop", !.i = @ + 1] IN
     IF setup.flow THEN run' = past(run) /\ Stays
     ELSE \/ Ended(1)
          \/ /\ Stays
             /\ \/ CanRecover /\ run' = past(Recovered(run))
                \/ run' = [Recovered(run) EXCEPT !.at = "end"]

\* The counters and the log of a query that returned.  An empty page among many results counts as a
\* silent demotion, and the third of them in a row as a captcha.
Settle ==
  /\ At1("settle") /\ query' = NoQuery /\ UNCHANGED <<setup, nth, flagged, code>>
  /\ LET r      == [run EXCEPT !.at = "loop", !.i = @ + 1, !.queries = @ + 1, !.logged = Tally(@, "searches", 1)]
         streak == IF query.page # "ads" /\ run.diag = "plenty" THEN run.streak + 1 ELSE 0
         qu     == Recorded(quality, "searches", 1)
     IN IF streak = SilentMax
        THEN /\ run' = [r EXCEPT !.streak = streak, !.captchas = @ + 1, !.logged = Tally(@, "captchas", 1)]
             /\ quality' = Recorded(Recorded(qu, "silent_demotion", 1), "captchas", 1)
        ELSE run' = [r EXCEPT !.streak = streak] /\ quality' = qu

End == /\ \/ At1("loop") /\ run.i = Searches
          \/ At1("end")
       /\ Ended(0) /\ UNCHANGED <<setup, nth, kept>>
-----------------------------------------------------------------------------
(* The world: a stop or an unforeseen error, and between two runs time and the operator.  *)

Interrupted == /\ ~At1("done") /\ (\E c \in {1, 130} : Ended(c)) /\ UNCHANGED <<setup, nth, kept>>

HourPasses == /\ At1("done") /\ quality.hour # Zero /\ quality' = [quality EXCEPT !.hour = Zero]
              /\ UNCHANGED <<setup, nth, run, query, flagged, code>>

DayPasses == /\ At1("done") /\ quality.day # Zero
             /\ quality' = [quality EXCEPT !.hour = Zero, !.day = Zero]
             /\ UNCHANGED <<setup, nth, run, query, flagged, code>>

\* POST /reset-health adds a successful search, /clear-session-quality forgets everything.
Repair == /\ At1("done") /\ nth = MaxRuns - 1 /\ quality.day.searches < JudgeAfter
          /\ quality' \in {Recorded(quality, "searches", 1), [hour |-> Zero, day |-> Zero, log |-> 0]}
          /\ UNCHANGED <<setup, nth, run, query, flagged, code>>

\* POST /clear-attention
ClearAttention == At1("done") /\ flagged /\ flagged' = FALSE
                  /\ UNCHANGED <<setup, nth, run, query, quality, code>>

Gates == RotateOnStart \/ CheckBurned \/ Health \/ Diagnose \/ GeoRotate \/ SeedConsent
Query == Navigate \/ Barrier \/ Exhausted \/ RotateOnCaptcha \/ NoMoreRotations \/ RestartSession \/ GiveUp \/ Lost
           \/ Found \/ LateCaptcha \/ GiveBack \/ Refresh
MonitorStep == Gates \/ Query \/ NextQuery \/ Raised \/ Settle \/ End
MonitorNext == MonitorStep \/ LaunchRun \/ Interrupted \/ HourPasses \/ DayPasses \/ Repair \/ ClearAttention

MonitorSpec == MonitorInit /\ [][MonitorNext]_monitorVars
-----------------------------------------------------------------------------
(* Properties.                                                             *)

\* The counters of the run's row and the events it has written to the quality log agree, over all the
\* places that record a captcha: "incremented next to the point where the corresponding sqm.record()
\* call sits" (main.py:2200).
CountersAgree == run.logged = [searches |-> run.queries, captchas |-> run.captchas]

\* Behind a static proxy an unforced run gets past the gates only with a log that does not call the profile
\* burned, and a flag of an earlier run has then been lifted, or there is too little to judge by.
BurnedStaysOut ==
  run.at \in {"diagnose", "geo", "seed"} /\ ~setup.rotating /\ ~setup.forced =>
    ~Critical /\ (flagged => quality.log < 3)

\* Every retry of a run has an end: while the main thread is scheduled, it comes to its exit code.
RunEnds == ~At1("done") ~> At1("done")

\* After a rotation the query is judged by its own page, unless the network failed: the loop is to
\* "force-rotate the IP and reload" (main.py:1745).
JudgesItsSerp == query.moved /\ ~query.failed /\ At1("judge") => query.page # "elsewhere"
=============================================================================
