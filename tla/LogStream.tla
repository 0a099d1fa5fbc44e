------------------------------- MODULE LogStream -------------------------------
(***************************************************************************)
(* A dashboard page that follows the log: broadcast_log numbers a line     *)
(* into the server's ring and hands it to the page's queue, the stream     *)
(* sends the queue, and the page asks for what it missed whenever it opens *)
(* the stream (dashboard/server.py, RunnerPool; dashboard/js/runner.js).   *)
(***************************************************************************)
EXTENDS Integers, Sequences, FiniteSets, SequencesExt

CONSTANTS Threads,   \* threads that log
          MaxLines,  \* bound: lines logged
          Ring,      \* _log_history's maxlen (2000)
          QueueCap,  \* a subscriber queue's maxsize (1000)
          MaxBreaks, \* bound: lost streams, failed requests and restarts
          Nothing

ASSUME LogAssumption == MaxLines \in Nat /\ Ring \in Nat \ {0} /\ QueueCap \in Nat \ {0} /\ MaxBreaks \in Nat

\* What the ring, the hands and the queue hold: a line and its number.
Entries == [line : Nat, seq : Nat]

ASSUME NothingAssumption == Nothing \notin Entries /\ Nothing \notin Seq(Entries)

VARIABLES
  counter, \* _seq_counter
  ring,    \* _log_history: entries [line, seq]
  hand,    \* what each thread has numbered and not handed out
  queue,   \* the page's queue, or Nothing
  src,     \* the page's EventSource: shut, opening, open
  asks,    \* its requests for recent lines: [since, got]
  lastSeq, \* _lastLogSeq
  shown,   \* how often the page has pushed each line
  stale,   \* history: the highest number the page had, or was sent, before a restart
  excused, \* history: lines whose loss or repetition the stream does not rule out
  lines,   \* lines logged so far
  breaks

logVars == <<counter, ring, hand, queue, src, asks, lastSeq, shown, stale, excused, lines, breaks>>
page    == <<src, asks, lastSeq, shown, stale>>

Lines == 1..MaxLines
InHand == {hand[t] : t \in Threads} \ {Nothing}
LinesOf(S) == {e.line : e \in S}

LogInit == /\ counter = 0 /\ ring = <<>>
           /\ hand = [t \in Threads |-> Nothing]
           /\ queue = Nothing /\ src = "shut" /\ asks = {}
           /\ lastSeq = 0 /\ shown = [l \in Lines |-> 0]
           /\ stale = 0 /\ excused = {} /\ lines = 0 /\ breaks = 0

Highest(S) == CHOOSE n \in S : \A m \in S : m <= n

Break == breaks < MaxBreaks /\ breaks' = breaks + 1

\* The stream is on its way, or a request is.
Opening == src = "opening" \/ \E a \in asks : a.got = Nothing
-----------------------------------------------------------------------------
(* The server.                                                             *)

\* Under the history lock: the number, and the ring.
Number(t) ==
  /\ hand[t] = Nothing /\ lines < MaxLines
  /\ LET e    == [line |-> lines + 1, seq |-> counter + 1]
         gone == IF Len(ring) = Ring THEN {ring[1].line} ELSE {}
     IN /\ lines'   = lines + 1
        /\ counter' = counter + 1
        /\ hand'    = [hand EXCEPT ![t] = e]
        /\ ring'    = Append(IF gone = {} THEN ring ELSE Tail(ring), e)
        /\ excused' = excused
              \cup {l \in gone : shown[l] = 0}
              \cup (IF Opening \/ (src = "shut" /\ e.seq <= stale) THEN {e.line} ELSE {})
  /\ UNCHANGED <<queue, page, breaks>>

\* The fan-out, to who has subscribed by now: a full queue loses its oldest.
HandOut(t) ==
  /\ hand[t] # Nothing
  /\ hand' = [hand EXCEPT ![t] = Nothing]
  /\ IF queue = Nothing THEN UNCHANGED queue
     ELSE queue' = Append(IF Len(queue) = QueueCap THEN Tail(queue) ELSE queue, hand[t])
  /\ excused' = excused \cup IF queue # Nothing /\ Len(queue) = QueueCap THEN {queue[1].line} ELSE {}
  /\ UNCHANGED <<counter, ring, page, lines, breaks>>

\* api_logs_live
Subscribe == /\ src = "opening"
             /\ src' = "open" /\ queue' = <<>>
             /\ UNCHANGED <<counter, ring, hand, asks, lastSeq, shown, stale, excused, lines, breaks>>

\* Seeded fault: the line the page has already is sent again.
RecentFault(since) == {e \in ToSet(ring) : e.seq >= since}

\* recent_logs
Recent(since) == {e \in ToSet(ring) : e.seq > since}

\* api_logs_recent
Answer1(a) == /\ a \in asks /\ a.got = Nothing
              /\ asks' = (asks \ {a}) \cup {[a EXCEPT !.got = Recent(a.since)]}
              /\ UNCHANGED <<counter, ring, hand, queue, src, lastSeq, shown, stale, excused, lines, breaks>>

\* The dashboard is started again: its numbers begin at one.
Reboot == /\ Break
          /\ excused' = excused \cup {l \in 1..lines : shown[l] = 0}
          /\ stale' = Highest({stale, lastSeq} \cup {e.seq : e \in UNION {a.got : a \in {a \in asks : a.got # Nothing}}})
          /\ counter' = 0 /\ ring' = <<>>
          /\ hand' = [t \in Threads |-> Nothing]
          /\ queue' = Nothing /\ src' = "shut"
          /\ asks' = {a \in asks : a.got # Nothing}
          /\ UNCHANGED <<lastSeq, shown, lines>>
-----------------------------------------------------------------------------
(* The page.                                                               *)

\* startLogStream: the request and the stream leave together.  A request that
\* is still on its way brings the same lines a second time.
OpenStream ==
  /\ src = "shut"
  /\ src' = "opening"
  /\ asks' = asks \cup {[since |-> lastSeq, got |-> Nothing]}
  /\ excused' = excused \cup LinesOf(InHand)
                \cup {e.line : e \in {e \in ToSet(ring) : \E a \in asks : e.seq > a.since}}
  /\ UNCHANGED <<counter, ring, hand, queue, lastSeq, shown, stale, lines, breaks>>

\* _pushLogEntry on each of the entries.
Push(S) == /\ shown' = [l \in Lines |-> shown[l] + Cardinality({e \in S : e.line = l})]
           /\ lastSeq' = Highest({lastSeq} \cup {e.seq : e \in S})

Primed(a) == /\ a \in asks /\ a.got # Nothing
             /\ Push(a.got) /\ asks' = asks \ {a}
             /\ UNCHANGED <<counter, ring, hand, queue, src, stale, excused, lines, breaks>>

\* The request fails silently: later lines hide the gap.
NotPrimed(a) == /\ a \in asks /\ Break
                /\ asks' = asks \ {a}
                /\ excused' = excused \cup {e.line : e \in {e \in ToSet(ring) : e.seq > a.since}}
                                      \cup (IF a.got = Nothing THEN {} ELSE LinesOf(a.got))
                /\ UNCHANGED <<counter, ring, hand, queue, src, lastSeq, shown, stale, lines>>

Message == /\ src = "open" /\ queue # Nothing /\ queue # <<>>
           /\ Push({queue[1]}) /\ queue' = Tail(queue)
           /\ UNCHANGED <<counter, ring, hand, src, asks, stale, excused, lines, breaks>>

\* onerror: the queue goes with the stream, and with it the lines a later one
\* has overtaken.
Drop == /\ src # "shut" /\ Break
        /\ src' = "shut" /\ queue' = Nothing
        /\ LET held == InHand \cup (IF queue = Nothing THEN {} ELSE ToSet(queue))
           IN excused' = excused \cup {e.line : e \in {e \in held : e.seq <= lastSeq \/ e.seq <= stale}}
        /\ UNCHANGED <<counter, ring, hand, asks, lastSeq, shown, stale, lines>>

LogNext == \/ \E t \in Threads : Number(t) \/ HandOut(t)
           \/ \E a \in asks : Answer1(a) \/ Primed(a) \/ NotPrimed(a)
           \/ Subscribe \/ Reboot \/ OpenStream \/ Message \/ Drop

LogSpec == LogInit /\ [][LogNext]_logVars
-----------------------------------------------------------------------------
(* Once a page has caught up it shows every line exactly once, also after  *)
(* lost streams and restarts, except lines that were being logged while it *)
(* opened a stream or awaited an answer, that fell out of a full ring or   *)
(* queue, whose request failed, that a later line overtook before the      *)
(* stream broke, or that carry numbers the page has seen before a restart. *)
CaughtUp == src = "open" /\ asks = {} /\ queue = <<>> /\ InHand = {}

LinesOnce == CaughtUp => \A l \in 1..lines : l \in excused \/ shown[l] = 1
=============================================================================
