----------------------------- MODULE ScriptLibrary -----------------------------
(***************************************************************************)
(* The scripts table and the profiles' assignments under overlapping       *)
(* requests (db/database.py, script_*; dashboard/server.py, /api/scripts;  *)
(* the resolution at the start of a run).  The connections are in          *)
(* autocommit mode, so "with conn:" does not group statements: each one    *)
(* takes effect by itself, and that is the grain of the actions here.      *)
(***************************************************************************)
EXTENDS Integers, FiniteSets

CONSTANTS MaxScripts, \* bound: scripts ever created; ids count up (AUTOINCREMENT)
          Profiles,
          Slots,      \* threads that serve requests
          MaxEdits,   \* bound: saves of a flow or of name, description and tags
          MaxClock,   \* bound: seconds that pass
          MaxRequests, \* bound: requests
          Absent

ASSUME LibraryAssumption == MaxScripts \in Nat \ {0} /\ MaxEdits \in Nat /\ MaxClock \in Nat /\ IsFiniteSet(Slots)

VARIABLES
  script,   \* id -> [default, pins, flow, meta, stamp], or Absent
  created,  \* ids used
  assigned, \* profiles.script_id
  optedIn,  \* profiles with use_script_on_launch
  req,      \* the request in each slot, or Absent
  tab,      \* what a page has loaded: [id, flow, meta, stamp, at], or Absent
  clock,    \* datetime('now'), in seconds
  edits,    \* saves so far
  left,     \* requests still to come
  mixed,    \* history: two requests that change the default overlapped
  chased,   \* history: scripts deleted while they were being assigned
  tangled,  \* history: scripts asked for a pin while another request was writing their list
  raced,    \* history: slots whose script was saved by another since their check
  meant     \* history: the pins that were asked for

Ids == 1..MaxScripts

\* What a row, the page and the requests hold.
Rows     == [default : BOOLEAN, pins : SUBSET Profiles, flow : Nat, meta : Nat, stamp : Nat]
Versions == [id : Ids, flow : Nat, meta : Nat, stamp : Nat, at : Nat]
Puts     == [op : {"put"}, step : {"clear", "write"}, id : Ids, default : {"keep", "set", "unset"},
             what : {"flow", "meta", "none"}, base : Versions \cup {Absent}]
News     == [op : {"new"}, step : {"insert"}, default : BOOLEAN]
Deletes  == [op : {"delete"}, step : {"unassign", "delete"}, id : Ids]
Assigns  == [op : {"assign"}, step : {"write"}, id : Ids, profile : Profiles]
Lists    == [op : {"list"}, step : {"write"}, id : Ids, pins : SUBSET Profiles]
Starts   == [op : {"run"}, own : Ids \cup {Absent}, gone : BOOLEAN,
             step : {"own", "default", "oldest", "promote", "seed", "fetch", "found", "none"}]
Pending  == Puts \cup News \cup Deletes \cup Assigns \cup Lists \cup Starts

ASSUME AbsentAssumption == /\ Absent \notin Nat /\ Absent \notin Rows /\ Absent \notin Versions
                           /\ Absent \notin Pending

table       == <<script, created>>
history     == <<mixed, chased, tangled, raced>>
libraryVars == <<table, assigned, optedIn, req, tab, clock, edits, left, history, meant>>

Here     == {i \in Ids : script[i] # Absent}
Defaults == {i \in Here : script[i].default}
Oldest   == CHOOSE i \in Here : \A j \in Here : i <= j

Row(d) == [default |-> d, pins |-> {}, flow |-> 0, meta |-> 0, stamp |-> clock]

LibraryInit ==
  /\ clock = 0
  /\ script = [i \in Ids |-> IF i = 1 THEN Row(TRUE) ELSE Absent] /\ created = 1
  /\ assigned = [p \in Profiles |-> Absent] /\ optedIn \in SUBSET Profiles
  /\ req = [r \in Slots |-> Absent] /\ tab = Absent /\ edits = 0 /\ left = MaxRequests
  /\ mixed = FALSE /\ chased = {} /\ tangled = {} /\ raced = {}
  /\ meant = [i \in Ids |-> {}]
-----------------------------------------------------------------------------
(* Requests.                                                               *)

At(r, op, step) == req[r] # Absent /\ req[r].op = op /\ req[r].step = step
To(r, step)     == req' = [req EXCEPT ![r].step = step]
Ends1(r)        == req' = [req EXCEPT ![r] = Absent]

\* A slot takes a request up, and goes on to a step or is done with it.
Takes(r, q, step) == /\ left > 0 /\ left' = left - 1
                     /\ req' = [req EXCEPT ![r] = [q EXCEPT !.step = step]]
Idle(r) == req[r] = Absent /\ left > 0

\* UPDATE scripts SET is_default = 0
Cleared == [i \in Ids |-> IF i \in Here THEN [script[i] EXCEPT !.default = FALSE] ELSE Absent]

\* The ETag is made of updated_at and the flow.
EtagMatches(q) == q.id \in Here /\ script[q.id].stamp = q.base.stamp /\ script[q.id].flow = q.base.flow

\* PUT on the version a page has loaded, or on any: 412 for another ETag.
Put(r, id, default, what, base) ==
  LET q == [op |-> "put", id |-> id, default |-> default, what |-> what, base |-> base, step |-> "write"]
  IN /\ Idle(r) /\ (default # "keep" \/ what # "none")
     /\ base # Absent => base.id = id /\ EtagMatches(q)
     /\ Takes(r, q, IF default = "set" THEN "clear" ELSE "write")
     /\ UNCHANGED <<table, assigned, optedIn, tab, clock, edits, meant>>

\* Seeded fault: the old default stays.
PutClearFault(r) == /\ At(r, "put", "clear")
                    /\ To(r, "write")
                    /\ UNCHANGED <<table, assigned, optedIn, tab, clock, edits, meant>>

PutClear(r) == /\ At(r, "put", "clear")
               /\ script' = Cleared /\ To(r, "write")
               /\ UNCHANGED <<created, assigned, optedIn, tab, clock, edits, meant>>

Saved(q) == [script[q.id] EXCEPT !.default = IF q.default = "keep" THEN @ ELSE q.default = "set",
                                 !.flow = IF q.what = "flow" THEN edits + 1 ELSE @,
                                 !.meta = IF q.what = "meta" THEN edits + 1 ELSE @,
                                 !.stamp = clock]

\* Seeded fault: a save does not touch updated_at.
PutWriteFault(r) == /\ At(r, "put", "write") /\ Ends1(r)
                    /\ IF req[r].id \in Here
                       THEN /\ edits' = IF req[r].what = "none" THEN edits ELSE edits + 1
                            /\ edits' <= MaxEdits
                            /\ script' = [script EXCEPT ![req[r].id] = [Saved(req[r]) EXCEPT !.stamp = script[req[r].id].stamp]]
                       ELSE UNCHANGED <<script, edits>>
                    /\ UNCHANGED <<created, assigned, optedIn, tab, clock, meant>>

PutWrite(r) == /\ At(r, "put", "write") /\ Ends1(r)
               /\ IF req[r].id \in Here
                  THEN /\ edits' = IF req[r].what = "none" THEN edits ELSE edits + 1
                       /\ edits' <= MaxEdits
                       /\ script' = [script EXCEPT ![req[r].id] = Saved(req[r])]
                  ELSE UNCHANGED <<script, edits>>
               /\ UNCHANGED <<created, assigned, optedIn, tab, clock, meant>>

New(r, d) == /\ Idle(r)
             /\ script' = IF d THEN Cleared ELSE script
             /\ Takes(r, [op |-> "new", default |-> d, step |-> "insert"], "insert")
             /\ UNCHANGED <<created, assigned, optedIn, tab, clock, edits, meant>>

Inserted(d) == /\ created < MaxScripts
               /\ created' = created + 1
               /\ script' = [script EXCEPT ![created + 1] = Row(d)]

NewInsert(r) == /\ At(r, "new", "insert") /\ Ends1(r)
                /\ Inserted(req[r].default)
                /\ UNCHANGED <<assigned, optedIn, tab, clock, edits, meant>>

\* DELETE of a script that is there and not the default.
Delete(r, id) == /\ Idle(r) /\ id \in Here \ Defaults
                 /\ Takes(r, [op |-> "delete", id |-> id, step |-> "unassign"], "unassign")
                 /\ UNCHANGED <<table, assigned, optedIn, tab, clock, edits, meant>>

Unassign(r) == /\ At(r, "delete", "unassign") /\ To(r, "delete")
               /\ assigned' = [p \in Profiles |-> IF assigned[p] = req[r].id THEN Absent ELSE assigned[p]]
               /\ UNCHANGED <<table, optedIn, tab, clock, edits, meant>>

DeleteRow(r) == /\ At(r, "delete", "delete")
                /\ script' = [script EXCEPT ![req[r].id] = Absent]
                /\ req' = [s \in Slots |-> IF s = r THEN Absent
                                           ELSE IF req[s] # Absent /\ req[s].op = "run"
                                           THEN [req[s] EXCEPT !.gone = TRUE] ELSE req[s]]
                /\ UNCHANGED <<created, assigned, optedIn, tab, clock, edits, meant>>

Assign(r, id, p) == /\ Idle(r) /\ id \in Here
                    /\ Takes(r, [op |-> "assign", id |-> id, profile |-> p, step |-> "write"], "write")
                    /\ UNCHANGED <<table, assigned, optedIn, tab, clock, edits, meant>>

\* Assigning a script opts the profile in.
AssignWrite(r) == /\ At(r, "assign", "write") /\ Ends1(r)
                  /\ assigned' = [assigned EXCEPT ![req[r].profile] = req[r].id]
                  /\ optedIn' = optedIn \cup {req[r].profile}
                  /\ UNCHANGED <<table, tab, clock, edits, meant>>

\* The profile's script is cleared, or its opt-in is.
Detach(p) == /\ \/ assigned' = [assigned EXCEPT ![p] = Absent] /\ UNCHANGED optedIn
                \/ optedIn' = optedIn \ {p} /\ UNCHANGED assigned
             /\ left > 0 /\ left' = left - 1
             /\ UNCHANGED <<table, req, tab, clock, edits, meant>>
-----------------------------------------------------------------------------
(* One pin added or removed: the list is read, changed and written back.   *)

Asked(add, p, pins) == IF add THEN pins \cup {p} ELSE pins \ {p}

Pin(r, id, p, add) ==
  LET pins == Asked(add, p, script[id].pins)
  IN /\ Idle(r) /\ id \in Here
     /\ IF pins = script[id].pins THEN UNCHANGED <<req, left>>
        ELSE Takes(r, [op |-> "list", id |-> id, pins |-> pins, step |-> "write"], "write")
     /\ meant' = [meant EXCEPT ![id] = Asked(add, p, @)]
     /\ UNCHANGED <<table, assigned, optedIn, tab, clock, edits>>

PinWrite(r) == /\ At(r, "list", "write") /\ Ends1(r)
               /\ script' = IF req[r].id \in Here
                            THEN [script EXCEPT ![req[r].id].pins = req[r].pins, ![req[r].id].stamp = clock]
                            ELSE script
               /\ UNCHANGED <<created, assigned, optedIn, tab, clock, edits, meant>>
-----------------------------------------------------------------------------
(* The resolution at the start of a run.                                   *)

\* Without the opt-in there is no script to look for.
Run(r, p) == /\ Idle(r) /\ p \in optedIn
             /\ Takes(r, [op |-> "run", own |-> assigned[p], gone |-> FALSE, step |-> "own"], "own")
             /\ UNCHANGED <<table, assigned, optedIn, tab, clock, edits, meant>>

Gets(r, id) == req' = [req EXCEPT ![r].step = IF id \in Here THEN "found" ELSE "none"]

\* The script of the profile.
ReadOwn(r) == /\ At(r, "run", "own")
              /\ IF req[r].own \in Here THEN Gets(r, req[r].own) ELSE To(r, "default")
              /\ UNCHANGED <<table, assigned, optedIn, tab, clock, edits, meant>>

\* script_get_default: a script that is flagged, or the oldest one is made the
\* default, or an empty one is created.
ReadDefault(r) == /\ At(r, "run", "default")
                  /\ IF Defaults # {}
                     THEN \E i \in Defaults : req' = [req EXCEPT ![r].step = "fetch", ![r].own = i]
                     ELSE To(r, "oldest")
                  /\ UNCHANGED <<table, assigned, optedIn, tab, clock, edits, meant>>

ReadOldest(r) == /\ At(r, "run", "oldest")
                 /\ IF Here # {}
                    THEN req' = [req EXCEPT ![r].step = "promote", ![r].own = Oldest]
                    ELSE To(r, "seed")
                 /\ UNCHANGED <<table, assigned, optedIn, tab, clock, edits, meant>>

\* Seeded fault: the promoted script is taken for what was flagged before.
PromoteFault(r) == /\ At(r, "run", "promote") /\ To(r, "none")
                   /\ UNCHANGED <<table, assigned, optedIn, tab, clock, edits, meant>>

Promote(r) == /\ At(r, "run", "promote") /\ To(r, "fetch")
              /\ script' = IF req[r].own \in Here THEN [script EXCEPT ![req[r].own].default = TRUE] ELSE script
              /\ UNCHANGED <<created, assigned, optedIn, tab, clock, edits, meant>>

Seed(r) == /\ At(r, "run", "seed")
           /\ Inserted(TRUE)
           /\ req' = [req EXCEPT ![r].step = "fetch", ![r].own = created + 1]
           /\ UNCHANGED <<assigned, optedIn, tab, clock, edits, meant>>

Fetch(r) == /\ At(r, "run", "fetch") /\ Gets(r, req[r].own)
            /\ UNCHANGED <<table, assigned, optedIn, tab, clock, edits, meant>>

\* The run goes on with its script, or without one.
Resolved(r) == /\ \E s \in {"found", "none"} : At(r, "run", s)
               /\ Ends1(r)
               /\ UNCHANGED <<table, assigned, optedIn, tab, clock, edits, meant>>
-----------------------------------------------------------------------------
Load(id) == /\ id \in Here /\ left > 0 /\ left' = left - 1
            /\ tab' = [id |-> id, flow |-> script[id].flow, meta |-> script[id].meta,
                       stamp |-> script[id].stamp, at |-> clock]
            /\ UNCHANGED <<table, assigned, optedIn, req, clock, edits, meant>>

Second == /\ clock < MaxClock /\ clock' = clock + 1
          /\ UNCHANGED <<table, assigned, optedIn, req, tab, edits, meant>>

\* Requests that are about to change which script is the default.
Changing(q) == \/ q.op = "new" /\ q.default
               \/ q.op = "put" /\ q.default = "set"
               \/ q.op = "run" /\ q.step \in {"oldest", "promote", "seed"}

Flying(P(_)) == {r \in Slots : req'[r] # Absent /\ P(req'[r])}

\* A request for pins is about to write the list it has read.
Listing(r, i) == At(r, "list", "write") /\ req[r].id = i

Content(s, id) == IF s[id] = Absent THEN Absent ELSE <<s[id].flow, s[id].meta>>

\* The history variables follow every step.
Watch == /\ mixed' = (mixed \/ Cardinality(Flying(Changing)) > 1)
         /\ chased' = chased \cup {i \in Ids : /\ Flying(LAMBDA q : q.op = "assign" /\ q.id = i) # {}
                                               /\ Flying(LAMBDA q : q.op = "delete" /\ q.id = i) # {}}
         /\ tangled' = tangled \cup {i \in Ids : /\ meant'[i] # meant[i]
                                                 /\ \E r \in Slots : Listing(r, i)}
         /\ raced' = {r \in Flying(LAMBDA q : q.op = "put") :
                         r \in raced \/ Content(script, req'[r].id) # Content(script', req'[r].id)}

Serve(r) == \/ \E i \in Ids :
                  \/ \E d \in {"keep", "set", "unset"}, w \in {"flow", "meta", "none"}, b \in {Absent, tab} :
                        Put(r, i, d, w, b)
                  \/ \E p \in Profiles : Assign(r, i, p) \/ Pin(r, i, p, TRUE) \/ Pin(r, i, p, FALSE)
                  \/ Delete(r, i)
            \/ New(r, TRUE) \/ New(r, FALSE)
            \/ \E p \in Profiles : Run(r, p)

GoOn(r) == \/ PutClear(r) \/ PutWrite(r) \/ NewInsert(r)
           \/ Unassign(r) \/ DeleteRow(r) \/ AssignWrite(r) \/ PinWrite(r)
           \/ ReadOwn(r) \/ ReadDefault(r) \/ ReadOldest(r) \/ Promote(r) \/ Seed(r) \/ Fetch(r)
           \/ Resolved(r)

LibraryNext == /\ \/ \E r \in Slots : Serve(r)
                  \/ \E p \in Profiles : Detach(p)
                  \/ \E i \in Ids : Load(i)
                  \/ Second /\ UNCHANGED left
                  \/ \E r \in Slots : GoOn(r) /\ UNCHANGED left
               /\ Watch

LibrarySpec == LibraryInit /\ [][LibraryNext]_libraryVars
-----------------------------------------------------------------------------
(* At most one script is the default, no profile is assigned a script that *)
(* is gone, and every pin or unpin that was asked for is kept: only        *)
(* requests of the same kind that overlapped can have broken it.           *)
OverlapOnly == /\ mixed \/ Cardinality(Defaults) <= 1
               /\ \A p \in Profiles : assigned[p] \in {Absent} \cup Here \cup chased
               /\ \A i \in Here \ tangled :
                     (\A r \in Slots : ~Listing(r, i))
                        => script[i].pins = meant[i]

(* A run of a profile that is opted in gets a script, whatever has become  *)
(* of its own one and of the default, unless a script was deleted while    *)
(* the run was looking.                                                    *)
AlwaysResolved == \A r \in Slots : At(r, "run", "none") => req[r].gone

(* A save that names the version it edits replaces that version and no     *)
(* other one: neither the flow nor the name, the description or the tags   *)
(* of a save that page has not seen, unless the other save came after the  *)
(* check, or in the same second as the page's own load.                    *)
Guarded == {r \in Slots : req[r] # Absent /\ req[r].op = "put" /\ req[r].base # Absent}

SavesSeen == \A r \in Guarded \ raced : LET base == req[r].base
                IN Content(script, base.id) \in {Absent, <<base.flow, base.meta>>} \/ base.at = base.stamp
=============================================================================
