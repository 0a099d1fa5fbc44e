------------------------- MODULE ScriptLibraryProofs -------------------------
(***************************************************************************)
(* The script library stays in order but for what its requests can do to   *)
(* each other when they overlap, a run is given a script that is there,    *)
(* and a save changes what its editor has seen: for any number of scripts, *)
(* profiles, requests and edits.  The inductive invariant says what each   *)
(* request has read and may still write.                                   *)
(***************************************************************************)
EXTENDS ScriptLibrary, CardinalityLemmas, TLAPS

\* The types, and that ids above the last one used name nothing.
LibraryTypeOK == /\ script \in [Ids -> Rows \cup {Absent}]
                 /\ created \in Ids /\ \A i \in Ids : i > created => script[i] = Absent
                 /\ assigned \in [Profiles -> Ids \cup {Absent}] /\ optedIn \subseteq Profiles
                 /\ req \in [Slots -> Pending \cup {Absent}]
                 /\ tab \in Versions \cup {Absent}
                 /\ clock \in Nat /\ edits \in Nat
                 /\ mixed \in BOOLEAN /\ chased \subseteq Ids /\ tangled \subseteq Ids /\ raced \subseteq Slots
                 /\ meant \in [Ids -> SUBSET Profiles]

\* A request of slot r.
Is(r, op) == req[r] # Absent /\ req[r].op = op
\* A request on its way to another default, and one that is past the clearing
\* of the old one.
Alters(r) == req[r] # Absent /\ Changing(req[r])
Claims(r) == Alters(r) /\ ~At(r, "put", "clear")

\* While no two such requests have overlapped there is one default, or none
\* while the one request that may set it is under way.
DefaultInv == ~mixed => /\ \A i, j \in Defaults : i = j
                        /\ \A r, s \in Slots : Alters(r) /\ Alters(s) => r = s
                        /\ \A r \in Slots : Claims(r) => Defaults = {}

\* What a profile is assigned is there, also what is about to be assigned and
\* what outlives the unassigning of a delete, or it was chased.
AssignInv == /\ \A p \in Profiles : assigned[p] \in {Absent} \cup Here \cup chased
             /\ \A r \in Slots : Is(r, "assign") => req[r].id \in Here \cup chased
             /\ \A r, s \in Slots : Is(r, "assign") /\ Is(s, "delete") /\ req[r].id = req[s].id
                                       => req[r].id \in chased
             /\ \A r \in Slots, p \in Profiles :
                   At(r, "delete", "delete") /\ assigned[p] = req[r].id => req[r].id \in chased

\* At most one pin is on its way.
Near(a1, b1) == a1 = b1 \/ \E p \in Profiles : b1 = a1 \cup {p} \/ b1 = a1 \ {p}

\* The pins of a script are those asked for, or those of the list being
\* written are.
PinOK(i) == /\ i > created => meant[i] = {} /\ \A r \in Slots : ~Listing(r, i)
            /\ \A r \in Slots : Listing(r, i) => req[r].pins = meant[i]
            /\ i \in Here => /\ Near(script[i].pins, meant[i])
                             /\ (\A r \in Slots : ~Listing(r, i)) => script[i].pins = meant[i]

\* A script nobody asked for a pin of while its list was being written.
PinInv == \A i \in Ids \ tangled : PinOK(i)

\* A run that goes for a script found it, and finds it unless one was
\* deleted.
ResolvedInv == \A r \in Slots :
  /\ Is(r, "run") /\ req[r].step \in {"promote", "fetch"} => req[r].own \in Here \/ req[r].gone
  /\ At(r, "run", "none") => req[r].gone

\* What the page holds is the row, or the row was saved since.
TabInv == tab # Absent =>
  /\ tab.stamp <= tab.at /\ tab.at <= clock /\ tab.id <= created
  /\ tab.id \in Here => Content(script, tab.id) = <<tab.flow, tab.meta>> \/ script[tab.id].stamp >= tab.at
\* No row is stamped ahead of the clock, and a guarded save names what it
\* saves.
StampInv == \A i \in Here : script[i].stamp <= clock
BaseInv == \A r \in Guarded : req[r].base.id = req[r].id /\ req[r].id <= created

\* The inductive invariant.
LibInv == /\ LibraryTypeOK /\ DefaultInv /\ AssignInv /\ PinInv /\ ResolvedInv /\ TabInv /\ StampInv /\ BaseInv /\ SavesSeen

\* What a request of each kind holds, and the rows.
LEMMA RequestTypes ==
  ASSUME LibraryTypeOK, NEW r \in Slots
  PROVE  /\ Is(r, "put") => req[r] \in Puts
         /\ Is(r, "new") => req[r] \in News
         /\ Is(r, "delete") => req[r] \in Deletes
         /\ Is(r, "assign") => req[r] \in Assigns
         /\ Is(r, "list") => req[r] \in Lists
         /\ Is(r, "run") => req[r] \in Starts
BY DEF LibraryTypeOK, Is, Pending, Puts, News, Deletes, Assigns, Lists, Starts

LEMMA RowTypes ==
  ASSUME LibraryTypeOK
  PROVE  /\ Ids \subseteq Nat /\ Here \subseteq 1..created /\ Here \subseteq Ids
         /\ \A i \in Here : script[i] \in Rows
BY LibraryAssumption DEF LibraryTypeOK, Here, Ids

\* A new row, and the rows with no default among them.
LEMMA NewRow ==
  ASSUME LibraryTypeOK, NEW d \in BOOLEAN
  PROVE  Row(d) \in Rows /\ Row(d) # Absent
BY AbsentAssumption DEF LibraryTypeOK, Row, Rows

LEMMA ClearedRows ==
  ASSUME LibraryTypeOK
  PROVE  /\ Cleared \in [Ids -> Rows \cup {Absent}]
         /\ \A i \in Ids : Cleared[i] = Absent <=> script[i] = Absent
         /\ \A i \in Ids : script[i] # Absent =>
              /\ Cleared[i].default = FALSE /\ Cleared[i].pins = script[i].pins
              /\ Cleared[i].flow = script[i].flow /\ Cleared[i].meta = script[i].meta
              /\ Cleared[i].stamp = script[i].stamp
<1>1. ASSUME NEW i \in Ids, script[i] # Absent
      PROVE  /\ [script[i] EXCEPT !.default = FALSE] \in Rows
             /\ [script[i] EXCEPT !.default = FALSE] # Absent
  BY <1>1, AbsentAssumption DEF LibraryTypeOK, Rows
<1> QED
  BY <1>1 DEF LibraryTypeOK, Cleared, Here, Rows

\* The oldest script is one.
LEMMA OldestIsHere == ASSUME LibraryTypeOK, Here # {} PROVE Oldest \in Here
<1>1. \E i \in Here : \A j \in Here : i <= j
  BY NatMin, RowTypes
<1> QED
  BY <1>1 DEF Oldest

\* Two fields of a request at a time.
LEMMA TwoFields ==
  ASSUME LibraryTypeOK, NEW r \in Slots, NEW step, NEW i
  PROVE  [req EXCEPT ![r].step = step, ![r].own = i] = [req EXCEPT ![r] = [req[r] EXCEPT !.step = step, !.own = i]]
BY DEF LibraryTypeOK

\* A request that goes on to another of its steps.
LEMMA Moves ==
  ASSUME LibraryTypeOK, NEW r \in Slots, req[r] # Absent, NEW step
  PROVE  LET q == [req[r] EXCEPT !.step = step]
         IN  /\ q # Absent \/ q \notin Pending
             /\ q.op = req[r].op /\ q.step = step
             /\ req[r].op = "put" /\ step \in {"clear", "write"} => q \in Puts
             /\ req[r].op = "delete" /\ step \in {"unassign", "delete"} => q \in Deletes
             /\ req[r].op = "run" /\ step \in {"own", "default", "oldest", "promote", "seed", "fetch", "found", "none"}
                   => q \in Starts
<1> USE DEF Is
<1>1. req[r] \in Pending
  BY DEF LibraryTypeOK
<1>2. /\ [req[r] EXCEPT !.step = step].op = req[r].op
      /\ [req[r] EXCEPT !.step = step].step = step
  BY <1>1 DEF Pending, Puts, News, Deletes, Assigns, Lists, Starts
<1>3. [req[r] EXCEPT !.step = step] # Absent \/ [req[r] EXCEPT !.step = step] \notin Pending
  BY AbsentAssumption
<1>4. req[r].op = "put" /\ step \in {"clear", "write"} => [req[r] EXCEPT !.step = step] \in Puts
  BY RequestTypes DEF Puts
<1>5. req[r].op = "delete" /\ step \in {"unassign", "delete"} => [req[r] EXCEPT !.step = step] \in Deletes
  BY RequestTypes DEF Deletes
<1>6. req[r].op = "run" /\ step \in {"own", "default", "oldest", "promote", "seed", "fetch", "found", "none"}
                   => [req[r] EXCEPT !.step = step] \in Starts
  BY RequestTypes DEF Starts
<1> QED
  BY <1>2, <1>3, <1>4, <1>5, <1>6

\* The types, for what is watched, for a request taken up and for one that
\* goes on.
LEMMA WatchTypes == ASSUME LibraryTypeOK, Watch PROVE mixed' \in BOOLEAN /\ chased' \subseteq Ids /\ tangled' \subseteq Ids /\ raced' \subseteq Slots
BY DEF LibraryTypeOK, Watch, Flying

\* The variables the requests change, typed.
Typed == /\ script \in [Ids -> Rows \cup {Absent}]
         /\ created \in Ids /\ \A i \in Ids : i > created => script[i] = Absent
         /\ assigned \in [Profiles -> Ids \cup {Absent}] /\ optedIn \subseteq Profiles
         /\ req \in [Slots -> Pending \cup {Absent}]
         /\ tab \in Versions \cup {Absent}
         /\ clock \in Nat /\ edits \in Nat /\ meant \in [Ids -> SUBSET Profiles]

LEMMA ServeTypes == ASSUME LibraryTypeOK, NEW r \in Slots, Serve(r) PROVE Typed'
<1> USE RequestTypes, RowTypes, NewRow, ClearedRows DEF Typed, Idle, Takes, table, history
<1>1. ASSUME NEW i \in Ids, NEW d \in {"keep", "set", "unset"}, NEW w \in {"flow", "meta", "none"}, NEW b \in {Absent, tab},
             Put(r, i, d, w, b) PROVE Typed'
  <2> DEFINE q == [op |-> "put", id |-> i, default |-> d, what |-> w, base |-> b, step |-> "write"]
             step == IF d = "set" THEN "clear" ELSE "write"
  <2>1. [q EXCEPT !.step = step] \in Pending
    BY <1>1 DEF LibraryTypeOK, Pending, Puts
  <2>2. req' = [req EXCEPT ![r] = [q EXCEPT !.step = step]]
    BY <1>1 DEF Put
  <2> QED
    BY <1>1, <2>1, <2>2 DEF Put, LibraryTypeOK
<1>2. ASSUME NEW i \in Ids, NEW p \in Profiles, Assign(r, i, p) PROVE Typed'
  <2>1. [[op |-> "assign", id |-> i, profile |-> p, step |-> "write"] EXCEPT !.step = "write"] \in Pending
    BY DEF Pending, Assigns
  <2> QED
    BY <1>2, <2>1 DEF Assign, LibraryTypeOK
<1>3. ASSUME NEW i \in Ids, NEW p \in Profiles, NEW add \in BOOLEAN, Pin(r, i, p, add) PROVE Typed'
  <2> DEFINE pins == Asked(add, p, script[i].pins)
             q == [[op |-> "list", id |-> i, pins |-> pins, step |-> "write"] EXCEPT !.step = "write"]
  <2>1. pins \in SUBSET Profiles
    BY <1>3 DEF Pin, Asked, Rows
  <2>2. q \in Pending
    BY <2>1 DEF Pending, Lists
  <2>3. req' = [req EXCEPT ![r] = q] \/ req' = req
    BY <1>3 DEF Pin
  <2>4. req' \in [Slots -> Pending \cup {Absent}]
    BY <2>2, <2>3 DEF LibraryTypeOK
  <2>5. meant' \in [Ids -> SUBSET Profiles]
    BY <1>3 DEF Pin, Asked, LibraryTypeOK
  <2> QED
    BY <1>3, <2>4, <2>5 DEF Pin, LibraryTypeOK
<1>4. ASSUME NEW i \in Ids, Delete(r, i) PROVE Typed'
  <2>1. [[op |-> "delete", id |-> i, step |-> "unassign"] EXCEPT !.step = "unassign"] \in Pending
    BY DEF Pending, Deletes
  <2> QED
    BY <1>4, <2>1 DEF Delete, LibraryTypeOK
<1>5. ASSUME NEW d \in BOOLEAN, New(r, d) PROVE Typed'
  <2>1. [[op |-> "new", default |-> d, step |-> "insert"] EXCEPT !.step = "insert"] \in Pending
    BY DEF Pending, News
  <2> QED
    BY <1>5, <2>1 DEF New, LibraryTypeOK
<1>6. ASSUME NEW p \in Profiles, Run(r, p) PROVE Typed'
  <2>1. [[op |-> "run", own |-> assigned[p], gone |-> FALSE, step |-> "own"] EXCEPT !.step = "own"] \in Pending
    BY DEF Pending, Starts, LibraryTypeOK
  <2> QED
    BY <1>6, <2>1 DEF Run, LibraryTypeOK
<1>7. ASSUME NEW i \in Ids,
             \/ \E d \in {"keep", "set", "unset"}, w \in {"flow", "meta", "none"}, b \in {Absent, tab} : Put(r, i, d, w, b)
             \/ \E p \in Profiles : Assign(r, i, p) \/ Pin(r, i, p, TRUE) \/ Pin(r, i, p, FALSE)
             \/ Delete(r, i)
      PROVE  Typed'
  BY ONLY <1>7, <1>1, <1>2, <1>3, <1>4
<1>8. New(r, TRUE) \/ New(r, FALSE) => Typed'
  BY ONLY <1>5
<1> QED
  BY ONLY <1>6, <1>7, <1>8, Serve(r) DEF Serve

LEMMA Ended == ASSUME LibraryTypeOK, NEW r \in Slots, Ends1(r) PROVE req' \in [Slots -> Pending \cup {Absent}]
BY DEF LibraryTypeOK, Ends1

LEMMA InsertTypes ==
  ASSUME LibraryTypeOK, NEW d \in BOOLEAN, Inserted(d)
  PROVE  /\ script' \in [Ids -> Rows \cup {Absent}]
         /\ created' \in Ids /\ \A i \in Ids : i > created' => script'[i] = Absent
BY NewRow, LibraryAssumption DEF LibraryTypeOK, Inserted, Ids

LEMMA GoOnTypes == ASSUME LibraryTypeOK, NEW r \in Slots, GoOn(r) PROVE Typed'
<1> USE RequestTypes, RowTypes, NewRow, ClearedRows, Ended DEF Typed, Is, At
<1>1. CASE PutClear(r)
  <2>1. [req[r] EXCEPT !.step = "write"] \in Pending
    BY <1>1, Moves DEF PutClear, Pending
  <2> QED
    BY <1>1, <2>1 DEF PutClear, To, LibraryTypeOK
<1>2. CASE PutWrite(r)
  <2> DEFINE q == req[r]
  <2>1. q \in Puts
    BY <1>2 DEF PutWrite
  <2>2. ASSUME q.id \in Here PROVE Saved(q) \in Rows
    <3>1. script[q.id] \in Rows /\ edits + 1 \in Nat /\ clock \in Nat
      BY <2>2 DEF LibraryTypeOK
    <3>2. q.default \in {"keep", "set", "unset"}
      BY <2>1 DEF Puts
    <3> HIDE DEF q
    <3> QED
      BY <3>1, <3>2, ZenonT(30) DEF Saved, Rows
  <2>3. script' \in [Ids -> Rows \cup {Absent}] /\ \A i \in Ids : script[i] = Absent => script'[i] = Absent
    BY <1>2, <2>1, <2>2 DEF PutWrite, LibraryTypeOK, Here
  <2>4. edits' \in Nat
    BY <1>2 DEF PutWrite, LibraryTypeOK
  <2> QED
    BY <1>2, <2>3, <2>4 DEF PutWrite, LibraryTypeOK
<1>3. CASE NewInsert(r)
  BY <1>3, InsertTypes DEF NewInsert, News, LibraryTypeOK
<1>4. CASE Unassign(r)
  <2>1. [req[r] EXCEPT !.step = "delete"] \in Pending
    BY <1>4, Moves DEF Unassign, Pending
  <2>2. assigned' \in [Profiles -> Ids \cup {Absent}]
    BY <1>4 DEF Unassign, LibraryTypeOK
  <2> QED
    BY <1>4, <2>1, <2>2 DEF Unassign, To, table, LibraryTypeOK
<1>5. CASE DeleteRow(r)
  <2>1. ASSUME NEW s \in Slots, req[s] # Absent, req[s].op = "run" PROVE [req[s] EXCEPT !.gone = TRUE] \in Pending
    BY <2>1 DEF Pending, Starts
  <2>2. req' \in [Slots -> Pending \cup {Absent}]
    BY <1>5, <2>1 DEF DeleteRow, LibraryTypeOK
  <2>3. script' \in [Ids -> Rows \cup {Absent}] /\ \A i \in Ids : script[i] = Absent => script'[i] = Absent
    BY <1>5 DEF DeleteRow, LibraryTypeOK
  <2> QED
    BY <1>5, <2>2, <2>3 DEF DeleteRow, LibraryTypeOK
<1>6. CASE AssignWrite(r)
  BY <1>6 DEF AssignWrite, Assigns, table, LibraryTypeOK
<1>7. CASE PinWrite(r)
  <2> DEFINE i == req[r].id
  <2>1. i \in Here => [script[i] EXCEPT !.pins = req[r].pins, !.stamp = clock] \in Rows
    <3>1. req[r].pins \in SUBSET Profiles /\ clock \in Nat
      BY <1>7 DEF PinWrite, Lists, LibraryTypeOK
    <3> QED
      BY <3>1 DEF Rows
  <2>2. script' \in [Ids -> Rows \cup {Absent}] /\ \A j \in Ids : script[j] = Absent => script'[j] = Absent
    BY <1>7, <2>1 DEF PinWrite, LibraryTypeOK, Here
  <2> QED
    BY <1>7, <2>2 DEF PinWrite, LibraryTypeOK
<1>8. CASE ReadOwn(r) \/ Resolved(r) \/ Fetch(r)
  <2>1. \A step \in {"found", "none", "default"} : req[r].op = "run" /\ req[r] # Absent => [req[r] EXCEPT !.step = step] \in Pending
    BY Moves DEF Pending
  <2>2. req' \in [Slots -> Pending \cup {Absent}]
    BY <1>8, <2>1 DEF ReadOwn, Resolved, Fetch, Gets, To, LibraryTypeOK
  <2> QED
    BY <1>8, <2>2 DEF ReadOwn, Resolved, Fetch, table, LibraryTypeOK
<1>9. CASE ReadDefault(r) \/ ReadOldest(r)
  <2>1. Here # {} => Oldest \in Here
    BY OldestIsHere
  <2>2. \A step \in {"fetch", "promote"}, i \in Ids : req[r].op = "run" /\ req[r] # Absent
           => [req[r] EXCEPT !.step = step, !.own = i] \in Pending
    BY ZenonT(30) DEF Pending, Starts
  <2>3. \A step \in {"oldest", "seed"} : req[r].op = "run" /\ req[r] # Absent => [req[r] EXCEPT !.step = step] \in Pending
    BY Moves DEF Pending
  <2>4. req' \in [Slots -> Pending \cup {Absent}]
    <3>1. CASE ReadDefault(r)
      <4>1. CASE Defaults # {}
        <5>1. PICK i \in Ids : req' = [req EXCEPT ![r].step = "fetch", ![r].own = i]
          BY <3>1, <4>1 DEF ReadDefault, Defaults
        <5> QED
          BY <5>1, <3>1, <2>2, TwoFields DEF ReadDefault, LibraryTypeOK
      <4> QED
        BY <3>1, <4>1, <2>3 DEF ReadDefault, To, LibraryTypeOK
    <3>2. CASE ReadOldest(r)
      <4>1. CASE Here # {}
        <5>1. Oldest \in Ids /\ req' = [req EXCEPT ![r].step = "promote", ![r].own = Oldest]
          BY <3>2, <4>1, <2>1 DEF ReadOldest
        <5> QED
          BY <5>1, <3>2, <2>2, TwoFields DEF ReadOldest, LibraryTypeOK
      <4> QED
        BY <3>2, <4>1, <2>3 DEF ReadOldest, To, LibraryTypeOK
    <3> QED
      BY <1>9, <3>1, <3>2
  <2> QED
    BY <1>9, <2>4 DEF ReadDefault, ReadOldest, table, LibraryTypeOK
<1>10. CASE Promote(r)
  <2> DEFINE i == req[r].own
  <2>1. [req[r] EXCEPT !.step = "fetch"] \in Pending
    BY <1>10, Moves DEF Promote, Pending
  <2>2. i \in Here => [script[i] EXCEPT !.default = TRUE] \in Rows
    BY DEF Rows
  <2>3. script' \in [Ids -> Rows \cup {Absent}] /\ \A j \in Ids : script[j] = Absent => script'[j] = Absent
    BY <1>10, <2>2 DEF Promote, LibraryTypeOK, Here
  <2> QED
    BY <1>10, <2>1, <2>3 DEF Promote, To, LibraryTypeOK
<1>11. CASE Seed(r)
  <2>1. [req[r] EXCEPT !.step = "fetch", !.own = created + 1] \in Pending
    <3>1. created + 1 \in Ids /\ req[r] \in Starts
      BY <1>11, InsertTypes DEF Seed, Inserted, LibraryTypeOK
    <3> QED
      BY <3>1 DEF Pending, Starts
  <2> QED
    BY <1>11, <2>1, InsertTypes DEF Seed, LibraryTypeOK
<1> QED
  BY <1>1, <1>2, <1>3, <1>4, <1>5, <1>6, <1>7, <1>8, <1>9, <1>10, <1>11 DEF GoOn

\* The types are kept, and hold at first.
LEMMA TypesStep == ASSUME LibraryTypeOK, [LibraryNext]_libraryVars PROVE LibraryTypeOK'
<1>1. CASE LibraryNext
  <2>1. Typed'
    <3>1. CASE \E r \in Slots : Serve(r)
      BY <3>1, ServeTypes
    <3>2. CASE \E r \in Slots : GoOn(r)
      BY <3>2, GoOnTypes
    <3>3. ASSUME NEW p \in Profiles, Detach(p) PROVE Typed'
      BY <3>3 DEF Detach, table, Typed, LibraryTypeOK
    <3>4. ASSUME NEW i \in Ids, Load(i) PROVE Typed'
      BY <3>4, RowTypes DEF Load, table, Typed, Versions, Rows, LibraryTypeOK
    <3>5. CASE Second
      BY <3>5 DEF Second, table, Typed, LibraryTypeOK
    <3> QED
      BY <1>1, <3>1, <3>2, <3>3, <3>4, <3>5 DEF LibraryNext
  <2> QED
    BY <1>1, <2>1, WatchTypes DEF LibraryNext, Typed, LibraryTypeOK
<1>2. CASE UNCHANGED libraryVars
  BY <1>2 DEF libraryVars, table, history, LibraryTypeOK
<1> QED
  BY <1>1, <1>2

LEMMA TypesInitial == ASSUME LibraryInit PROVE LibraryTypeOK
<1>1. Row(TRUE) \in Rows
  BY DEF LibraryInit, Row, Rows
<1>2. script \in [Ids -> Rows \cup {Absent}] /\ created \in Ids /\ \A i \in Ids : i > created => script[i] = Absent
  <2>1. 1 \in Ids /\ Ids \subseteq Nat
    BY LibraryAssumption DEF Ids
  <2>2. \A i \in Ids : script[i] = IF i = 1 THEN Row(TRUE) ELSE Absent
    BY DEF LibraryInit
  <2>3. created = 1 /\ script \in [Ids -> Rows \cup {Absent}]
    BY <1>1 DEF LibraryInit
  <2>4. \A i \in Ids : i # 1 => script[i] = Absent
    BY <2>2, Zenon
  <2>5. \A i \in Ids : i > 1 => i # 1
    BY <2>1
  <2> QED
    BY <2>1, <2>3, <2>4, <2>5
<1> QED
  BY <1>2 DEF LibraryInit, LibraryTypeOK

\* What the requests do to a row, and to their own place.
LEMMA SavedRow ==
  ASSUME LibraryTypeOK, NEW r \in Slots, Is(r, "put"), req[r].id \in Here
  PROVE  /\ Saved(req[r]) \in Rows
         /\ Saved(req[r]).pins = script[req[r].id].pins /\ Saved(req[r]).stamp = clock
<1>1. script[req[r].id] \in Rows /\ edits + 1 \in Nat /\ clock \in Nat /\ req[r] \in Puts
  BY RequestTypes, RowTypes DEF LibraryTypeOK
<1>2. req[r].default \in {"keep", "set", "unset"}
  BY <1>1 DEF Puts
<1> QED
  BY <1>1, <1>2 DEF Saved, Rows

LEMMA PinnedRow ==
  ASSUME LibraryTypeOK, NEW r \in Slots, Is(r, "list"), req[r].id \in Here
  PROVE  LET row == [script[req[r].id] EXCEPT !.pins = req[r].pins, !.stamp = clock]
         IN  /\ row \in Rows /\ row.pins = req[r].pins /\ row.stamp = clock
             /\ row.flow = script[req[r].id].flow /\ row.meta = script[req[r].id].meta
<1>1. req[r].pins \in SUBSET Profiles /\ clock \in Nat /\ script[req[r].id] \in Rows
  BY RequestTypes, RowTypes DEF Lists, LibraryTypeOK
<1> QED
  BY <1>1 DEF Rows

LEMMA PromotedRow ==
  ASSUME LibraryTypeOK, NEW i \in Here
  PROVE  LET row == [script[i] EXCEPT !.default = TRUE]
         IN  /\ row \in Rows /\ row # Absent /\ row.pins = script[i].pins /\ row.stamp = script[i].stamp
             /\ row.flow = script[i].flow /\ row.meta = script[i].meta
BY RowTypes, AbsentAssumption DEF Rows

\* A run that looks for its script stays a run, and Taken: what taking up a
\* request does to the others.
LEMMA RunGoesOn ==
  ASSUME LibraryTypeOK, NEW r \in Slots,
         ReadOwn(r) \/ ReadDefault(r) \/ ReadOldest(r) \/ Promote(r) \/ Seed(r) \/ Fetch(r)
  PROVE  Is(r, "run") /\ Is(r, "run")' /\ req'[r].gone = req[r].gone
<1>1. Is(r, "run") /\ req[r] \in Starts
  BY RequestTypes DEF ReadOwn, ReadDefault, ReadOldest, Promote, Seed, Fetch, At, Is
<1> DEFINE Step1 == \E step \in {"found", "none", "default", "oldest", "seed", "fetch"} : req'[r] = [req[r] EXCEPT !.step = step]
           Step2 == \E step \in {"fetch", "promote"}, i \in Ids : req'[r] = [req[r] EXCEPT !.step = step, !.own = i]
<1>2. Step1 \/ Step2
  <2>1. CASE ReadOwn(r) \/ Promote(r) \/ Fetch(r)
    <3>1. \E step \in {"found", "none", "default", "fetch"} : req' = [req EXCEPT ![r].step = step]
      BY <2>1 DEF ReadOwn, Promote, Fetch, Gets, To
    <3> QED
      BY <3>1 DEF LibraryTypeOK
  <2>2. CASE ReadDefault(r)
    <3>1. CASE Defaults # {}
      <4>1. PICK i \in Ids : req' = [req EXCEPT ![r].step = "fetch", ![r].own = i]
        BY <2>2, <3>1, RowTypes DEF ReadDefault, Defaults
      <4>2. req'[r] = [req[r] EXCEPT !.step = "fetch", !.own = i]
        BY <4>1, TwoFields DEF LibraryTypeOK
      <4> QED
        BY <4>2
    <3>2. CASE Defaults = {}
      BY <2>2, <3>2 DEF ReadDefault, To, LibraryTypeOK
    <3> QED
      BY <3>1, <3>2
  <2>3. CASE ReadOldest(r)
    <3>1. CASE Here # {}
      <4>1. Oldest \in Ids /\ req'[r] = [req[r] EXCEPT !.step = "promote", !.own = Oldest]
        BY <2>3, <3>1, TwoFields, OldestIsHere, RowTypes DEF ReadOldest, LibraryTypeOK
      <4> QED
        BY <4>1
    <3>2. CASE Here = {}
      BY <2>3, <3>2 DEF ReadOldest, To, LibraryTypeOK
    <3> QED
      BY <3>1, <3>2
  <2>4. CASE Seed(r)
    <3>1. created + 1 \in Ids /\ req'[r] = [req[r] EXCEPT !.step = "fetch", !.own = created + 1]
      BY <2>4, TwoFields, InsertTypes DEF Seed, Inserted, LibraryTypeOK
    <3> QED
      BY <3>1
  <2> QED
    BY <2>1, <2>2, <2>3, <2>4
<1>3. req'[r].op = "run" /\ req'[r].gone = req[r].gone /\ req'[r] \in Starts
  BY <1>1, <1>2 DEF Starts
<1> QED
  BY <1>1, <1>3, AbsentAssumption DEF Is, Pending

LEMMA Taken ==
  ASSUME LibraryTypeOK, NEW r \in Slots, Serve(r)
  PROVE  /\ \A s \in Slots : s # r => req'[s] = req[s]
         /\ req[r] = Absent
         /\ req'[r] # Absent => /\ req'[r].op = "assign" => req'[r].id \in Here
                                /\ req'[r].op = "delete" => req'[r].step = "unassign"
                                /\ req'[r].op = "run" => req'[r].step = "own" /\ req'[r].gone = FALSE
         /\ script' = script \/ script' = Cleared
<1> USE DEF Idle, Takes, table, LibraryTypeOK
<1>1. ASSUME NEW i \in Ids, NEW d \in {"keep", "set", "unset"}, NEW w \in {"flow", "meta", "none"}, NEW b \in {Absent, tab},
             Put(r, i, d, w, b) PROVE req'[r] # Absent => req'[r].op = "put"
  BY <1>1 DEF Put
<1>2. ASSUME NEW i \in Ids, NEW p \in Profiles, Assign(r, i, p) PROVE req'[r].op = "assign" /\ req'[r].id \in Here
  BY <1>2 DEF Assign
<1>3. ASSUME NEW i \in Ids, NEW p \in Profiles, NEW add \in BOOLEAN, Pin(r, i, p, add)
      PROVE  req'[r] # Absent => req'[r].op = "list"
  BY <1>3 DEF Pin
<1>4. ASSUME NEW i \in Ids, Delete(r, i) PROVE req'[r].op = "delete" /\ req'[r].step = "unassign"
  BY <1>4 DEF Delete
<1>5. ASSUME NEW d \in BOOLEAN, New(r, d) PROVE req'[r].op = "new"
  BY <1>5 DEF New
<1>6. ASSUME NEW p \in Profiles, Run(r, p) PROVE req'[r].op = "run" /\ req'[r].step = "own" /\ req'[r].gone = FALSE
  BY <1>6 DEF Run
<1>7. /\ \A s \in Slots : s # r => req'[s] = req[s]
      /\ req[r] = Absent
      /\ script' = script \/ script' = Cleared
  <2>1. \A s \in Slots : s # r => req'[s] = req[s]
    BY ZenonT(30) DEF Serve, Put, Assign, Pin, Delete, New, Run
  <2>2. req[r] = Absent
    BY ZenonT(30) DEF Serve, Put, Assign, Pin, Delete, New, Run
  <2>3. script' = script \/ script' = Cleared
    BY DEF Serve, Put, Assign, Pin, Delete, New, Run
  <2> QED
    BY <2>1, <2>2, <2>3
<1> DEFINE New1 == req'[r] # Absent => /\ req'[r].op = "assign" => req'[r].id \in Here
                                       /\ req'[r].op = "delete" => req'[r].step = "unassign"
                                       /\ req'[r].op = "run" => req'[r].step = "own" /\ req'[r].gone = FALSE
<1>8. ASSUME NEW i \in Ids,
             \/ \E d \in {"keep", "set", "unset"}, w \in {"flow", "meta", "none"}, b \in {Absent, tab} : Put(r, i, d, w, b)
             \/ \E p \in Profiles : Assign(r, i, p) \/ Pin(r, i, p, TRUE) \/ Pin(r, i, p, FALSE)
             \/ Delete(r, i)
      PROVE  New1
  BY <1>8, <1>1, <1>2, <1>3, <1>4
<1>9. New1
  BY <1>5, <1>6, <1>8 DEF Serve
<1> QED
  BY ONLY <1>7, <1>9

\* A deleted row marks the runs and leaves the other requests alone.
LEMMA GoneKeeps ==
  ASSUME LibraryTypeOK, NEW r \in Slots, DeleteRow(r), NEW s \in Slots
  PROVE  /\ req'[s] # Absent => req[s] # Absent /\ req'[s].op = req[s].op
         /\ req'[s] # Absent => (req'[s] = req[s] \/ (Is(s, "run") /\ req'[s].gone /\ req'[s].step = req[s].step))
         /\ \A op \in {"put", "new", "delete", "assign", "list"} : Is(s, op)' => Is(s, op) /\ req'[s] = req[s]
<1>1. CASE Is(s, "run") /\ s # r
  <2>1. req[s] \in Starts /\ req'[s] = [req[s] EXCEPT !.gone = TRUE]
    BY <1>1, RequestTypes DEF DeleteRow, Is
  <2> QED
    BY <1>1, <2>1 DEF Starts, Is
<1>2. CASE ~Is(s, "run") \/ s = r
  BY <1>2 DEF DeleteRow, Is
<1> QED
  BY <1>1, <1>2

(* One default.                                                            *)

\* While they have not overlapped there is one request for the default.
LEMMA AlterAlone ==
  ASSUME Watch, ~mixed'
  PROVE  ~mixed /\ \A r, s \in Slots : Alters(r)' /\ Alters(s)' => r = s
<1> DEFINE F == Flying(Changing)
<1>1. ~mixed /\ ~(Cardinality(F) > 1)
  BY DEF Watch
<1>2. F = {r \in Slots : Alters(r)'}
  BY DEF Flying, Alters, Changing
<1>3. IsFiniteSet(F)
  BY <1>2, LibraryAssumption, SmallerSet
<1>4. ASSUME NEW r \in F, NEW s \in F PROVE r = s
  BY <1>1, <1>3, <1>4, AtMostOne
<1> QED
  BY <1>1, <1>2, <1>4

\* No more defaults than before, and no new claim while there is one.
LEMMA DefaultsKept ==
  ASSUME DefaultInv, Watch, Defaults' \subseteq Defaults,
         \A s \in Slots : Claims(s)' => Claims(s) \/ Defaults' = {}
  PROVE  DefaultInv'
BY AlterAlone DEF DefaultInv

\* The only claim is served.
LEMMA DefaultsSet ==
  ASSUME DefaultInv, Watch, NEW r \in Slots, Claims(r), NEW i,
         Defaults = {} => Defaults' \subseteq {i},
         ~Alters(r)', \A s \in Slots : s # r => (Alters(s)' => Alters(s))
  PROVE  DefaultInv'
BY AlterAlone DEF DefaultInv, Claims

\* One slot changes, and its request is not one that claims the default.
LEMMA OneSlot ==
  ASSUME LibraryTypeOK, DefaultInv, Watch, NEW r \in Slots, Defaults' \subseteq Defaults,
         \A s \in Slots : s # r => req'[s] = req[s],
         Claims(r)' => Claims(r) \/ Defaults' = {}
  PROVE  DefaultInv'
<1>1. ASSUME NEW s \in Slots, s # r, Claims(s)' PROVE Claims(s)
  BY <1>1 DEF Claims, Alters, At, Changing
<1> QED
  BY <1>1, DefaultsKept

\* A request that is taken up claims the default only by clearing it.
LEMMA DefaultServe ==
  ASSUME LibraryTypeOK, DefaultInv, NEW r \in Slots, Serve(r), Watch PROVE DefaultInv'
<1> USE DEF Idle, Takes, table
<1>1. \A s \in Slots : s # r => req'[s] = req[s]
  BY ZenonT(30) DEF Serve, Put, Assign, Pin, Delete, New, Run, LibraryTypeOK
<1>2. ASSUME script' = script PROVE Defaults' = Defaults
  BY <1>2 DEF Defaults, Here
<1> USE DEF Claims, Alters, Changing, At
<1>3. ASSUME NEW i \in Ids, NEW d \in {"keep", "set", "unset"}, NEW w \in {"flow", "meta", "none"}, NEW b \in {Absent, tab},
             Put(r, i, d, w, b) PROVE DefaultInv'
  <2>1. script' = script /\ ~Claims(r)'
    BY <1>3 DEF Put, LibraryTypeOK
  <2> QED
    BY <1>1, <1>2, <2>1, OneSlot
<1>4. ASSUME NEW i \in Ids, NEW p \in Profiles, Assign(r, i, p) PROVE DefaultInv'
  <2>1. script' = script /\ ~Claims(r)'
    BY <1>4 DEF Assign, LibraryTypeOK
  <2> QED
    BY <1>1, <1>2, <2>1, OneSlot
<1>5. ASSUME NEW i \in Ids, NEW p \in Profiles, NEW add \in BOOLEAN, Pin(r, i, p, add) PROVE DefaultInv'
  <2>1. script' = script /\ ~Claims(r)'
    BY <1>5 DEF Pin, LibraryTypeOK
  <2> QED
    BY <1>1, <1>2, <2>1, OneSlot
<1>6. ASSUME NEW i \in Ids, Delete(r, i) PROVE DefaultInv'
  <2>1. script' = script /\ ~Claims(r)'
    BY <1>6 DEF Delete, LibraryTypeOK
  <2> QED
    BY <1>1, <1>2, <2>1, OneSlot
<1>7. ASSUME NEW p \in Profiles, Run(r, p) PROVE DefaultInv'
  <2>1. script' = script /\ ~Claims(r)'
    BY <1>7 DEF Run, LibraryTypeOK
  <2> QED
    BY <1>1, <1>2, <2>1, OneSlot
<1>8. CASE New(r, TRUE)
  <2>1. Defaults' = {}
    BY <1>8, ClearedRows DEF New, Defaults, Here
  <2> QED
    BY <1>1, <2>1, OneSlot
<1>9. CASE New(r, FALSE)
  <2>1. script' = script /\ ~Claims(r)'
    BY <1>9 DEF New, LibraryTypeOK
  <2> QED
    BY <1>1, <1>2, <2>1, OneSlot
<1> QED
  BY <1>3, <1>4, <1>5, <1>6, <1>7, <1>8, <1>9 DEF Serve

\* A request that goes on sets the default only if it has claimed it, and a
\* run finds its own only where there is none.
LEMMA DefaultGoOn ==
  ASSUME LibraryTypeOK, DefaultInv, NEW r \in Slots, GoOn(r), Watch PROVE DefaultInv'
<1> USE DEF To, Ends1, table
<1>1. ASSUME script' = script PROVE Defaults' = Defaults
  BY <1>1 DEF Defaults, Here
<1>2. CASE PutClear(r)
  <2>1. Defaults' = {} /\ \A s \in Slots : s # r => req'[s] = req[s]
    BY <1>2, ClearedRows DEF PutClear, Defaults, Here, LibraryTypeOK
  <2> QED
    BY <2>1, OneSlot
<1>3. CASE PutWrite(r)
  <2>1. /\ req'[r] = Absent /\ \A s \in Slots : s # r => req'[s] = req[s]
        /\ req[r] \in Puts /\ At(r, "put", "write")
    BY <1>3, RequestTypes DEF PutWrite, LibraryTypeOK, At, Is
  <2>2. ~Claims(r)'
    BY <2>1 DEF Claims, Alters
  <2>3. CASE req[r].default = "set"
    <3>1. Claims(r)
      BY <2>1, <2>3 DEF Claims, Alters, Changing, At
    <3>2. Defaults' \subseteq Defaults \cup {req[r].id}
      BY <1>3 DEF PutWrite, Defaults, Here, LibraryTypeOK
    <3> QED
      BY <2>1, <2>2, <3>1, <3>2, DefaultsSet DEF Alters, Changing
  <2>4. CASE req[r].default # "set"
    <3>1. req[r].id \in Here /\ Saved(req[r]).default => script[req[r].id].default
      BY <2>4, RowTypes DEF Saved, Rows
    <3>2. Defaults' \subseteq Defaults
      BY <1>3, <3>1 DEF PutWrite, Defaults, Here, LibraryTypeOK
    <3> QED
      BY <2>1, <2>2, <3>2, OneSlot
  <2> QED
    BY <2>3, <2>4
<1>4. CASE NewInsert(r)
  <2>1. /\ req'[r] = Absent /\ \A s \in Slots : s # r => req'[s] = req[s]
        /\ req[r] \in News /\ At(r, "new", "insert")
    BY <1>4, RequestTypes DEF NewInsert, LibraryTypeOK, At, Is
  <2>2. ~Claims(r)' /\ ~Alters(r)'
    BY <2>1 DEF Claims, Alters
  <2>3. CASE req[r].default
    <3>1. Claims(r)
      BY <2>1, <2>3 DEF Claims, Alters, Changing, At
    <3>2. Defaults' \subseteq Defaults \cup {created + 1}
      BY <1>4 DEF NewInsert, Inserted, Defaults, Here, LibraryTypeOK
    <3>3. \A s \in Slots : s # r => (Alters(s)' => Alters(s))
      BY <2>1 DEF Alters, Changing
    <3> QED
      BY <2>2, <3>1, <3>2, <3>3, DefaultsSet
  <2>4. CASE ~req[r].default
    <3>1. ~Row(req[r].default).default
      BY <2>4 DEF Row
    <3>2. Defaults' \subseteq Defaults
      BY <1>4, <3>1 DEF NewInsert, Inserted, Defaults, Here, LibraryTypeOK
    <3> QED
      BY <2>1, <2>2, <3>2, OneSlot
  <2> QED
    BY <2>3, <2>4
<1>5. CASE Unassign(r) \/ AssignWrite(r) \/ ReadOwn(r) \/ ReadDefault(r) \/ ReadOldest(r) \/ Fetch(r) \/ Resolved(r)
  <2>1. Defaults' = Defaults
    BY <1>1, <1>5 DEF Unassign, AssignWrite, ReadOwn, ReadDefault, ReadOldest, Fetch, Resolved
  <2>2. \A s \in Slots : s # r => req'[s] = req[s]
    BY <1>5 DEF Unassign, AssignWrite, ReadOwn, ReadDefault, ReadOldest, Fetch, Resolved, Gets, LibraryTypeOK
  <2>3. Claims(r)' => Claims(r) \/ Defaults = {}
    <3> USE DEF Claims, Alters, Changing, At, LibraryTypeOK
    <3>1. CASE Unassign(r) \/ ReadOwn(r) \/ Fetch(r)
      <4>1. req[r] # Absent /\ req[r].op \in {"delete", "run"} /\ \E step \in {"delete", "found", "none", "default"} : To(r, step)
        BY <3>1 DEF Unassign, ReadOwn, Fetch, Gets
      <4> QED
        BY <4>1, Moves
    <3>2. CASE AssignWrite(r) \/ Resolved(r)
      BY <3>2 DEF AssignWrite, Resolved
    <3>3. CASE ReadDefault(r)
      <4>1. CASE Defaults # {}
        <5>1. PICK i \in Ids : req' = [req EXCEPT ![r].step = "fetch", ![r].own = i]
          BY <3>3, <4>1, RowTypes DEF ReadDefault, Defaults
        <5>2. req[r] \in Starts /\ req'[r] = [req[r] EXCEPT !.step = "fetch", !.own = i]
          BY <3>3, <5>1, RequestTypes, TwoFields DEF ReadDefault, Is
        <5>3. req'[r].op = "run" /\ req'[r].step = "fetch"
          BY <5>2 DEF Starts
        <5> QED
          BY <5>3
      <4> QED
        BY <4>1
    <3>4. CASE ReadOldest(r)
      BY <3>4 DEF ReadOldest
    <3> QED
      BY <1>5, <3>1, <3>2, <3>3, <3>4
  <2> QED
    BY <2>1, <2>2, <2>3, OneSlot
<1>6. CASE DeleteRow(r)
  <2>1. Defaults' \subseteq Defaults
    BY <1>6 DEF DeleteRow, Defaults, Here, LibraryTypeOK
  <2>2. ASSUME NEW s \in Slots, Claims(s)' PROVE Claims(s)
    <3>1. CASE req[s] # Absent /\ req[s].op = "run" /\ s # r
      <4>1. req[s] \in Starts /\ req'[s] = [req[s] EXCEPT !.gone = TRUE]
        BY <3>1, <1>6, RequestTypes DEF DeleteRow, Is
      <4>2. req'[s].op = req[s].op /\ req'[s].step = req[s].step
        BY <4>1 DEF Starts
      <4> QED
        BY <2>2, <3>1, <4>2 DEF Claims, Alters, Changing, At
    <3>2. CASE ~(req[s] # Absent /\ req[s].op = "run") \/ s = r
      BY <1>6, <2>2, <3>2 DEF DeleteRow, Claims, Alters, Changing, At
    <3> QED
      BY <3>1, <3>2
  <2> QED
    BY <2>1, <2>2, DefaultsKept
<1>7. CASE PinWrite(r)
  <2>1. /\ \A s \in Slots : s # r => req'[s] = req[s]
        /\ ~Claims(r)'
    BY <1>7 DEF PinWrite, LibraryTypeOK, Claims, Alters
  <2>2. req[r].id \in Here => [script[req[r].id] EXCEPT !.pins = req[r].pins, !.stamp = clock].default = script[req[r].id].default
    BY RowTypes DEF Rows
  <2>3. Defaults' \subseteq Defaults
    BY <1>7, <2>2 DEF PinWrite, Defaults, Here, LibraryTypeOK
  <2> QED
    BY <2>1, <2>3, OneSlot
<1>8. CASE Promote(r)
  <2>1. \A s \in Slots : s # r => req'[s] = req[s]
    BY <1>8 DEF Promote, LibraryTypeOK
  <2>2. Claims(r) /\ ~Alters(r)'
    BY <1>8, Moves DEF Promote, Claims, Alters, Changing, At, LibraryTypeOK
  <2>3. Defaults' \subseteq Defaults \cup {req[r].own}
    BY <1>8 DEF Promote, Defaults, Here, LibraryTypeOK
  <2> QED
    BY <2>1, <2>2, <2>3, DefaultsSet DEF Alters, Changing
<1>9. CASE Seed(r)
  <2>1. \A s \in Slots : s # r => req'[s] = req[s]
    BY <1>9 DEF Seed, LibraryTypeOK
  <2>2. Claims(r) /\ ~Alters(r)'
    <3>1. req[r] \in Starts /\ req'[r] = [req[r] EXCEPT !.step = "fetch", !.own = created + 1]
      BY <1>9, RequestTypes, TwoFields DEF Seed, At, Is, LibraryTypeOK
    <3>2. req'[r].op = "run" /\ req'[r].step = "fetch"
      BY <3>1 DEF Starts
    <3> QED
      BY <1>9, <3>2 DEF Seed, Claims, Alters, Changing, At
  <2>3. Defaults' \subseteq Defaults \cup {created + 1}
    BY <1>9 DEF Seed, Inserted, Defaults, Here, LibraryTypeOK
  <2> QED
    BY <2>1, <2>2, <2>3, DefaultsSet DEF Alters, Changing
<1> QED
  BY <1>2, <1>3, <1>4, <1>5, <1>6, <1>7, <1>8, <1>9 DEF GoOn

\* One default, or two requests for it that overlapped.
LEMMA DefaultStep == ASSUME LibraryTypeOK, DefaultInv, [LibraryNext]_libraryVars PROVE DefaultInv'
<1>1. CASE LibraryNext
  <2>1. CASE \E r \in Slots : Serve(r)
    BY <1>1, <2>1, DefaultServe DEF LibraryNext
  <2>2. CASE \E r \in Slots : GoOn(r)
    BY <1>1, <2>2, DefaultGoOn DEF LibraryNext
  <2>3. CASE script' = script /\ req' = req
    BY <1>1, <2>3, DefaultsKept DEF LibraryNext, Defaults, Here, Claims, Alters, Changing, At
  <2> QED
    BY <1>1, <2>1, <2>2, <2>3 DEF LibraryNext, Detach, Load, Second, table
<1>2. CASE UNCHANGED libraryVars
  BY <1>2 DEF libraryVars, table, history, DefaultInv, Defaults, Here, Claims, Alters, Changing, At
<1> QED
  BY <1>1, <1>2

(* Assignments.                                                            *)

\* An assignment and a delete of one script at a time chase it.
LEMMA ChasedNow ==
  ASSUME LibraryTypeOK', Watch
  PROVE  /\ chased \subseteq chased'
         /\ \A r, s \in Slots : Is(r, "assign")' /\ Is(s, "delete")' /\ req'[r].id = req'[s].id => req'[r].id \in chased'
<1>1. chased \subseteq chased'
  BY DEF Watch
<1>2. ASSUME NEW r \in Slots, NEW s \in Slots, Is(r, "assign")', Is(s, "delete")', req'[r].id = req'[s].id
      PROVE  req'[r].id \in chased'
  <2> DEFINE i == req'[r].id
  <2>1. i \in Ids
    BY <1>2 DEF LibraryTypeOK, Is, Pending, Puts, News, Deletes, Assigns, Lists, Starts
  <2>2. r \in Flying(LAMBDA q : q.op = "assign" /\ q.id = i) /\ s \in Flying(LAMBDA q : q.op = "delete" /\ q.id = i)
    BY <1>2 DEF Flying, Is
  <2>3. chased' = chased \cup {j \in Ids : /\ Flying(LAMBDA q : q.op = "assign" /\ q.id = j) # {}
                                               /\ Flying(LAMBDA q : q.op = "delete" /\ q.id = j) # {}}
    BY DEF Watch
  <2> QED
    BY <2>1, <2>2, <2>3
<1> QED
  BY <1>1, <1>2

\* A step that deletes nothing and assigns nothing.
LEMMA AssignKept ==
  ASSUME LibraryTypeOK', AssignInv, Watch, Here \subseteq Here',
         \A p \in Profiles : assigned'[p] \in {assigned[p], Absent},
         \A s \in Slots : Is(s, "assign")' => req'[s].id \in Here \cup chased,
         \A s \in Slots : At(s, "delete", "delete")' => At(s, "delete", "delete") /\ req'[s].id = req[s].id
  PROVE  AssignInv'
<1>1. \A s \in Slots : req'[s] # Absent => req'[s] \in Pending
  BY DEF LibraryTypeOK
<1>2. \A s \in Slots : At(s, "delete", "delete")' => req'[s].id # Absent
  BY <1>1, AbsentAssumption DEF At, Pending, Puts, News, Deletes, Assigns, Lists, Starts, Ids
<1> QED
  BY <1>2, ChasedNow DEF AssignInv

\* Taking up a request assigns nothing, and an assignment names a row.
LEMMA AssignServe ==
  ASSUME LibraryTypeOK, LibraryTypeOK', AssignInv, NEW r \in Slots, Serve(r), Watch PROVE AssignInv'
<1>1. assigned' = assigned
  BY DEF Serve, Put, Assign, Pin, Delete, New, Run
<1>2. Here' = Here
  BY Taken, ClearedRows, ZenonT(30) DEF Here
<1>3. ASSUME NEW s \in Slots
      PROVE  /\ Is(s, "assign")' => req'[s].id \in Here \cup chased
             /\ At(s, "delete", "delete")' => At(s, "delete", "delete") /\ req'[s].id = req[s].id
  <2>1. CASE s = r
    <3>1. req'[r] # Absent => /\ req'[r].op = "assign" => req'[r].id \in Here
                              /\ req'[r].op = "delete" => req'[r].step = "unassign"
      BY Taken
    <3>2. Is(s, "assign")' => req'[s].id \in Here
      BY <2>1, <3>1 DEF Is
    <3>3. ~At(s, "delete", "delete")'
      BY <2>1, <3>1 DEF At
    <3> QED
      BY <3>2, <3>3
  <2>2. CASE s # r
    BY <2>2, Taken DEF Is, At, AssignInv
  <2> QED
    BY <2>1, <2>2
<1> QED
  BY <1>1, <1>2, <1>3, AssignKept

\* The writes of an assignment and of a delete.
LEMMA AssignGoOn ==
  ASSUME LibraryTypeOK, LibraryTypeOK', AssignInv, NEW r \in Slots, GoOn(r), Watch PROVE AssignInv'
<1> USE DEF To, Ends1, table
<1>1. CASE PutClear(r) \/ PutWrite(r) \/ NewInsert(r) \/ PinWrite(r) \/ Resolved(r)
  <2>1. assigned' = assigned /\ \A s \in Slots : s # r => req'[s] = req[s]
    BY <1>1 DEF PutClear, PutWrite, NewInsert, PinWrite, Resolved, LibraryTypeOK
  <2>2. Here \subseteq Here'
    <3>1. \A i \in Here : script'[i] # Absent
      <4>1. CASE PutClear(r) \/ NewInsert(r) \/ Resolved(r)
        <5>1. CASE PutClear(r) \/ Resolved(r)
          BY <5>1, ClearedRows DEF PutClear, Resolved, Here
        <5>2. CASE NewInsert(r)
          BY <5>2, NewRow, RequestTypes DEF NewInsert, Inserted, LibraryTypeOK, Here, At, Is, News
        <5> QED
          BY <4>1, <5>1, <5>2
      <4>2. CASE PutWrite(r)
        BY <4>2, AbsentAssumption, SavedRow DEF PutWrite, LibraryTypeOK, Here, At, Is
      <4>3. CASE PinWrite(r)
        <5>1. CASE req[r].id \in Here
          <6>1. Is(r, "list") /\ [script[req[r].id] EXCEPT !.pins = req[r].pins, !.stamp = clock] # Absent
            BY <4>3, <5>1, PinnedRow, AbsentAssumption DEF PinWrite, At, Is
          <6> QED
            BY <4>3, <5>1, <6>1 DEF PinWrite, LibraryTypeOK, Here
        <5>2. CASE req[r].id \notin Here
          BY <4>3, <5>2 DEF PinWrite, Here
        <5> QED
          BY <5>1, <5>2
      <4> QED
        BY <1>1, <4>1, <4>2, <4>3
    <3> QED
      BY <3>1 DEF Here
  <2>3. ~Is(r, "assign")' /\ ~At(r, "delete", "delete")'
    <3>1. CASE PutClear(r)
      BY <3>1, Moves DEF PutClear, LibraryTypeOK, Is, At
    <3>2. CASE ~PutClear(r)
      BY <1>1, <3>2 DEF PutWrite, NewInsert, PinWrite, Resolved, LibraryTypeOK, Is, At
    <3> QED
      BY <3>1, <3>2
  <2> QED
    BY <2>1, <2>2, <2>3, AssignKept DEF AssignInv, Is, At
<1>2. CASE ReadOwn(r) \/ ReadDefault(r) \/ ReadOldest(r) \/ Promote(r) \/ Seed(r) \/ Fetch(r)
  <2>1. assigned' = assigned /\ \A s \in Slots : s # r => req'[s] = req[s]
    BY <1>2 DEF ReadOwn, ReadDefault, ReadOldest, Promote, Seed, Fetch, Gets, LibraryTypeOK
  <2>2. Here \subseteq Here'
    <3>1. CASE ReadOwn(r) \/ ReadDefault(r) \/ ReadOldest(r) \/ Fetch(r)
      BY <3>1 DEF ReadOwn, ReadDefault, ReadOldest, Fetch, Here
    <3>2. CASE Seed(r)
      BY <3>2, NewRow DEF Seed, Inserted, Here, LibraryTypeOK
    <3>3. CASE Promote(r)
      BY <3>3, PromotedRow DEF Promote, Here, LibraryTypeOK
    <3> QED
      BY <1>2, <3>1, <3>2, <3>3
  <2>3. Is(r, "run")'
    BY <1>2, RunGoesOn
  <2> QED
    BY <2>1, <2>2, <2>3, AssignKept DEF AssignInv, Is, At
<1>3. CASE Unassign(r)
  <2>1. /\ \A s \in Slots : s # r => req'[s] = req[s]
        /\ Is(r, "delete")' /\ req'[r].id = req[r].id /\ Here' = Here
    <3>1. req[r] \in Deletes /\ Is(r, "delete") /\ req' = [req EXCEPT ![r] = [req[r] EXCEPT !.step = "delete"]]
      BY <1>3, RequestTypes DEF Unassign, At, Is
    <3>2. req'[r] = [req[r] EXCEPT !.step = "delete"]
      BY <3>1 DEF LibraryTypeOK
    <3>3. req'[r] \in Deletes /\ req'[r].id = req[r].id
      BY <3>1, <3>2 DEF Deletes
    <3> QED
      BY <1>3, <3>1, <3>3, AbsentAssumption DEF Unassign, Is, Here, LibraryTypeOK, Pending, Deletes
  <2>2. \A p \in Profiles : assigned'[p] \in {assigned[p], Absent} /\ (assigned'[p] # Absent => assigned'[p] # req[r].id)
    BY <1>3 DEF Unassign
  <2>3. req[r].id # Absent
    BY <1>3, RequestTypes, AbsentAssumption DEF Unassign, At, Is, Deletes, Ids
  <2>4. \A p \in Profiles : assigned'[p] \in {Absent} \cup Here' \cup chased'
    BY <2>1, <2>2, ChasedNow DEF AssignInv
  <2>5. \A s \in Slots : Is(s, "assign")' => req'[s].id \in Here' \cup chased'
    BY <2>1, ChasedNow DEF AssignInv, Is
  <2>6. \A s \in Slots, p \in Profiles : At(s, "delete", "delete")' /\ assigned'[p] = req'[s].id => req'[s].id \in chased'
    <3> SUFFICES ASSUME NEW s \in Slots, NEW p \in Profiles, At(s, "delete", "delete")', assigned'[p] = req'[s].id
                 PROVE  req'[s].id \in chased'
      OBVIOUS
    <3>1. CASE s = r
      BY <3>1, <2>1, <2>2, <2>3
    <3>2. CASE s # r
      <4>1. req'[s] = req[s] /\ At(s, "delete", "delete") /\ Is(s, "delete")
        BY <3>2, <2>1 DEF At, Is
      <4>2. req[s].id # Absent
        BY <4>1, RequestTypes, AbsentAssumption DEF Deletes, Ids
      <4> QED
        BY <4>1, <4>2, <2>2, ChasedNow DEF AssignInv
    <3> QED
      BY <3>1, <3>2
  <2> QED
    BY <2>4, <2>5, <2>6, ChasedNow DEF AssignInv
<1>4. CASE DeleteRow(r)
  <2> DEFINE i == req[r].id
  <2>1. Here' = Here \ {i} /\ assigned' = assigned
    BY <1>4, RequestTypes DEF DeleteRow, At, Is, Here, LibraryTypeOK, Deletes
  <2>2. \A s \in Slots : /\ Is(s, "assign")' => Is(s, "assign") /\ req'[s].id = req[s].id
                         /\ At(s, "delete", "delete")' => At(s, "delete", "delete") /\ req'[s].id = req[s].id
    BY <1>4, GoneKeeps DEF At, Is
  <2>3. Is(r, "delete") /\ At(r, "delete", "delete")
    BY <1>4 DEF DeleteRow, At, Is
  <2> QED
    BY <2>1, <2>2, <2>3, ChasedNow DEF AssignInv
<1>5. CASE AssignWrite(r)
  <2> DEFINE i == req[r].id
  <2>1. /\ \A s \in Slots : s # r => req'[s] = req[s]
        /\ req'[r] = Absent /\ Here' = Here /\ Is(r, "assign") /\ i \in Here \cup chased
    BY <1>5 DEF AssignWrite, At, Is, Here, LibraryTypeOK, AssignInv
  <2>2. \A p \in Profiles : assigned'[p] \in {assigned[p], i}
    BY <1>5 DEF AssignWrite, LibraryTypeOK
  <2> QED
    BY <2>1, <2>2, ChasedNow DEF AssignInv, Is, At
<1> QED
  BY <1>1, <1>2, <1>3, <1>4, <1>5 DEF GoOn

\* No profile is assigned a script that is gone, or it was chased.
LEMMA AssignStep ==
  ASSUME LibraryTypeOK, LibraryTypeOK', AssignInv, [LibraryNext]_libraryVars PROVE AssignInv'
<1>1. CASE LibraryNext
  <2>1. CASE \E r \in Slots : Serve(r)
    BY <1>1, <2>1, AssignServe DEF LibraryNext
  <2>2. CASE \E r \in Slots : GoOn(r)
    BY <1>1, <2>2, AssignGoOn DEF LibraryNext
  <2>3. ASSUME script' = script, req' = req, \A p \in Profiles : assigned'[p] \in {assigned[p], Absent}
        PROVE  AssignInv'
    BY <1>1, <2>3, AssignKept DEF LibraryNext, Here, Is, At, AssignInv
  <2>4. ASSUME NEW p \in Profiles, Detach(p) PROVE \A x \in Profiles : assigned'[x] \in {assigned[x], Absent}
    BY <2>4 DEF Detach, LibraryTypeOK
  <2> QED
    BY <1>1, <2>1, <2>2, <2>3, <2>4 DEF LibraryNext, Detach, Load, Second, table
<1>2. CASE UNCHANGED libraryVars
  BY <1>2 DEF libraryVars, table, history, AssignInv, Here, Is, At
<1> QED
  BY <1>1, <1>2

(* Runs, and the ids that requests name.                                   *)

\* What one request's step does to the run of another: nothing, or a deletion.
LEMMA OtherRuns ==
  ASSUME LibraryTypeOK, NEW r \in Slots, GoOn(r), ~DeleteRow(r)
  PROVE  /\ \A s \in Slots : s # r => req'[s] = req[s]
         /\ Here \subseteq Here'
<1> USE DEF To, Ends1, table
<1>1. \A s \in Slots : s # r => req'[s] = req[s]
  BY DEF GoOn, PutClear, PutWrite, NewInsert, Unassign, AssignWrite, PinWrite, ReadOwn, ReadDefault, ReadOldest, Promote, Seed,
         Fetch, Resolved, Gets, LibraryTypeOK
<1>2. CASE script' = script
  BY <1>1, <1>2 DEF Here
<1>3. CASE PutClear(r)
  BY <1>1, <1>3, ClearedRows DEF PutClear, Here
<1>4. CASE NewInsert(r)
  <2>1. Row(req[r].default) # Absent /\ script' = [script EXCEPT ![created + 1] = Row(req[r].default)]
    BY <1>4, NewRow, RequestTypes DEF NewInsert, Inserted, At, Is, News
  <2> QED
    BY <1>1, <2>1 DEF Here, LibraryTypeOK
<1>5. CASE PutWrite(r)
  BY <1>1, <1>5, AbsentAssumption, SavedRow DEF PutWrite, LibraryTypeOK, Here, At, Is
<1>6. CASE PinWrite(r)
  <2>1. req[r].id \in Here => [script[req[r].id] EXCEPT !.pins = req[r].pins, !.stamp = clock] # Absent
    BY <1>6, PinnedRow, AbsentAssumption DEF PinWrite, At, Is
  <2> QED
    BY <1>1, <1>6, <2>1 DEF PinWrite, Here, LibraryTypeOK
<1>7. CASE Promote(r)
  BY <1>1, <1>7, PromotedRow DEF Promote, Here, LibraryTypeOK
<1>8. CASE Seed(r)
  BY <1>1, <1>8, NewRow DEF Seed, Inserted, Here, LibraryTypeOK
<1> QED
  BY <1>2, <1>3, <1>4, <1>5, <1>6, <1>7, <1>8
  DEF GoOn, Unassign, AssignWrite, ReadOwn, ReadDefault, ReadOldest, Fetch, Resolved

\* What becomes of a row that is there after a step: it was there, with its
\* pins unless they were just written and with its content or a new stamp, or
\* it is new.
Remains(i)  == /\ i \in Here
               /\ \/ script'[i].stamp = script[i].stamp /\ Content(script', i) = Content(script, i)
                  \/ script'[i].stamp = clock
               /\ \/ script'[i].pins = script[i].pins
                  \/ \E r \in Slots : PinWrite(r) /\ Listing(r, i) /\ script'[i].pins = req[r].pins
Arrives(i) == i = created + 1 /\ created' = created + 1 /\ script'[i].stamp = clock /\ script'[i].pins = {}

\* An inserted row arrives, and the other rows remain; and so after any
\* request's step.
LEMMA ArrivesNew ==
  ASSUME LibraryTypeOK, NEW d \in BOOLEAN, Inserted(d), NEW i \in Here' PROVE i \in Ids /\ (Remains(i) \/ Arrives(i))
<1>1. i \in Ids /\ (i = created + 1 => script'[i] = Row(d))
  BY DEF Inserted, Here, LibraryTypeOK
<1>2. CASE i = created + 1
  BY <1>1, <1>2 DEF Inserted, Row, Arrives
<1>3. CASE i # created + 1
  <2>1. script'[i] = script[i]
    BY <1>1, <1>3 DEF Inserted, LibraryTypeOK
  <2> QED
    BY <1>1, <2>1 DEF Remains, Here, Content
<1> QED
  BY <1>1, <1>2, <1>3

LEMMA RowsAfter ==
  ASSUME LibraryTypeOK, NEW r \in Slots, Serve(r) \/ GoOn(r), NEW i \in Here' PROVE i \in Ids /\ (Remains(i) \/ Arrives(i))
<1> USE DEF table
<1>1. i \in Ids
  BY DEF Here
<1>2. CASE script' = script
  BY <1>1, <1>2 DEF Remains, Here, Content
<1>3. CASE script' = Cleared
  BY <1>1, <1>3, ClearedRows DEF Remains, Here, Content
<1>4. CASE PutWrite(r)
  <2>1. CASE req[r].id = i /\ i \in Here
    <3>1. script'[i] = Saved(req[r]) /\ Is(r, "put")
      BY <1>1, <1>4, <2>1 DEF PutWrite, LibraryTypeOK, At, Is
    <3> QED
      BY <1>1, <2>1, <3>1, SavedRow DEF Remains
  <2>2. CASE ~(req[r].id = i /\ i \in Here)
    <3>1. script'[i] = script[i]
      BY <1>1, <1>4, <2>2 DEF PutWrite, LibraryTypeOK
    <3> QED
      BY <1>1, <3>1 DEF Remains, Here, Content
  <2> QED
    BY <2>1, <2>2
<1>5. CASE PinWrite(r)
  <2>1. CASE req[r].id = i /\ i \in Here
    <3>1. script'[i] = [script[i] EXCEPT !.pins = req[r].pins, !.stamp = clock] /\ Is(r, "list")
      BY <1>1, <1>5, <2>1 DEF PinWrite, LibraryTypeOK, At, Is
    <3>2. script'[i].stamp = clock /\ script'[i].pins = req[r].pins
      BY <2>1, <3>1, PinnedRow
    <3> QED
      BY <1>1, <1>5, <2>1, <3>2 DEF Remains, Listing, PinWrite
  <2>2. CASE ~(req[r].id = i /\ i \in Here)
    <3>1. script'[i] = script[i]
      BY <1>1, <1>5, <2>2 DEF PinWrite, LibraryTypeOK
    <3> QED
      BY <1>1, <3>1 DEF Remains, Here, Content
  <2> QED
    BY <2>1, <2>2
<1>6. CASE DeleteRow(r)
  <2>1. script'[i] = script[i]
    BY <1>1, <1>6 DEF DeleteRow, Here, LibraryTypeOK
  <2> QED
    BY <1>1, <2>1 DEF Remains, Here, Content
<1>7. CASE Promote(r)
  <2>1. CASE req[r].own = i /\ i \in Here
    <3>1. script'[i] = [script[i] EXCEPT !.default = TRUE]
      BY <1>1, <1>7, <2>1 DEF Promote, LibraryTypeOK
    <3> QED
      BY <1>1, <2>1, <3>1, PromotedRow DEF Remains, Here, Content
  <2>2. CASE ~(req[r].own = i /\ i \in Here)
    <3>1. script'[i] = script[i]
      BY <1>1, <1>7, <2>2 DEF Promote, LibraryTypeOK
    <3> QED
      BY <1>1, <3>1 DEF Remains, Here, Content
  <2> QED
    BY <2>1, <2>2
<1>8. CASE NewInsert(r)
  BY <1>8, ArrivesNew, RequestTypes DEF NewInsert, At, Is, News
<1>9. CASE Seed(r)
  BY <1>9, ArrivesNew DEF Seed
<1>10. CASE Serve(r)
  BY <1>2, <1>3, <1>10, Taken
<1> QED
  BY <1>2, <1>3, <1>4, <1>5, <1>6, <1>7, <1>8, <1>9, <1>10
  DEF GoOn, PutClear, Unassign, AssignWrite, ReadOwn, ReadDefault, ReadOldest, Fetch, Resolved

\* Where each step of a run's search leads, and what it has found.
LEMMA RunSteps ==
  ASSUME LibraryTypeOK, NEW r \in Slots
  PROVE  /\ ReadOwn(r) => req'[r].step \in {"found", "default"}
         /\ ReadDefault(r) => req'[r].step = "oldest" \/ (req'[r].step = "fetch" /\ req'[r].own \in Here)
         /\ ReadOldest(r) => req'[r].step = "seed" \/ (req'[r].step = "promote" /\ req'[r].own \in Here)
         /\ Promote(r) => req'[r].step = "fetch" /\ req'[r].own = req[r].own
         /\ Seed(r) => req'[r].step = "fetch" /\ req'[r].own \in Here'
         /\ Fetch(r) => req'[r].step = "found" \/ (req'[r].step = "none" /\ req[r].own \notin Here)
<1>1. ASSUME NEW step, To(r, step), Is(r, "run")
      PROVE  req'[r].step = step /\ req'[r].own = req[r].own
  <2>1. req[r] \in Starts /\ req'[r] = [req[r] EXCEPT !.step = step]
    BY <1>1, RequestTypes DEF LibraryTypeOK, To
  <2> QED
    BY <2>1 DEF Starts
<1>2. ASSUME NEW step, NEW i, req' = [req EXCEPT ![r].step = step, ![r].own = i], Is(r, "run")
      PROVE  req'[r].step = step /\ req'[r].own = i
  <2>1. req[r] \in Starts /\ req'[r] = [req[r] EXCEPT !.step = step, !.own = i]
    BY <1>2, RequestTypes, TwoFields DEF LibraryTypeOK
  <2> QED
    BY <2>1 DEF Starts
<1> USE DEF At
<1>3. ReadOwn(r) => req'[r].step \in {"found", "default"}
  <2>1. ReadOwn(r) => Is(r, "run") /\ (To(r, "found") \/ To(r, "default"))
    BY DEF ReadOwn, Gets, To, Is
  <2> QED
    BY <1>1, <2>1
<1>4. ReadDefault(r) => req'[r].step = "oldest" \/ (req'[r].step = "fetch" /\ req'[r].own \in Here)
  <2>1. CASE ReadDefault(r) /\ Defaults # {}
    BY <1>2, <2>1 DEF Is, ReadDefault, Defaults
  <2>2. CASE ReadDefault(r) /\ Defaults = {}
    <3>1. To(r, "oldest") /\ Is(r, "run")
      BY <2>2 DEF Is, ReadDefault
    <3>2. req'[r].step = "oldest"
      BY <1>1, <3>1
    <3> QED
      BY <3>2
  <2> QED
    BY <2>1, <2>2
<1>5. ReadOldest(r) => req'[r].step = "seed" \/ (req'[r].step = "promote" /\ req'[r].own \in Here)
  <2>1. CASE ReadOldest(r) /\ Here # {}
    BY <1>2, <2>1, OldestIsHere DEF Is, ReadOldest
  <2>2. CASE ReadOldest(r) /\ Here = {}
    <3>1. To(r, "seed") /\ Is(r, "run")
      BY <2>2 DEF Is, ReadOldest
    <3>2. req'[r].step = "seed"
      BY <1>1, <3>1
    <3> QED
      BY <3>2
  <2> QED
    BY <2>1, <2>2
<1>6. Promote(r) => req'[r].step = "fetch" /\ req'[r].own = req[r].own
  BY <1>1 DEF Promote, Is
<1>7. Seed(r) => req'[r].step = "fetch" /\ req'[r].own \in Here'
  <2>1. Seed(r) => req'[r].step = "fetch" /\ req'[r].own = created + 1
    BY <1>2 DEF Is, Seed
  <2>2. Seed(r) => created + 1 \in Here'
    <3>1. Seed(r) => created + 1 \in Ids
      BY InsertTypes DEF Seed, Inserted
    <3>2. Seed(r) => script'[created + 1] = Row(TRUE)
      BY <3>1 DEF Seed, Inserted, LibraryTypeOK
    <3> QED
      BY <3>1, <3>2, NewRow DEF Here
  <2> QED
    BY <2>1, <2>2
<1>8. Fetch(r) => req'[r].step = "found" \/ (req'[r].step = "none" /\ req[r].own \notin Here)
  <2>1. Fetch(r) /\ req[r].own \in Here => To(r, "found") /\ Is(r, "run")
    BY DEF Fetch, Gets, To, Is
  <2>2. Fetch(r) /\ req[r].own \notin Here => To(r, "none") /\ Is(r, "run")
    BY DEF Fetch, Gets, To, Is
  <2>3. To(r, "none") /\ Is(r, "run") => req'[r].step = "none"
    BY <1>1
  <2>4. To(r, "found") /\ Is(r, "run") => req'[r].step = "found"
    BY <1>1
  <2> QED
    BY <2>1, <2>2, <2>3, <2>4
<1> QED
  BY <1>3, <1>4, <1>5, <1>6, <1>7, <1>8

\* The rows a run has found stay, but for a delete, which marks it.
LEMMA RunServe == ASSUME LibraryTypeOK, ResolvedInv, NEW r \in Slots, Serve(r) PROVE ResolvedInv'
<1>1. Here' = Here
  BY Taken, ClearedRows, ZenonT(30) DEF Here
<1>2. ASSUME NEW s \in Slots, Is(s, "run")', s = r PROVE req'[s].step = "own"
  BY <1>2, Taken DEF Is
<1>3. ASSUME NEW s \in Slots, s # r PROVE req'[s] = req[s]
  BY <1>3, Taken
<1> QED
  BY <1>1, <1>2, <1>3 DEF ResolvedInv, Is, At

LEMMA RunGoOn == ASSUME LibraryTypeOK, ResolvedInv, NEW r \in Slots, GoOn(r) PROVE ResolvedInv'
<1>1. CASE DeleteRow(r)
  <2>1. ASSUME NEW s \in Slots, Is(s, "run")' PROVE req'[s].gone
    BY <1>1, <2>1 DEF DeleteRow, Is, LibraryTypeOK, Pending, Puts, News, Deletes, Assigns, Lists, Starts
  <2> QED
    BY <2>1 DEF ResolvedInv, Is, At
<1>2. CASE ~DeleteRow(r)
  <2> SUFFICES ASSUME NEW s \in Slots, Is(s, "run")'
               PROVE  /\ req'[s].step \in {"promote", "fetch"} => req'[s].own \in Here' \/ req'[s].gone
                      /\ req'[s].step = "none" => req'[s].gone
    BY DEF ResolvedInv, Is, At
  <2>1. CASE s # r
    <3>1. req'[s] = req[s] /\ Here \subseteq Here'
      BY <1>2, <2>1, OtherRuns
    <3>2. Is(s, "run")
      BY <3>1 DEF Is
    <3>3. /\ req[s].step \in {"promote", "fetch"} => req[s].own \in Here \/ req[s].gone
          /\ req[s].step = "none" => req[s].gone
      BY <3>2 DEF ResolvedInv, Is, At
    <3> QED
      BY <3>1, <3>3
  <2>2. CASE s = r
    <3>1. CASE ReadOwn(r) \/ ReadDefault(r) \/ ReadOldest(r) \/ Promote(r) \/ Seed(r) \/ Fetch(r)
      <4>1. /\ Is(r, "run") /\ req'[r].gone = req[r].gone /\ Here \subseteq Here'
        BY <1>2, <3>1, RunGoesOn, OtherRuns
      <4>2. CASE ReadOwn(r) \/ ReadDefault(r) \/ ReadOldest(r) \/ Seed(r)
        BY <2>2, <4>1, <4>2, RunSteps DEF ResolvedInv
      <4>3. CASE Promote(r) \/ Fetch(r)
        <5>1. req[r].step \in {"promote", "fetch"} /\ (req[r].own \in Here \/ req[r].gone)
          BY <4>1, <4>3 DEF ResolvedInv, At, Promote, Fetch
        <5>2. /\ Promote(r) => req'[r].step = "fetch" /\ req'[r].own = req[r].own
              /\ Fetch(r) => req'[r].step = "found" \/ (req'[r].step = "none" /\ req[r].own \notin Here)
          BY RunSteps
        <5> QED
          BY <2>2, <4>1, <4>3, <5>1, <5>2
      <4> QED
        BY <3>1, <4>2, <4>3
    <3>2. CASE PutClear(r) \/ Unassign(r)
      <4>1. \E step : req'[r] = [req[r] EXCEPT !.step = step] /\ req[r] # Absent /\ req[r].op \in {"put", "delete"}
        BY <3>2 DEF PutClear, Unassign, To, At, LibraryTypeOK
      <4> QED
        BY <2>2, <4>1, Moves DEF Is
    <3>3. CASE PutWrite(r) \/ NewInsert(r) \/ AssignWrite(r) \/ PinWrite(r) \/ Resolved(r)
      BY <2>2, <3>3 DEF PutWrite, NewInsert, AssignWrite, PinWrite, Resolved, Ends1, Is, LibraryTypeOK
    <3> QED
      BY <1>2, <3>1, <3>2, <3>3 DEF GoOn
  <2> QED
    BY <2>1, <2>2
<1> QED
  BY <1>1, <1>2

\* A run resolves to a script, or one was deleted.
LEMMA RunStep == ASSUME LibraryTypeOK, ResolvedInv, [LibraryNext]_libraryVars PROVE ResolvedInv'
<1>1. CASE LibraryNext
  <2>1. CASE \E r \in Slots : Serve(r)
    BY <2>1, RunServe
  <2>2. CASE \E r \in Slots : GoOn(r)
    BY <2>2, RunGoOn
  <2>3. CASE script' = script /\ req' = req
    BY <2>3 DEF ResolvedInv, Here, Is, At
  <2> QED
    BY <1>1, <2>1, <2>2, <2>3 DEF LibraryNext, Detach, Load, Second, table
<1>2. CASE UNCHANGED libraryVars
  BY <1>2 DEF libraryVars, table, ResolvedInv, Here, Is, At
<1> QED
  BY <1>1, <1>2

(* Pins.                                                                   *)

\* A script that stays untangled was not asked for a pin while it was listed.
LEMMA Untangled ==
  ASSUME LibraryTypeOK, Watch, NEW i \in Ids \ tangled'
  PROVE  i \notin tangled /\ (meant'[i] = meant[i] \/ \A r \in Slots : ~Listing(r, i))
BY DEF Watch

\* A step that leaves the pins of a script and the requests for them alone.
LEMMA PinKept ==
  ASSUME NEW i \in Ids, PinOK(i), meant'[i] = meant[i], i > created' => i > created,
         \A s \in Slots : Listing(s, i)' => Listing(s, i) /\ req'[s].pins = req[s].pins,
         i \in Here' => \/ script'[i].pins = meant[i]
                        \/ /\ i \in Here /\ script'[i].pins = script[i].pins
                           /\ \A s \in Slots : Listing(s, i) => Listing(s, i)'
  PROVE  PinOK(i)'
<1>1. i \in Here' => Near(script'[i].pins, meant'[i])
  BY DEF PinOK, Near
<1> QED
  BY <1>1 DEF PinOK

\* A pin asked for of two lists that differ by one pin.
LEMMA AskedNear ==
  ASSUME NEW a1 \in SUBSET Profiles, NEW b1 \in SUBSET Profiles, Near(a1, b1), NEW p \in Profiles, NEW add \in BOOLEAN
  PROVE  /\ Near(a1, Asked(add, p, a1))
         /\ Asked(add, p, b1) = b1 /\ Asked(add, p, a1) # a1 => Asked(add, p, a1) = b1
<1>1. Near(a1, Asked(add, p, a1))
  BY DEF Near, Asked
<1>2. ASSUME Asked(add, p, b1) = b1, Asked(add, p, a1) # a1 PROVE Asked(add, p, a1) = b1
  <2>1. CASE add
    <3>1. p \in b1 /\ p \notin a1
      BY <1>2, <2>1 DEF Asked
    <3>2. PICK q \in Profiles : b1 = a1 \cup {q} \/ b1 = a1 \ {q}
      BY <3>1 DEF Near
    <3> QED
      BY <2>1, <3>1, <3>2 DEF Asked
  <2>2. CASE ~add
    <3>1. p \notin b1 /\ p \in a1
      BY <1>2, <2>2 DEF Asked
    <3>2. PICK q \in Profiles : b1 = a1 \cup {q} \/ b1 = a1 \ {q}
      BY <3>1 DEF Near
    <3> QED
      BY <2>2, <3>1, <3>2 DEF Asked
  <2> QED
    BY <2>1, <2>2
<1> QED
  BY <1>1, <1>2

\* A pin is asked for.
LEMMA PinAsked ==
  ASSUME LibraryTypeOK, NEW r \in Slots, NEW id \in Ids, NEW p \in Profiles, NEW add \in BOOLEAN, Pin(r, id, p, add),
         NEW i \in Ids, PinOK(i), meant'[i] = meant[i] \/ \A s \in Slots : ~Listing(s, i)
  PROVE  PinOK(i)'
<1> DEFINE pins == Asked(add, p, script[id].pins)
           q == [op |-> "list", id |-> id, pins |-> pins, step |-> "write"]
<1>1. /\ req[r] = Absent /\ id \in Here /\ script' = script /\ created' = created
      /\ meant' = [meant EXCEPT ![id] = Asked(add, p, @)]
      /\ pins = script[id].pins => req' = req
      /\ pins # script[id].pins => req' = [req EXCEPT ![r] = [q EXCEPT !.step = "write"]]
  BY DEF Pin, Idle, Takes, table
<1>2. Here' = Here
  BY <1>1 DEF Here
<1>3. [q EXCEPT !.step = "write"] = q /\ q \in Pending
  <2>1. pins \in SUBSET Profiles
    BY <1>1, RowTypes DEF Asked, Rows
  <2> QED
    BY <2>1 DEF Pending, Lists
<1>4. q # Absent
  BY <1>3, AbsentAssumption
<1>5. ASSUME NEW s \in Slots, s # r PROVE req'[s] = req[s]
  BY <1>1, <1>5 DEF LibraryTypeOK
<1>6. ~Listing(r, i)
  BY <1>1 DEF Listing, At
<1>7. CASE pins = script[id].pins
  <2>1. req' = req
    BY <1>1, <1>7
  <2>2. CASE i = id
    <3>1. meant'[i] = Asked(add, p, meant[i])
      BY <1>1, <2>2 DEF LibraryTypeOK
    <3>2. CASE meant'[i] = meant[i]
      BY <1>1, <1>2, <2>1, <3>2, PinKept DEF Listing, At
    <3>3. CASE \A s \in Slots : ~Listing(s, i)
      <4>1. script[i].pins = meant[i]
        BY <1>1, <2>2, <3>3 DEF PinOK
      <4>2. meant'[i] = script[i].pins /\ i \in Here
        BY <1>1, <1>7, <2>2, <3>1, <4>1
      <4>3. meant'[i] = meant[i]
        BY <4>1, <4>2
      <4> QED
        BY <1>1, <1>2, <2>1, <4>3, PinKept DEF Listing, At
    <3> QED
      BY <3>2, <3>3
  <2>3. CASE i # id
    <3>1. meant'[i] = meant[i]
      BY <1>1, <2>3 DEF LibraryTypeOK
    <3> QED
      BY <1>1, <1>2, <2>1, <3>1, PinKept DEF Listing, At
  <2> QED
    BY <2>2, <2>3
<1>8. CASE pins # script[id].pins
  <2>1. req'[r] = q
    BY <1>1, <1>3, <1>8 DEF LibraryTypeOK
  <2> HIDE DEF q
  <2>2. CASE i # id
    <3>1. meant'[i] = meant[i]
      BY <1>1, <2>2 DEF LibraryTypeOK
    <3>2. ~Listing(r, i)'
      BY <2>1, <2>2 DEF Listing, q
    <3>3. \A s \in Slots : (Listing(s, i)' <=> Listing(s, i)) /\ (Listing(s, i) => req'[s] = req[s])
      BY <1>5, <1>6, <3>2 DEF Listing, At
    <3> QED
      BY <1>1, <1>2, <3>1, <3>3, PinKept
  <2>3. CASE i = id
    <3>1. meant'[i] = Asked(add, p, meant[i])
      BY <1>1, <2>3 DEF LibraryTypeOK
    <3>2. Listing(r, i)' /\ req'[r].pins = pins
      BY <1>4, <2>1, <2>3 DEF Listing, At, q
    <3>3. /\ script[i].pins \in SUBSET Profiles /\ meant[i] \in SUBSET Profiles
          /\ Near(script[i].pins, meant[i])
      BY <1>1, <2>3, RowTypes DEF PinOK, Rows, LibraryTypeOK
    <3>4. pins = meant'[i]
      <4>1. CASE meant'[i] = meant[i]
        <5>1. Asked(add, p, meant[i]) = meant[i] /\ Asked(add, p, script[i].pins) # script[i].pins
          BY <1>8, <2>3, <3>1, <4>1
        <5>2. Asked(add, p, script[i].pins) = meant[i]
          BY <3>3, <5>1, AskedNear
        <5> QED
          BY <2>3, <4>1, <5>2
      <4>2. CASE \A s \in Slots : ~Listing(s, i)
        <5>1. script[i].pins = meant[i]
          BY <1>1, <2>3, <4>2 DEF PinOK
        <5> QED
          BY <2>3, <3>1, <5>1
      <4> QED
        BY <4>1, <4>2
    <3>5. Near(script'[i].pins, meant'[i])
      BY <1>1, <2>3, <3>3, <3>4, AskedNear
    <3>6. \A s \in Slots : Listing(s, i)' => req'[s].pins = meant'[i]
      <4>1. ASSUME NEW s \in Slots, s # r, Listing(s, i)' PROVE req'[s].pins = meant'[i]
        <5>1. Listing(s, i) /\ req'[s] = req[s]
          BY <1>5, <4>1 DEF Listing, At
        <5>2. meant'[i] = meant[i]
          BY <5>1
        <5> QED
          BY <5>1, <5>2 DEF PinOK
      <4> QED
        BY <3>2, <3>4, <4>1
    <3>7. ~(i > created')
      BY <1>1, <2>3, RowTypes DEF LibraryTypeOK
    <3> QED
      BY <3>2, <3>5, <3>6, <3>7 DEF PinOK
  <2> QED
    BY <2>2, <2>3
<1> QED
  BY <1>7, <1>8

\* A request that is taken up, one that goes on, and every step keep the pins
\* of an untangled script as they were asked for.
LEMMA PinServe ==
  ASSUME LibraryTypeOK, NEW r \in Slots, Serve(r), NEW i \in Ids, PinOK(i), meant'[i] = meant[i] \/ \A s \in Slots : ~Listing(s, i)
  PROVE  PinOK(i)'
<1>1. ASSUME NEW id \in Ids, NEW p \in Profiles, NEW add \in BOOLEAN, Pin(r, id, p, add) PROVE PinOK(i)'
  BY <1>1, PinAsked
<1>2. CASE meant' = meant /\ created' = created /\ (req'[r] # Absent => req'[r].op # "list")
  <2>1. \A s \in Slots : s # r => req'[s] = req[s]
    BY Taken
  <2>2. ~Listing(r, i) /\ ~Listing(r, i)'
    BY <1>2, Taken DEF Listing, At
  <2>3. \A s \in Slots : (Listing(s, i)' <=> Listing(s, i)) /\ (Listing(s, i) => req'[s] = req[s])
    BY <2>1, <2>2 DEF Listing, At
  <2>4. Here' = Here /\ (i \in Here => script'[i].pins = script[i].pins)
    <3>1. script' = script \/ script' = Cleared
      BY Taken
    <3> QED
      BY <3>1, ClearedRows DEF Here
  <2> QED
    BY <1>2, <2>3, <2>4, PinKept
<1> USE DEF Takes, table, LibraryTypeOK
<1>3. ASSUME NEW id \in Ids, NEW d \in {"keep", "set", "unset"}, NEW w \in {"flow", "meta", "none"}, NEW b \in {Absent, tab},
             Put(r, id, d, w, b) PROVE PinOK(i)'
  BY <1>2, <1>3 DEF Put
<1>4. ASSUME NEW id \in Ids, NEW p \in Profiles, Assign(r, id, p) PROVE PinOK(i)'
  BY <1>2, <1>4 DEF Assign
<1>5. ASSUME NEW id \in Ids, Delete(r, id) PROVE PinOK(i)'
  BY <1>2, <1>5 DEF Delete
<1>6. ASSUME NEW d \in BOOLEAN, New(r, d) PROVE PinOK(i)'
  BY <1>2, <1>6 DEF New
<1>7. ASSUME NEW p \in Profiles, Run(r, p) PROVE PinOK(i)'
  BY <1>2, <1>7 DEF Run
<1> QED
  BY <1>1, <1>3, <1>4, <1>5, <1>6, <1>7 DEF Serve

\* Only a request for pins is a listing, and it keeps its list until it is written.
LEMMA ListingStays ==
  ASSUME LibraryTypeOK, NEW r \in Slots, GoOn(r), NEW s \in Slots, NEW i
  PROVE  /\ Listing(s, i)' => Listing(s, i) /\ req'[s] = req[s]
         /\ Listing(s, i) => Listing(s, i)' \/ (s = r /\ PinWrite(r))
<1>1. CASE DeleteRow(r)
  <2>1. Listing(s, i)' => Is(s, "list")'
    BY DEF Listing, At, Is
  <2>2. Listing(s, i) => req'[s] = req[s]
    BY <1>1 DEF DeleteRow, Listing, At, LibraryTypeOK
  <2> QED
    BY <1>1, <2>1, <2>2, GoneKeeps DEF Listing, At
<1>2. CASE s # r /\ ~DeleteRow(r)
  <2>1. req'[s] = req[s]
    BY <1>2, OtherRuns
  <2> QED
    BY <2>1 DEF Listing, At
<1>3. CASE s = r /\ ~DeleteRow(r)
  <2>1. Listing(r, i) => PinWrite(r)
    BY <1>3 DEF Listing, At, GoOn, PutClear, PutWrite, NewInsert, Unassign, AssignWrite, PinWrite, ReadOwn, ReadDefault, ReadOldest,
                Promote, Seed, Fetch, Resolved
  <2>2. ~Listing(r, i)'
    <3>1. CASE ReadOwn(r) \/ ReadDefault(r) \/ ReadOldest(r) \/ Promote(r) \/ Seed(r) \/ Fetch(r)
      BY <3>1, RunGoesOn DEF Listing, At, Is
    <3>2. CASE PutClear(r) \/ Unassign(r)
      <4>1. \E step : req'[r] = [req[r] EXCEPT !.step = step] /\ req[r] # Absent /\ req[r].op \in {"put", "delete"}
        BY <3>2 DEF PutClear, Unassign, To, At, LibraryTypeOK
      <4> QED
        BY <4>1, Moves DEF Listing, At
    <3>3. CASE PutWrite(r) \/ NewInsert(r) \/ AssignWrite(r) \/ PinWrite(r) \/ Resolved(r)
      BY <3>3 DEF PutWrite, NewInsert, AssignWrite, PinWrite, Resolved, Ends1, Listing, At, LibraryTypeOK
    <3> QED
      BY <1>3, <3>1, <3>2, <3>3 DEF GoOn
  <2> QED
    BY <1>3, <2>1, <2>2
<1> QED
  BY <1>1, <1>2, <1>3

LEMMA PinGoOn ==
  ASSUME LibraryTypeOK, LibraryTypeOK', NEW r \in Slots, GoOn(r), NEW i \in Ids, PinOK(i) PROVE PinOK(i)'
<1>1. meant' = meant
  BY DEF GoOn, PutClear, PutWrite, NewInsert, Unassign, AssignWrite, PinWrite, ReadOwn, ReadDefault, ReadOldest, Promote, Seed,
         Fetch, Resolved, DeleteRow
<1>2. i > created' => i > created
  <2>1. created' = created \/ created' = created + 1
    BY DEF GoOn, PutClear, PutWrite, NewInsert, Unassign, AssignWrite, PinWrite, ReadOwn, ReadDefault, ReadOldest, Promote, Seed,
           Fetch, Resolved, DeleteRow, Inserted, table
  <2> QED
    BY <2>1 DEF LibraryTypeOK, Ids
<1>3. \A s \in Slots : Listing(s, i)' => Listing(s, i) /\ req'[s].pins = req[s].pins
  BY ListingStays
<1>4. ASSUME i \in Here' PROVE \/ script'[i].pins = meant[i]
                              \/ /\ i \in Here /\ script'[i].pins = script[i].pins
                                 /\ \A s \in Slots : Listing(s, i) => Listing(s, i)'
  <2>1. Remains(i) \/ Arrives(i)
    BY <1>4, RowsAfter
  <2>2. CASE Arrives(i)
    <3>1. i > created
      BY <2>2 DEF Arrives, LibraryTypeOK, Ids
    <3> QED
      BY <2>2, <3>1 DEF Arrives, PinOK
  <2>3. CASE Remains(i)
    <3>1. CASE PinWrite(r) /\ Listing(r, i)
      <4>1. script'[i].pins = req[r].pins
        <5>1. i = req[r].id /\ i \in Here /\ Is(r, "list")
          BY <2>3, <3>1 DEF Remains, Listing, At, Is
        <5>2. script'[i] = [script[i] EXCEPT !.pins = req[r].pins, !.stamp = clock]
          BY <3>1, <5>1 DEF PinWrite, LibraryTypeOK
        <5> QED
          BY <5>1, <5>2, PinnedRow
      <4> QED
        BY <3>1, <4>1 DEF PinOK
    <3>2. CASE ~(PinWrite(r) /\ Listing(r, i))
      <4>1. \A s \in Slots : Listing(s, i) => Listing(s, i)'
        BY <3>2, ListingStays
      <4>2. script'[i].pins = script[i].pins \/ script'[i].pins = meant[i]
        BY <2>3 DEF Remains, PinOK
      <4> QED
        BY <2>3, <4>1, <4>2 DEF Remains
    <3> QED
      BY <3>1, <3>2
  <2> QED
    BY <2>1, <2>2, <2>3
<1> QED
  BY <1>1, <1>2, <1>3, <1>4, PinKept

LEMMA PinStep ==
  ASSUME LibraryTypeOK, LibraryTypeOK', PinInv, [LibraryNext]_libraryVars PROVE PinInv'
<1>1. CASE LibraryNext
  <2> SUFFICES ASSUME NEW i \in Ids \ tangled' PROVE PinOK(i)'
    BY DEF PinInv, PinOK
  <2>1. PinOK(i) /\ (meant'[i] = meant[i] \/ \A s \in Slots : ~Listing(s, i))
    BY <1>1, Untangled DEF LibraryNext, PinInv, PinOK
  <2>2. CASE \E r \in Slots : Serve(r)
    BY <2>1, <2>2, PinServe
  <2>3. CASE \E r \in Slots : GoOn(r)
    BY <2>1, <2>3, PinGoOn
  <2>4. CASE table' = table /\ req' = req /\ meant' = meant
    BY <2>1, <2>4 DEF table, PinOK, Here, Listing, At
  <2> QED
    BY <1>1, <2>2, <2>3, <2>4 DEF LibraryNext, Detach, Load, Second
<1>2. CASE UNCHANGED libraryVars
  BY <1>2 DEF libraryVars, table, history, PinInv, PinOK, Here, Listing, At
<1> QED
  BY <1>1, <1>2

(* Saves and the versions they edit.                                       *)

\* Time, the ids and the rows of one step.
LEMMA Onwards ==
  ASSUME LibraryTypeOK, [LibraryNext]_libraryVars
  PROVE  /\ clock' \in Nat /\ clock <= clock' /\ created <= created'
         /\ \A i \in Here' : i \in Ids /\ (Remains(i) \/ Arrives(i))
<1>1. ASSUME NEW r \in Slots, Serve(r) \/ GoOn(r)
      PROVE  clock' = clock /\ (created' = created \/ created' = created + 1)
  BY <1>1 DEF Serve, Put, Assign, Pin, Delete, New, Run, GoOn, PutClear, PutWrite, NewInsert, Unassign, AssignWrite, PinWrite,
              ReadOwn, ReadDefault, ReadOldest, Promote, Seed, Fetch, Resolved, DeleteRow, Inserted, table
<1>2. CASE \E r \in Slots : Serve(r) \/ GoOn(r)
  BY <1>1, <1>2, RowsAfter DEF LibraryTypeOK, Ids
<1>3. CASE ~\E r \in Slots : Serve(r) \/ GoOn(r)
  <2>1. table' = table /\ (clock' = clock \/ clock' = clock + 1)
    BY <1>3 DEF LibraryNext, Detach, Load, Second, libraryVars
  <2> QED
    BY <2>1 DEF LibraryTypeOK, Ids, table, Here, Remains, Content
<1> QED
  BY <1>2, <1>3

\* A write is stamped with the clock.
LEMMA StampStep == ASSUME LibraryTypeOK, StampInv, [LibraryNext]_libraryVars PROVE StampInv'
<1> SUFFICES ASSUME NEW i \in Here' PROVE script'[i].stamp <= clock'
  BY DEF StampInv
<1>1. script'[i].stamp = clock \/ (i \in Here /\ script'[i].stamp = script[i].stamp)
  BY Onwards DEF Remains, Arrives
<1>2. i \in Here => script[i].stamp <= clock /\ script[i].stamp \in Nat
  BY RowTypes DEF StampInv, Rows
<1> QED
  BY <1>1, <1>2, Onwards DEF LibraryTypeOK

\* The page holds the row, or the row was saved since.
LEMMA TabStep == ASSUME LibraryTypeOK, LibraryTypeOK', StampInv, TabInv, [LibraryNext]_libraryVars PROVE TabInv'
<1>1. CASE tab' = tab
  <2> SUFFICES ASSUME tab # Absent
               PROVE  /\ tab.stamp <= tab.at /\ tab.at <= clock' /\ tab.id <= created'
                      /\ tab.id \in Here' => \/ Content(script', tab.id) = <<tab.flow, tab.meta>>
                                             \/ script'[tab.id].stamp >= tab.at
    BY <1>1 DEF TabInv
  <2>1. tab \in Versions /\ tab.at \in Nat /\ tab.id \in Nat
    BY LibraryAssumption DEF LibraryTypeOK, Versions, Ids
  <2>2. tab.stamp <= tab.at /\ tab.at <= clock' /\ tab.id <= created'
    <3>1. clock \in Nat /\ clock' \in Nat /\ clock <= clock' /\ created \in Nat /\ created <= created'
      BY Onwards, RowTypes DEF LibraryTypeOK
    <3>2. created' \in Nat
      BY <3>1, LibraryTypeOK', LibraryAssumption DEF LibraryTypeOK, Ids
    <3> QED
      BY <2>1, <3>1, <3>2 DEF TabInv
  <2>3. ASSUME tab.id \in Here' PROVE Remains(tab.id)
    <3>1. ~Arrives(tab.id)
      BY <2>1 DEF Arrives, TabInv, LibraryTypeOK, Ids
    <3> QED
      BY <2>3, <3>1, Onwards
  <2>4. ASSUME tab.id \in Here'
        PROVE  Content(script', tab.id) = <<tab.flow, tab.meta>> \/ script'[tab.id].stamp >= tab.at
    BY <2>1, <2>3, <2>4 DEF Remains, TabInv, LibraryTypeOK
  <2> QED
    BY <2>2, <2>4
<1>2. ASSUME NEW i \in Ids, Load(i) PROVE TabInv'
  <2>1. /\ script' = script /\ created' = created /\ clock' = clock /\ i \in Here
        /\ tab' = [id |-> i, flow |-> script[i].flow, meta |-> script[i].meta, stamp |-> script[i].stamp, at |-> clock]
    BY <1>2 DEF Load, table
  <2>2. i <= created /\ script[i].stamp <= clock /\ clock \in Nat /\ script[i] # Absent
    BY <2>1, RowTypes DEF StampInv, LibraryTypeOK, Here
  <2> QED
    BY <2>1, <2>2 DEF TabInv, Content
<1>3. tab' = tab \/ \E i \in Ids : Load(i)
  <2>1. ASSUME NEW r \in Slots, Serve(r) \/ GoOn(r) PROVE tab' = tab
    BY <2>1 DEF Serve, Put, Assign, Pin, Delete, New, Run, GoOn, PutClear, PutWrite, NewInsert, Unassign, AssignWrite, PinWrite,
                ReadOwn, ReadDefault, ReadOldest, Promote, Seed, Fetch, Resolved, DeleteRow
  <2> QED
    BY <2>1 DEF LibraryNext, libraryVars, Detach, Second
<1> QED
  BY <1>1, <1>2, <1>3

\* A request that names a version was taken up with it, on a row that has its
\* tag, or was there before.
LEMMA GuardedStays ==
  ASSUME LibraryTypeOK, [LibraryNext]_libraryVars, NEW s \in Guarded'
  PROVE  \/ s \in Guarded /\ req'[s].base = req[s].base /\ req'[s].id = req[s].id
         \/ /\ script' = script /\ req'[s].base = tab /\ tab # Absent /\ req'[s].id = tab.id /\ tab.id \in Here
            /\ script[tab.id].stamp = tab.stamp /\ script[tab.id].flow = tab.flow
<1>1. s \in Slots /\ Is(s, "put")' /\ req'[s].base # Absent
  BY DEF Guarded, Is
<1>2. CASE req'[s] = req[s]
  BY <1>1, <1>2 DEF Guarded
<1>3. ASSUME Serve(s) PROVE \E i \in Ids, d \in {"keep", "set", "unset"}, w \in {"flow", "meta", "none"}, b \in {Absent, tab} : Put(s, i, d, w, b)
  <2> USE DEF Takes, Is, LibraryTypeOK
  <2>1. ASSUME NEW i \in Ids, NEW p \in Profiles, Assign(s, i, p) PROVE FALSE
    BY <1>1, <2>1 DEF Assign
  <2>2. ASSUME NEW i \in Ids, NEW p \in Profiles, NEW add \in BOOLEAN, Pin(s, i, p, add) PROVE FALSE
    BY <1>1, <2>2 DEF Pin, Idle
  <2>3. ASSUME NEW i \in Ids, Delete(s, i) PROVE FALSE
    BY <1>1, <2>3 DEF Delete
  <2>4. ASSUME NEW d \in BOOLEAN, New(s, d) PROVE FALSE
    BY <1>1, <2>4 DEF New
  <2>5. ASSUME NEW p \in Profiles, Run(s, p) PROVE FALSE
    BY <1>1, <2>5 DEF Run
  <2> QED
    BY <1>3, <2>1, <2>2, <2>3, <2>4, <2>5 DEF Serve
<1>4. ASSUME NEW i \in Ids, NEW d \in {"keep", "set", "unset"}, NEW w \in {"flow", "meta", "none"}, NEW b \in {Absent, tab},
             Put(s, i, d, w, b)
      PROVE  /\ script' = script /\ req'[s].base = tab /\ tab # Absent /\ req'[s].id = tab.id /\ tab.id \in Here
             /\ script[tab.id].stamp = tab.stamp /\ script[tab.id].flow = tab.flow
  <2> DEFINE q == [op |-> "put", id |-> i, default |-> d, what |-> w, base |-> b, step |-> "write"]
             step == IF d = "set" THEN "clear" ELSE "write"
  <2>1. /\ script' = script
        /\ b # Absent => b.id = i /\ EtagMatches(q)
    BY <1>4 DEF Put, Takes, table
  <2>2. req'[s] = [q EXCEPT !.step = step]
    <3> DEFINE new == [q EXCEPT !.step = step]
    <3>1. req' = [req EXCEPT ![s] = new]
      BY <1>4 DEF Put, Takes
    <3> HIDE DEF new
    <3>2. req'[s] = new
      BY <1>1, <3>1 DEF LibraryTypeOK
    <3> QED
      BY <3>2 DEF new
  <2> HIDE DEF step
  <2>3. req'[s].base = b /\ req'[s].id = i
    BY <2>2
  <2>4. b = tab /\ tab # Absent
    BY <1>1, <2>3
  <2> QED
    BY <2>1, <2>3, <2>4 DEF EtagMatches
<1>5. ASSUME GoOn(s), req'[s] # req[s] PROVE s \in Guarded /\ req'[s].base = req[s].base /\ req'[s].id = req[s].id
  <2>1. PutClear(s)
    <3>1. CASE DeleteRow(s)
      BY <1>1, <3>1, GoneKeeps DEF DeleteRow, At, Is
    <3>2. CASE ReadOwn(s) \/ ReadDefault(s) \/ ReadOldest(s) \/ Promote(s) \/ Seed(s) \/ Fetch(s)
      BY <1>1, <3>2, RunGoesOn DEF Is
    <3>3. CASE Unassign(s)
      <4>1. req'[s] = [req[s] EXCEPT !.step = "delete"] /\ req[s] # Absent /\ req[s].op = "delete"
        BY <1>1, <3>3 DEF Unassign, To, At, LibraryTypeOK
      <4> QED
        BY <1>1, <4>1, Moves DEF Is
    <3>4. CASE PutWrite(s) \/ NewInsert(s) \/ AssignWrite(s) \/ PinWrite(s) \/ Resolved(s)
      BY <1>1, <3>4 DEF PutWrite, NewInsert, AssignWrite, PinWrite, Resolved, Ends1, Is, LibraryTypeOK
    <3> QED
      BY <1>5, <3>1, <3>2, <3>3, <3>4 DEF GoOn
  <2>2. Is(s, "put") /\ req[s] \in Puts /\ req'[s] = [req[s] EXCEPT !.step = "write"]
    BY <1>1, <2>1, RequestTypes DEF PutClear, To, At, Is, LibraryTypeOK
  <2>3. req'[s].base = req[s].base /\ req'[s].id = req[s].id
    BY <2>2 DEF Puts
  <2> QED
    BY <1>1, <2>2, <2>3 DEF Guarded, Is
<1>6. ASSUME NEW r \in Slots, r # s, Serve(r) \/ GoOn(r), req'[s] # req[s] PROVE FALSE
  BY <1>1, <1>6, Taken, OtherRuns, GoneKeeps
<1>7. req' = req \/ \E r \in Slots : Serve(r) \/ GoOn(r)
  BY DEF LibraryNext, libraryVars, Detach, Load, Second
<1> QED
  BY <1>1, <1>2, <1>3, <1>4, <1>5, <1>6, <1>7

\* A guarded save names the row of its version.
LEMMA BaseStep == ASSUME LibraryTypeOK, LibraryTypeOK', TabInv, BaseInv, [LibraryNext]_libraryVars PROVE BaseInv'
<1> SUFFICES ASSUME NEW s \in Guarded' PROVE req'[s].base.id = req'[s].id /\ req'[s].id <= created'
  BY DEF BaseInv
<1>1. req'[s].base.id = req'[s].id /\ req'[s].id <= created
  BY GuardedStays DEF BaseInv, TabInv
<1>2. req'[s].id \in Ids
  BY DEF Guarded, LibraryTypeOK, Pending, Puts, News, Deletes, Assigns, Lists, Starts
<1>3. created <= created' /\ created \in Nat /\ created' \in Nat /\ req'[s].id \in Nat
  BY <1>2, Onwards, LibraryAssumption DEF LibraryTypeOK, Ids
<1>4. req'[s].id <= created'
  BY <1>1, <1>3
<1> QED
  BY <1>1, <1>4

\* The row under a guarded save is the version it names, unless it was raced
\* or the version was loaded in the second of its stamp.
LEMMA SavesStep ==
  ASSUME LibraryTypeOK, StampInv, TabInv, BaseInv, SavesSeen, [LibraryNext]_libraryVars PROVE SavesSeen'
<1> SUFFICES ASSUME NEW s \in Guarded' \ raced'
             PROVE  \/ Content(script', req'[s].base.id) \in {Absent, <<req'[s].base.flow, req'[s].base.meta>>}
                    \/ req'[s].base.at = req'[s].base.stamp
  BY DEF SavesSeen
<1>1. CASE s \in Guarded /\ req'[s].base = req[s].base /\ req'[s].id = req[s].id
  <2>1. s \notin raced /\ Content(script', req[s].id) = Content(script, req[s].id)
    <3>1. CASE LibraryNext
      BY <1>1, <3>1 DEF LibraryNext, Watch, Flying, Guarded
    <3>2. CASE UNCHANGED libraryVars
      BY <3>2 DEF libraryVars, history, table
    <3> QED
      BY <3>1, <3>2
  <2> QED
    BY <1>1, <2>1 DEF SavesSeen, BaseInv
<1>2. CASE /\ script' = script /\ req'[s].base = tab /\ tab # Absent /\ req'[s].id = tab.id /\ tab.id \in Here
           /\ script[tab.id].stamp = tab.stamp /\ script[tab.id].flow = tab.flow
  <2>1. tab \in Versions /\ tab.at \in Nat /\ tab.stamp \in Nat
    BY <1>2 DEF LibraryTypeOK, Versions
  <2> QED
    BY <1>2, <2>1 DEF TabInv
<1> QED
  BY <1>1, <1>2, GuardedStays

\* At first, and after every step.
LEMMA LibraryInitial == ASSUME LibraryInit PROVE LibInv
<1>1. LibraryTypeOK
  BY TypesInitial
<1>2. Here = {1} /\ script[1] = Row(TRUE) /\ 1 \in Ids
  <2>1. 1 \in Ids
    BY LibraryAssumption DEF Ids
  <2>2. Row(TRUE) # Absent
    BY <1>1, NewRow
  <2> QED
    BY <2>1, <2>2 DEF LibraryInit, Here
<1>3. /\ \A r \in Slots : req[r] = Absent
      /\ clock = 0 /\ created = 1 /\ tab = Absent
      /\ \A i \in Ids : meant[i] = {}
      /\ \A p \in Profiles : assigned[p] = Absent
  BY DEF LibraryInit
<1>4. DefaultInv
  BY <1>2, <1>3 DEF DefaultInv, Alters, Claims, Defaults
<1>5. AssignInv
  BY <1>3 DEF AssignInv, Is, At
<1>6. PinInv /\ StampInv
  BY <1>2, <1>3 DEF PinInv, PinOK, Near, Listing, At, Row, StampInv
<1>7. ResolvedInv /\ TabInv /\ BaseInv /\ SavesSeen
  BY <1>3 DEF ResolvedInv, Is, At, TabInv, BaseInv, SavesSeen, Guarded
<1> QED
  BY <1>1, <1>4, <1>5, <1>6, <1>7 DEF LibInv

LEMMA LibraryStep == ASSUME LibInv, [LibraryNext]_libraryVars PROVE LibInv'
<1> USE DEF LibInv
<1>1. LibraryTypeOK'
  BY TypesStep
<1> QED
  BY <1>1, DefaultStep, AssignStep, PinStep, RunStep, StampStep, TabStep, BaseStep, SavesStep

(* The library is always in the order that its requests can rely on: what   *)
(* each has read and may still write, in main.py and database.py as in the  *)
(* endpoints of server.py, is right but for what overlapped with it.        *)
THEOREM LibraryInvariant == LibrarySpec => []LibInv
BY LibraryInitial, LibraryStep, PTL DEF LibrarySpec

\* What the invariant says of the table once the requests are set aside.
LEMMA OverlapFollows == ASSUME LibInv PROVE OverlapOnly
<1>1. mixed \/ Cardinality(Defaults) <= 1
  BY OneAtMost DEF LibInv, DefaultInv
<1>2. \A p \in Profiles : assigned[p] \in {Absent} \cup Here \cup chased
  BY DEF LibInv, AssignInv
<1>3. \A i \in Here \ tangled : (\A r \in Slots : ~Listing(r, i)) => script[i].pins = meant[i]
  BY DEF LibInv, PinInv, PinOK, Here
<1> QED
  BY <1>1, <1>2, <1>3 DEF OverlapOnly

(* One default, no assignment of a script that is gone and every pin as it  *)
(* was asked for, whatever the order of any number of requests: only a      *)
(* request that overlapped another of its kind breaks it, for the           *)
(* endpoints have no transaction around their two writes.                   *)
THEOREM LibraryOverlaps == LibrarySpec => []OverlapOnly
BY LibraryInvariant, OverlapFollows, PTL

\* A run that found nothing saw a delete.
LEMMA ResolvedFollows == ASSUME LibInv PROVE AlwaysResolved
BY DEF LibInv, ResolvedInv, AlwaysResolved

(* A run of a profile that is opted in gets its own script, the default,    *)
(* the oldest one or a new one: none only if a script was deleted while it  *)
(* looked.                                                                  *)
THEOREM RunsResolve == LibrarySpec => []AlwaysResolved
BY LibraryInvariant, ResolvedFollows, PTL

(* A save whose ETag matched replaces the version its page has loaded and   *)
(* no other one, unless the row was written after the check or the page     *)
(* loaded it in the second in which it was saved.                           *)
THEOREM SavesAreSeen == LibrarySpec => []SavesSeen
<1>1. LibInv => SavesSeen
  BY DEF LibInv
<1> QED
  BY <1>1, LibraryInvariant, PTL
=============================================================================
