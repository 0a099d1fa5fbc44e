------------------------------- MODULE MCBrowser -------------------------------
(* What happens around one browser run: the lock of its profile directory,   *)
(* its watchdogs, the flow it executes, the script it is given and the page  *)
(* that shows its log.  None reads another's state, so each is explored with *)
(* the others at rest.                                                       *)
EXTENDS ProfileLock, Watchdogs, FlowMigration, LogStream, ScriptLibrary
CONSTANTS r1, r2, a, ab, q1, q2, mine, target, other, p1, t1, t2

VARIABLE part
vars == <<part, lockVars, dogsVars, flowVars, logVars, libraryVars>>

\* The path a is a prefix of the path ab.
MCMatches == {<<a, a>>, <<ab, ab>>, <<a, ab>>}

MCPlaces  == {<<r1, a>>, <<r2, a>>, <<r2, ab>>}

MCAnswer  == (q1 :> <<mine, other>>) @@ (q2 :> <<target>>)
MCQueries == <<q1, q2>>

Srch(q)         == [op |-> "search", on |-> "yes", query |-> q]
Clk(skip, only) == [op |-> "click", on |-> "yes", skip |-> skip, only |-> only, abort |-> FALSE]
Plain           == Clk({}, {})
Aborts          == [Plain EXCEPT !.abort = TRUE]
Maybe(st)       == [st EXCEPT !.on = "maybe"]
Off(st)         == [st EXCEPT !.on = "no"]
Op(op)          == [op |-> op, on |-> "yes"]
Put1(v)         == [op |-> "save", on |-> "yes", value |-> v]
Over(items, var, from, body) ==
  [op |-> "each", on |-> "yes", items |-> items, var |-> var, from |-> from, body |-> body]
Ad(limit, body) == [op |-> "eachad", on |-> "yes", limit |-> limit, body |-> body]
Cond(k, then)   == [op |-> "if", on |-> "yes", cond |-> k, then |-> then, else |-> <<Op("catch")>>]

Leaves == {Srch(q1), Srch("item"), Srch("var"), Srch(None), Plain, Op("break"), Op("continue"), Op("catch")}
SeqsUpTo(S, n) == UNION {[1..k -> S] : k \in 1..n}
Kinds  == {[kind |-> k] : k \in {"found", "external", "competitor", "never"}}
            \cup {[kind |-> "is", value |-> q2], [kind |-> "not", of |-> [kind |-> "captcha"]],
                  [kind |-> "and", all |-> {[kind |-> "found"], [kind |-> "mine"]}],
                  [kind |-> "or", all |-> {[kind |-> "target"], [kind |-> "captcha"]}]}
Ifs    == {Cond(k, <<b>>) : k \in Kinds, b \in Leaves}
Inner  == {Over(<<q1, q2>>, "var", FALSE, b) : b \in SeqsUpTo(Leaves, 2)}
            \cup {Ad(0, <<b>>) : b \in Leaves \cup Ifs}

MCFlows ==
  {<<Over(<<q2, q1>>, "item", FALSE, <<Srch("item"), x, b>>), Plain>> : x \in Inner \cup Ifs, b \in Leaves}
  \cup {<<Srch(q1), Maybe(Srch(q2)), Op("catch"), Ad(l, <<Maybe(Clk({"my_domain"}, {})), x>>), Srch("query")>> :
           l \in {0, 1}, x \in Leaves \cup Ifs}
  \cup {<<Op("all"), Op("catch"), Ad(0, <<Aborts>>), Srch(None)>>}
  \cup {<<Put1(v), Srch("var")>> : v \in {q2, "page", "query"}}
  \cup {<<Srch(q1), Ad(0, <<Clk(s, o)>>)>> : s, o \in SUBSET {"my_domain", "target"}}

Mains == SeqsUpTo({Srch(q1), Srch(q2), Srch(None), Off(Srch(q2)), Op("all"),
                   Over(<<q1, q2>>, "item", FALSE, <<Srch("item")>>),
                   Over(<<q2, q1>>, "query", FALSE, <<Srch("query"), Srch(q1)>>),
                   Over(<<q1, q2>>, "query", FALSE, <<Srch(q2), Srch("query")>>),
                   Over(<<q2>>, "var", FALSE, <<Srch("var"), Srch(q1)>>),
                   Over(<<>>, "item", TRUE, <<Srch("item")>>),
                   Over(<<q1, q2>>, "item", FALSE, <<Over(<<q2>>, "item", FALSE, <<Srch("item")>>)>>)}, 2)
Pipes == {<<>>, <<Plain>>, <<Clk({"my_domain"}, {}), Clk({}, {"target"})>>, <<Aborts>>}
MCLegacies == [main : Mains, post : Pipes, target : {<<>>, <<Plain>>}]

\* The lists right inside a list; none is nested deeper than three.
Inside(b) == UNION {CASE st.op = "if" -> {st.then, st.else}
                      [] st.op \in {"each", "eachad"} -> {st.body}
                      [] OTHER -> {} : st \in ToSet(b)}

Outmost  == MCFlows \cup {Migrate(o) : o \in MCLegacies}
Nested1  == UNION {Inside(b) : b \in Outmost}
Nested2  == UNION {Inside(b) : b \in Nested1}
Nested3  == UNION {Inside(b) : b \in Nested2}
MCBodies == Outmost \cup Nested1 \cup Nested2 \cup Nested3
MCConds  == Kinds \cup {[kind |-> k] : k \in {"captcha", "mine", "target"}}

\* The meaning of a flow, by recursion.
RECURSIVE MCMeaning(_, _, _), MCRounds(_, _, _, _)
MCMeaning(steps, i, s)    == StepsText(MCMeaning, MCRounds, steps, i, s)
MCRounds(st, items, i, s) == RoundsText(MCMeaning, MCRounds, st, items, i, s)

\* What an old configuration did, by recursion.
RECURSIVE MCOldRun(_, _, _)
MCOldRun(o, steps, names) == OldText(MCOldRun, o, steps, names)

Parts == {"lock", "dogs", "flow", "log", "library"}

\* One flow and one state of the opt-in will do where they do not run.
Init == /\ part \in Parts
        /\ LockInit /\ DogsInit /\ FlowInit /\ LogInit /\ LibraryInit
        /\ part = "flow" \/ flow = <<Put1(q2), Srch("var")>>
        /\ part = "library" \/ optedIn = {}

Next == \/ part = "lock" /\ LockNext /\ UNCHANGED <<part, dogsVars, flowVars, logVars, libraryVars>>
        \/ part = "dogs" /\ DogsNext /\ UNCHANGED <<part, lockVars, flowVars, logVars, libraryVars>>
        \/ part = "flow" /\ FlowNext /\ UNCHANGED <<part, lockVars, dogsVars, logVars, libraryVars>>
        \/ part = "log"  /\ LogNext  /\ UNCHANGED <<part, lockVars, dogsVars, flowVars, libraryVars>>
        \/ part = "library" /\ LibraryNext /\ UNCHANGED <<part, lockVars, dogsVars, flowVars, logVars>>

MainPart   == part = "dogs" /\ Main /\ UNCHANGED <<part, lockVars, flowVars, logVars, libraryVars>>
BitePart   == part = "dogs" /\ (Stall \/ DogBites) /\ UNCHANGED <<part, lockVars, flowVars, logVars, libraryVars>>
ProbeOf(g) == part = "dogs" /\ Probe(g) /\ UNCHANGED <<part, lockVars, flowVars, logVars, libraryVars>>

\* DogsFairness for its part.
Spec == /\ Init /\ [][Next]_vars
        /\ WF_vars(MainPart) /\ WF_vars(BitePart)
        /\ \A g \in Gens : WF_vars(ProbeOf(g))
=============================================================================
