--------------------------------- MODULE Flow ---------------------------------
(***************************************************************************)
(* The unified-flow interpreter (actions/runner.py, run_flow) on one       *)
(* script: the stack of step lists and loops, the scopes with their break  *)
(* and continue flags, the variables the scopes share, and what reaches    *)
(* the browser.  It is checked against a structured meaning of scripts;    *)
(* FlowMigration compares it with the executor it replaced, through the    *)
(* dashboard's migration of an old configuration, which is here.           *)
(***************************************************************************)
EXTENDS Integers, Sequences, SequencesExt, TLC

CONSTANTS Flows,     \* unified flows to run, sequences of steps
          Legacies,  \* old configurations: [main, post, target]
          Queries,   \* search.queries, a sequence
          Ads, Mine, Targets,
          Answer,    \* the ads each query finds, a sequence
          Captcha,   \* queries whose result page is a captcha
          Conds,     \* the conditions of the flows, and those inside them
          Bodies,    \* the flows, and the step lists inside them
          Meaning(_, _, _), Rounds(_, _, _, _), \* what steps and loops mean, see Unfolds
          None

Words == DOMAIN Answer

ASSUME FlowAssumption == /\ Mine \subseteq Ads /\ Targets \subseteq Ads
                         /\ Captcha \subseteq Words /\ Queries \in Seq(Words)
                         /\ \A q \in Words : Answer[q] \in Seq(Ads)

VARIABLES
  old,     \* the configuration the flow was migrated from, or None
  flow,    \* the flow
  stack,   \* calls: [call "steps", steps, i] and [call "loop", step, items, i]
  scopes,  \* a RunContext each
  shared,  \* what all scopes share: a variable, the captcha flag, the page shown
  coins,   \* history: outcomes of the probability gates
  out      \* history: searches and clicks

flowVars == <<old, flow, stack, scopes, shared, coins, out>>
-----------------------------------------------------------------------------
(* Pure parts of the executor.                                             *)

\* resolve_path and _interpolate on the placeholders a query is made of:
\* "query" is the last query, also if a loop calls its variable so.
Value(t, c, s) == CASE t = "item"  -> c.item
                    [] t = "var"   -> s.var
                    [] t = "query" -> c.query
                    [] OTHER       -> t

\* The ladder of search_query for a query that came out empty.
QueryOf(t, c, s) == LET asked == {Value(t, c, s)} \ {None}
                        item  == {c.item} \ {None}
                    IN IF asked # {} THEN CHOOSE q \in asked : TRUE
                       ELSE IF item # {} THEN CHOOSE q \in item : TRUE ELSE c.query

Holds(k0, c, s) ==
  LET holds[k \in Conds] ==
        CASE k.kind = "never"      -> FALSE
          [] k.kind = "mine"       -> c.ad \in Mine
          [] k.kind = "target"     -> c.ad \in Targets
          [] k.kind = "external"   -> c.ad \in Ads \ Mine
          [] k.kind = "competitor" -> c.ad \in Ads \ (Mine \cup Targets)
          [] k.kind = "found"      -> c.ads # <<>>
          [] k.kind = "captcha"    -> s.captcha
          [] k.kind = "is"         -> s.var = k.value
          [] k.kind = "not"        -> ~holds[k.of]
          [] k.kind = "and"        -> \A x \in k.all : holds[x]
          [] k.kind = "or"         -> \E x \in k.all : holds[x]
  IN holds[k0]

\* The skip_on_ and only_on_ flags of a step.
Wanted(st, ad) == /\ "my_domain" \in st.skip => ad \notin Mine
                  /\ "target" \in st.skip    => ad \notin Targets
                  /\ "target" \in st.only    => ad \in Targets
                  /\ "my_domain" \in st.only => ad \in Mine

Searched(q)  == <<"search", q>>
Clicked(ad)  == <<"click", ad>>

\* The state after a search for q.
PageOf(q, s) == [s EXCEPT !.page = q, !.captcha = q \in Captcha]
AdsOn(page)  == IF page = None THEN <<>> ELSE Answer[page]

AllAsked(s)  == IF Queries = <<>> THEN s ELSE [s EXCEPT !.page = Last(Queries)]

Limited(ads, st) == IF st.limit = 0 THEN ads ELSE SubSeq(ads, 1, IF st.limit < Len(ads) THEN st.limit ELSE Len(ads))
-----------------------------------------------------------------------------
(* The migration of an old configuration into a flow.                      *)

\* The target pipeline becomes steps of the other one.
Merged(o) == o.post \o [i \in DOMAIN o.target |-> [o.target[i] EXCEPT !.only = @ \cup {"target"}]]

\* A search is followed by a loop over what it finds.
Wrap(st, p) == IF st.op # "search" \/ p = <<>> THEN <<st>>
               ELSE <<st, [op |-> "eachad", on |-> "yes", limit |-> 0, body |-> p]>>

WrapAll(steps, p) == FlattenSeq([i \in DOMAIN steps |-> Wrap(steps[i], p)])

\* Seeded fault: the searches inside loops are forgotten.
MigrateFault(o) == WrapAll(o.main, Merged(o))

\* The searches of the script and of its loops, not of the loops in those.
Migrate(o) ==
  LET One(st) == IF st.op = "each" THEN <<[st EXCEPT !.body = WrapAll(@, Merged(o))]>>
                 ELSE Wrap(st, Merged(o))
  IN FlattenSeq([i \in DOMAIN o.main |-> One(o.main[i])])

Root == [ad |-> None, ads |-> <<>>, item |-> None, query |-> None, brk |-> FALSE, cont |-> FALSE]

\* What the form of a step allows.
Well(st) ==
  /\ st.on \in {"yes", "no", "maybe"}
  /\ st.op \in {"search", "all", "catch", "save", "click", "break", "continue", "if", "each", "eachad"}
  /\ st.op = "search" => st.query \in Words \cup {"item", "var", "query", None}
  /\ st.op = "save"   => st.value \in Words \cup {"item", "var", "query", "page", None}
  /\ st.op = "if"     => {st.then, st.else} \subseteq Bodies
  /\ st.op = "each"   => st.items \in Seq(Words) /\ st.body \in Bodies
  /\ st.op = "eachad" => st.limit \in Nat /\ st.body \in Bodies

ASSUME BodiesAssumption == /\ Flows \subseteq Bodies /\ \A o \in Legacies : Migrate(o) \in Bodies
                           /\ \A b \in Bodies : b \in Seq(ToSet(b)) /\ \A st \in ToSet(b) : Well(st)

FlowInit == /\ \/ old = None /\ flow \in Flows
               \/ old \in Legacies /\ flow = Migrate(old)
            /\ stack = <<[call |-> "steps", steps |-> flow, i |-> 1]>>
            /\ scopes = <<Root>>
            /\ shared = [var |-> None, captcha |-> FALSE, page |-> None]
            /\ coins = <<>> /\ out = <<>>
-----------------------------------------------------------------------------
(* The executor.                                                           *)

Frame == Last(stack)
Ctx   == Last(scopes)
Ctx1(c) == scopes' = Append(Front(scopes), c)

\* _exec_steps has a step to look at.
AtStep == /\ stack # <<>> /\ Frame.call = "steps"
          /\ ~Ctx.brk /\ ~Ctx.cont /\ Frame.i <= Len(Frame.steps)

Step     == Frame.steps[Frame.i]
Call(fs) == stack' = Append(Front(stack), [Frame EXCEPT !.i = @ + 1]) \o fs
Steps(s) == [call |-> "steps", steps |-> s, i |-> 1]

\* Disabled, or the probability gate is closed.
Skip == /\ AtStep /\ Step.on # "yes" /\ Call(<<>>)
        /\ coins' = IF Step.on = "maybe" THEN Append(coins, FALSE) ELSE coins
        /\ UNCHANGED <<old, flow, scopes, shared, out>>

Does(op) == /\ AtStep /\ Step.op = op /\ Step.on # "no"
            /\ coins' = IF Step.on = "maybe" THEN Append(coins, TRUE) ELSE coins

If == /\ Does("if")
      /\ Call(<<Steps(IF Holds(Step.cond, Ctx, shared) THEN Step.then ELSE Step.else)>>)
      /\ UNCHANGED <<old, flow, scopes, shared, out>>

Signal == /\ \/ Does("break") /\ Ctx1([Ctx EXCEPT !.brk = TRUE])
             \/ Does("continue") /\ Ctx1([Ctx EXCEPT !.cont = TRUE])
          /\ Call(<<>>)
          /\ UNCHANGED <<old, flow, shared, out>>

\* One scope per round, a copy of its parent's.
Child(c, step, item) == IF step.op = "eachad" THEN [c EXCEPT !.ad = item, !.brk = FALSE, !.cont = FALSE]
                        ELSE [c EXCEPT !.item = item, !.brk = FALSE, !.cont = FALSE]

\* A foreach with a name of its own for the item saves it for all scopes.
Named(step, item) == IF step.op = "each" /\ step.var = "var" THEN [shared EXCEPT !.var = item] ELSE shared

Loop(step, items) ==
  IF items = <<>> THEN Call(<<>>) /\ UNCHANGED <<scopes, shared>>
  ELSE /\ Call(<<[call |-> "loop", step |-> step, items |-> items, i |-> 1], Steps(step.body)>>)
       /\ scopes' = Append(scopes, Child(Ctx, step, items[1]))
       /\ shared' = Named(step, items[1])

EachAd == Does("eachad") /\ Loop(Step, Limited(Ctx.ads, Step)) /\ UNCHANGED <<old, flow, out>>

\* The items are the step's own; items_from is not looked at.
Each   == Does("each") /\ Loop(Step, Step.items) /\ UNCHANGED <<old, flow, out>>

\* The end of a step list: all done, or a flag is up.
Return == /\ stack # <<>> /\ Frame.call = "steps"
          /\ Frame.i > Len(Frame.steps) \/ Ctx.brk \/ Ctx.cont
          /\ stack' = Front(stack)
          /\ UNCHANGED <<old, flow, scopes, shared, coins, out>>

Outer == scopes[Len(scopes) - 1]
Rest  == Front(Front(scopes))

\* Seeded fault: a loop that was left by break leaves its own flag up.
RoundFault ==
  /\ stack # <<>> /\ Frame.call = "loop"
  /\ IF Ctx.brk \/ Frame.i = Len(Frame.items)
     THEN /\ stack'  = Front(stack)
          /\ scopes' = Append(Rest, [Outer EXCEPT !.brk = Ctx.brk, !.cont = FALSE])
          /\ UNCHANGED shared
     ELSE LET item == Frame.items[Frame.i + 1]
          IN /\ stack'  = Append(Front(stack), [Frame EXCEPT !.i = @ + 1]) \o <<Steps(Frame.step.body)>>
             /\ scopes' = Rest \o <<Outer, Child(Outer, Frame.step, item)>>
             /\ shared' = Named(Frame.step, item)
  /\ UNCHANGED <<old, flow, coins, out>>

\* The end of a round: the next one, or the end of the loop, which consumes
\* the flags.  What the round's scope learnt is gone with it.
Round ==
  /\ stack # <<>> /\ Frame.call = "loop"
  /\ IF Ctx.brk \/ Frame.i = Len(Frame.items)
     THEN /\ stack'  = Front(stack)
          /\ scopes' = Append(Rest, [Outer EXCEPT !.brk = FALSE, !.cont = FALSE])
          /\ UNCHANGED shared
     ELSE LET item == Frame.items[Frame.i + 1]
          IN /\ stack'  = Append(Front(stack), [Frame EXCEPT !.i = @ + 1]) \o <<Steps(Frame.step.body)>>
             /\ scopes' = Rest \o <<Outer, Child(Outer, Frame.step, item)>>
             /\ shared' = Named(Frame.step, item)
  /\ UNCHANGED <<old, flow, coins, out>>

Search == /\ Does("search") /\ Call(<<>>)
          /\ LET q == QueryOf(Step.query, Ctx, shared)
             IN IF q = None THEN UNCHANGED <<scopes, shared, out>>
                ELSE /\ Ctx1([Ctx EXCEPT !.query = q, !.ads = Answer[q]])
                     /\ shared' = PageOf(q, shared)
                     /\ out' = Append(out, Searched(q))
          /\ UNCHANGED <<old, flow>>

\* search_all_queries goes through the old handler, and the pipeline it would
\* run for each ad is cleared when a flow is saved.
SearchAll == /\ Does("all") /\ Call(<<>>)
             /\ out' = out \o [i \in DOMAIN Queries |-> Searched(Queries[i])]
             /\ shared' = AllAsked(shared)
             /\ UNCHANGED <<old, flow, scopes>>

Catch == /\ Does("catch") /\ Call(<<>>)
         /\ Ctx1([Ctx EXCEPT !.ads = AdsOn(shared.page)])
         /\ shared' = [shared EXCEPT !.captcha = shared.page \in Captcha]
         /\ UNCHANGED <<old, flow, out>>

\* save_var, and extract_text of something the page shows.
Save == /\ Does("save") /\ Call(<<>>)
        /\ shared' = [shared EXCEPT !.var = IF Step.value = "page" THEN shared.page
                                            ELSE Value(Step.value, Ctx, shared)]
        /\ UNCHANGED <<old, flow, scopes, out>>

\* An action of the old per-ad catalog on the current ad.  Its exception ends
\* the flow if the step says so, and the flow only.
Click == /\ Does("click")
         /\ IF Ctx.ad # None /\ Wanted(Step, Ctx.ad)
            THEN /\ out' = Append(out, Clicked(Ctx.ad))
                 /\ IF Step.abort THEN stack' = <<>> ELSE Call(<<>>)
            ELSE Call(<<>>) /\ UNCHANGED out
         /\ UNCHANGED <<old, flow, scopes, shared>>

FlowNext == Skip \/ If \/ Signal \/ EachAd \/ Each \/ Return \/ Round
            \/ Search \/ SearchAll \/ Catch \/ Save \/ Click

FlowSpec == FlowInit /\ [][FlowNext]_flowVars /\ WF_flowVars(FlowNext)
-----------------------------------------------------------------------------
(* What a flow means: steps in order, a loop's rounds one after the other, *)
(* break and continue as signals to the innermost loop, the current ad and *)
(* the item as bindings of the loop's body.  s.coins holds the outcomes of *)
(* the gates still to come.  StepsText says what the steps from the i-th   *)
(* on make of s, RoundsText what a loop makes of it from its i-th round    *)
(* on; M and R are the same where a list or another round is called for.   *)

Learn(s, c, q) == [s EXCEPT !.c = [c EXCEPT !.query = q, !.ads = Answer[q]], !.s = PageOf(q, s.s),
                            !.out = Append(@, Searched(q))]

Basic(st, s) ==
  CASE st.op = "search"   -> LET q == QueryOf(st.query, s.c, s.s)
                             IN IF q = None THEN s ELSE Learn(s, s.c, q)
    [] st.op = "all"      -> [s EXCEPT !.s = AllAsked(@), !.out = @ \o [i \in DOMAIN Queries |-> Searched(Queries[i])]]
    [] st.op = "catch"    -> [s EXCEPT !.c.ads = AdsOn(s.s.page), !.s.captcha = s.s.page \in Captcha]
    [] st.op = "save"     -> [s EXCEPT !.s.var = IF st.value = "page" THEN s.s.page
                                                 ELSE Value(st.value, s.c, s.s)]
    [] st.op = "click"    -> IF s.c.ad = None \/ ~Wanted(st, s.c.ad) THEN s
                             ELSE [s EXCEPT !.out = Append(@, Clicked(s.c.ad)),
                                            !.sig = IF st.abort THEN "abort" ELSE "go"]
    [] OTHER              -> [s EXCEPT !.sig = st.op]

Done(M(_, _, _), R(_, _, _, _), st, s) ==
  CASE st.op = "if"     -> M(IF Holds(st.cond, s.c, s.s) THEN st.then ELSE st.else, 1, s)
    [] st.op = "eachad" -> R(st, Limited(s.c.ads, st), 1, s)
    [] st.op = "each"   -> R(st, st.items, 1, s)
    [] OTHER            -> Basic(st, s)

StepsText(M(_, _, _), R(_, _, _, _), steps, i, s) ==
  IF i > Len(steps) \/ s.sig # "go" THEN s
  ELSE LET st == steps[i]
           s1 == IF st.on = "maybe" THEN [s EXCEPT !.coins = Tail(@)] ELSE s
       IN M(steps, i + 1, IF st.on = "yes" \/ (st.on = "maybe" /\ Head(s.coins)) THEN Done(M, R, st, s1) ELSE s1)

Bound(st, item, s) == IF st.op = "eachad" THEN [s EXCEPT !.c.ad = item]
                      ELSE [s EXCEPT !.c.item = item, !.s.var = IF st.var = "var" THEN item ELSE @]

\* After the i-th round of a loop in context c, whose body made s.
RoundEnd(R(_, _, _, _), st, items, i, c, s) ==
  LET end == [s EXCEPT !.c = c]
  IN CASE end.sig = "abort" -> end
       [] end.sig = "break" -> [end EXCEPT !.sig = "go"]
       [] OTHER             -> R(st, items, i + 1, [end EXCEPT !.sig = "go"])

RoundsText(M(_, _, _), R(_, _, _, _), st, items, i, s) ==
  IF i > Len(items) THEN s
  ELSE RoundEnd(R, st, items, i, s.c, M(st.body, 1, Bound(st, items[i], s)))

\* Meaning and Rounds are what the texts say.
Unfolds == /\ \A s : \A b \in Bodies, i \in Nat : Meaning(b, i, s) = StepsText(Meaning, Rounds, b, i, s)
           /\ \A st, s : \A items \in Seq(Ads \cup Words), i \in Nat :
                Rounds(st, items, i, s) = RoundsText(Meaning, Rounds, st, items, i, s)

Begin == [c |-> [ad |-> None, ads |-> <<>>, item |-> None, query |-> None],
          s |-> [var |-> None, captcha |-> FALSE, page |-> None],
          coins |-> coins, out |-> <<>>, sig |-> "go"]

(* Whatever loops, branches, gates, breaks and continues a flow nests, the *)
(* flags and scopes of the executor run it as its text reads: the same     *)
(* searches and clicks in the same order.  A break never ends more than    *)
(* the innermost loop or the steps after it, and no round sees the ads,    *)
(* the query or the current ad of another.                                 *)
FlowFollowsText == stack = <<>> => out = Meaning(flow, 1, Begin).out
=============================================================================
