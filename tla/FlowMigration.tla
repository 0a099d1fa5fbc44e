------------------------------ MODULE FlowMigration -----------------------------
(***************************************************************************)
(* The executor that flows replaced (run_main_script, with                 *)
(* run_post_ad_pipeline for each ad a search finds), as the reference for  *)
(* the dashboard's migration of an old configuration into a flow.          *)
(***************************************************************************)
EXTENDS Flow

CONSTANT OldRun(_, _, _) \* what a step list of an old configuration did, see OldUnfolds

Pipeline(p, ad) == FlattenSeq([i \in DOMAIN p |-> IF p[i].on = "yes" /\ Wanted(p[i], ad) THEN <<Clicked(ad)>> ELSE <<>>])

PerAd(o, ad) == Pipeline(IF ad \in Targets /\ o.target # <<>> THEN o.target ELSE o.post, ad)

OldSearch(o, q) == IF q = None THEN <<>>
                   ELSE <<Searched(q)>> \o FlattenSeq([i \in DOMAIN Answer[q] |-> PerAd(o, Answer[q][i])])

\* A loop writes its item over its placeholder in all nested steps, so that an
\* outer loop wins over an inner one of the same name.  names: placeholder to item.
Written(names, t, item) == [x \in DOMAIN names \cup {t} |-> IF x \in DOMAIN names THEN names[x] ELSE item]

\* R is what the text of a loop's body calls for.
OldText(R(_, _, _), o, steps, names) ==
  LET Of(t)   == IF t \in DOMAIN names THEN names[t] ELSE t
      One(st) == CASE st.op = "search" -> OldSearch(o, Of(st.query))
                   [] st.op = "all"    -> FlattenSeq([i \in DOMAIN Queries |-> OldSearch(o, Queries[i])])
                   [] st.op = "each"   ->
                        LET items == IF st.items = <<>> /\ st.from THEN Queries ELSE st.items
                        IN FlattenSeq([i \in DOMAIN items |-> R(o, st.body, Written(names, st.var, items[i]))])
  IN FlattenSeq([i \in DOMAIN steps |-> IF steps[i].on = "no" THEN <<>> ELSE One(steps[i])])

\* The script of an old configuration and the bodies of its loops.
Loops(o) == {st \in ToSet(o.main) : st.op = "each"}
ListsOf(o) == {o.main} \cup {l.body : l \in Loops(o)}

\* OldRun is what the text says.
OldUnfolds == \A o \in Legacies : \A steps \in ListsOf(o) : \A names :
                OldRun(o, steps, names) = OldText(OldRun, o, steps, names)

\* What the two forms of the old dashboard allow.
Placeholders == {"item", "var", "query"}
OldClicks    == [op : {"click"}, on : {"yes", "no"}, skip : SUBSET {"my_domain", "target"},
                 only : SUBSET {"my_domain", "target"}, abort : BOOLEAN]
OldStep(st)  == \/ st \in [op : {"search"}, on : {"yes", "no"}, query : Words \cup Placeholders \cup {None}]
                \/ st \in [op : {"all"}, on : {"yes", "no"}]
                \/ st \in [op : {"each"}, on : {"yes", "no"}, items : Seq(Words), var : Placeholders,
                           from : BOOLEAN, body : {st.body}]

ASSUME LegacyAssumption ==
  /\ None \notin Ads \cup Words \cup Placeholders /\ Words \cap Placeholders = {}
  /\ \A o \in Legacies : /\ {o.post, o.target} \subseteq Seq(OldClicks)
                          /\ \A steps \in ListsOf(o) : /\ steps \in Seq(ToSet(steps))
                                                     /\ \A st \in ToSet(steps) : OldStep(st)

Asks(st, t) == st.op = "search" /\ st.query = t

\* What the migration changes: a search that may not happen (the wrapper
\* visits the ads of the one before), search_all_queries with a pipeline, both
\* pipelines for one target ad, loops in loops, items from the queries page,
\* a pipeline step that aborts; a placeholder no loop binds, which the old
\* executor searched for as it stands; and a loop variable called query after a
\* search, which the flow takes for the last query.
Faithful(o) ==
  LET acts  == o.post # <<>> \/ o.target # <<>>
      inner == UNION {ToSet(l.body) : l \in Loops(o)}
      every == ToSet(o.main) \cup inner
  IN /\ \A st \in every : st.op = "search" => st.on = "yes"
     /\ acts => \A st \in every : st.op # "all"
     /\ o.post = <<>> \/ o.target = <<>>
     /\ \A st \in inner : st.op # "each"
     /\ \A l \in Loops(o) : l.items # <<>> \/ ~l.from
     /\ \A st \in ToSet(o.post) \cup ToSet(o.target) : ~st.abort
     /\ \A st \in ToSet(o.main) : st.op = "search" => st.query \in Words
     /\ \A l \in Loops(o) : \A st \in ToSet(l.body) : st.op = "search" => st.query \in Words \cup {l.var}
     /\ \A i, j \in DOMAIN o.main : i < j /\ o.main[i].op = "search" /\ o.main[j].op = "each" => o.main[j].var # "query"
     /\ \A l \in Loops(o) : \A i, j \in DOMAIN l.body :
          i < j /\ l.var = "query" /\ Asks(l.body[j], "query") /\ l.body[i].op = "search" => Asks(l.body[i], "query")
-----------------------------------------------------------------------------
(* The dashboard migrates the two old pipelines into one flow that         *)
(* "replicates the old runtime behavior": the migrated flow searches and   *)
(* clicks what the old configuration did, unless the configuration is one  *)
(* of the kinds Faithful leaves out.                                       *)
MigrationKeeps == stack = <<>> /\ old # None /\ Faithful(old) => out = OldRun(old, old.main, <<>>)
=============================================================================
