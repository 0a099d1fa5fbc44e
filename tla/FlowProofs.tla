------------------------------ MODULE FlowProofs ------------------------------
(***************************************************************************)
(* A flow does what its text says, for any flow; and the flow a faithful   *)
(* old configuration is migrated into does what the old executor did with  *)
(* that configuration, for any such configuration.                         *)
(***************************************************************************)
EXTENDS FlowMigration, CardinalityLemmas, SequenceTheorems, TLAPS

-----------------------------------------------------------------------------
(* The flow.                                                                 *)
(* The executor is a stack of calls over a stack of scopes, the meaning of a *)
(* flow a recursion over its text.  What links them is a chain of states: the*)
(* present one, what the call on top makes of it, what the one below makes of*)
(* that, and so on down to a result whose searches and clicks are those of   *)
(* the whole flow -- for whatever the gates that are still to come decide.   *)

\* What the scopes and calls are made of.
Contexts   == [ad : Ads \cup {None}, ads : Seq(Ads), item : Words \cup {None}, query : Words \cup {None},
               brk : BOOLEAN, cont : BOOLEAN]
Commons    == [var : Words \cup {None}, captcha : BOOLEAN, page : Words \cup {None}]
LoopSteps  == {st \in UNION {ToSet(b) : b \in Bodies} : st.op \in {"each", "eachad"}}
ItemsOf(st) == IF st.op = "eachad" THEN Ads ELSE Words
StepFrames == [call : {"steps"}, steps : Bodies, i : Nat \ {0}]
LoopFrames == {f \in [call : {"loop"}, step : LoopSteps, items : Seq(Ads \cup Words), i : Nat \ {0}] :
                 f.items \in Seq(ItemsOf(f.step)) /\ f.i <= Len(f.items)}
Frames     == StepFrames \cup LoopFrames

\* Only the innermost scope may have a flag up.
FlowTypes == /\ stack \in Seq(Frames) /\ scopes \in Seq(Contexts) /\ scopes # <<>>
             /\ shared \in Commons /\ coins \in Seq(BOOLEAN) /\ flow \in Bodies
             /\ \A k \in 1..Len(scopes) - 1 : ~scopes[k].brk /\ ~scopes[k].cont

\* The state of the meaning that the executor is in, with the coins still to come.
Bare(c) == [ad |-> c.ad, ads |-> c.ads, item |-> c.item, query |-> c.query]
Flag(c) == IF c.brk THEN "break" ELSE IF c.cont THEN "continue" ELSE "go"
Is1(c, s, fut, o) == [c |-> Bare(c), s |-> s, coins |-> fut, out |-> o, sig |-> Flag(c)]
Now(fut) == Is1(Ctx, shared, fut, out)
Start(cs) == [c |-> [ad |-> None, ads |-> <<>>, item |-> None, query |-> None],
              s |-> [var |-> None, captcha |-> FALSE, page |-> None],
              coins |-> cs, out |-> <<>>, sig |-> "go"]

\* What is left of a call makes r of s; c is the scope around a loop.
After(f, c, s) == IF f.call = "steps" THEN Meaning(f.steps, f.i, s)
                  ELSE RoundEnd(Rounds, f.step, f.items, f.i, Bare(c), s)

\* The levels of the calls: a loop opens one.
Levels(stk, n, lv) ==
  /\ lv \in [0..Len(stk) -> 1..n] /\ lv[0] = 1 /\ lv[Len(stk)] = n
  /\ \A j, k \in 0..Len(stk) : j <= k => lv[j] <= lv[k]
  /\ \A k \in 1..Len(stk) : lv[k] = IF stk[k].call = "loop" THEN lv[k-1] + 1 ELSE lv[k-1]
Runs(stk, scs, s, r, lv, tr) ==
  /\ tr[0] = r /\ tr[Len(stk)] = s
  /\ \A k \in 1..Len(stk) : tr[k-1] = After(stk[k], scs[lv[k-1]], tr[k])
Leads(stk, scs, s, r) == \E lv : Levels(stk, Len(scs), lv) /\ \E tr : Runs(stk, scs, s, r, lv, tr)

\* The inductive invariant.
FlowInv == /\ FlowTypes
           /\ IF stack = <<>> THEN FlowFollowsText
              ELSE \A fut \in Seq(BOOLEAN) : \E r :
                      Leads(stack, scopes, Now(fut), r) /\ r.out = Meaning(flow, 1, Start(coins \o fut)).out

\* A sequence that is not empty is its front and its last element.
LEMMA Parts ==
  ASSUME NEW S, NEW s \in Seq(S), s # <<>>
  PROVE  /\ Front(s) \in Seq(S) /\ Last(s) \in S /\ s = Append(Front(s), Last(s))
         /\ Len(s) \in Nat /\ Len(Front(s)) = Len(s) - 1
         /\ \A k \in 1..Len(s) - 1 : Front(s)[k] = s[k]
<1>1. /\ Len(s) \in Nat /\ Len(s) # 0 /\ Len(Front(s)) = Len(s) - 1 /\ Front(s) \in Seq(S) /\ Last(s) \in S
      /\ \A k \in 1..Len(s) - 1 : Front(s)[k] = s[k]
  <2>1. Len(s) \in Nat /\ Len(s) # 0 /\ s \in [1..Len(s) -> S]
    OBVIOUS
  <2>2. \A k \in 1..Len(s) - 1 : s[k] \in S
    BY <2>1
  <2> QED
    BY <2>1, <2>2, SubSeqProperties DEF Front, Last
<1>2. s = Append(Front(s), Last(s))
  BY <1>1 DEF Last
<1> QED
  BY <1>1, <1>2

\* The two kinds of calls.
LEMMA FrameFacts ==
  /\ \A f \in StepFrames : f.call = "steps" /\ f.call # "loop" /\ f \in Frames
  /\ \A f \in LoopFrames : f.call = "loop" /\ f.call # "steps" /\ f \in Frames
BY DEF StepFrames, LoopFrames, Frames

\* What is left of the steps on top of the stack can be taken as done.
LEMMA PopSteps ==
  ASSUME NEW stk \in Seq(Frames), NEW f \in StepFrames, NEW scs \in Seq(Contexts), NEW s, NEW r,
         Leads(Append(stk, f), scs, s, r)
  PROVE  Leads(stk, scs, Meaning(f.steps, f.i, s), r)
<1> DEFINE n == Len(stk)
<1>1. PICK lv : Levels(Append(stk, f), Len(scs), lv) /\ \E tr : Runs(Append(stk, f), scs, s, r, lv, tr)
  BY DEF Leads
<1>2. PICK tr : Runs(Append(stk, f), scs, s, r, lv, tr)
  BY <1>1
<1>3. n \in Nat /\ Len(Append(stk, f)) = n + 1 /\ Append(stk, f)[n+1] = f
      /\ \A k \in 1..n : Append(stk, f)[k] = stk[k]
  BY FrameFacts
<1>4. lv[n] = lv[n+1] /\ tr[n] = Meaning(f.steps, f.i, s)
  BY <1>1, <1>2, <1>3, FrameFacts DEF Levels, Runs, After
<1> DEFINE lw == [k \in 0..n |-> lv[k]]
<1>5. Levels(stk, Len(scs), lw)
  BY <1>1, <1>3, <1>4 DEF Levels
<1>6. Runs(stk, scs, Meaning(f.steps, f.i, s), r, lw, tr)
  BY <1>2, <1>3, <1>4 DEF Runs
<1> QED
  BY <1>5, <1>6 DEF Leads

\* ... and steps can be put on top that make the same of the state.
LEMMA PushSteps ==
  ASSUME NEW stk \in Seq(Frames), NEW f \in StepFrames, NEW scs \in Seq(Contexts), NEW s, NEW r,
         Leads(stk, scs, Meaning(f.steps, f.i, s), r)
  PROVE  Leads(Append(stk, f), scs, s, r)
<1> DEFINE n == Len(stk)
<1>1. PICK lv : Levels(stk, Len(scs), lv) /\ \E tr : Runs(stk, scs, Meaning(f.steps, f.i, s), r, lv, tr)
  BY DEF Leads
<1>2. PICK tr : Runs(stk, scs, Meaning(f.steps, f.i, s), r, lv, tr)
  BY <1>1
<1>3. n \in Nat /\ Len(Append(stk, f)) = n + 1 /\ Append(stk, f)[n+1] = f
      /\ \A k \in 1..n : Append(stk, f)[k] = stk[k]
  BY FrameFacts
<1> DEFINE lw == [k \in 0..n+1 |-> IF k = n + 1 THEN lv[n] ELSE lv[k]]
           tw == [k \in 0..n+1 |-> IF k = n + 1 THEN s ELSE tr[k]]
<1>5. Levels(Append(stk, f), Len(scs), lw)
  BY <1>1, <1>3, FrameFacts DEF Levels
<1>6. Runs(Append(stk, f), scs, s, r, lw, tw)
  <2>1. tw[0] = r /\ tw[n+1] = s
    BY <1>2, <1>3 DEF Runs
  <2>2. ASSUME NEW k \in 1..n PROVE tw[k-1] = After(Append(stk, f)[k], scs[lw[k-1]], tw[k])
    <3>1. tw[k] = tr[k] /\ tw[k-1] = tr[k-1] /\ lw[k-1] = lv[k-1] /\ Append(stk, f)[k] = stk[k]
      BY <1>3
    <3>2. tr[k-1] = After(stk[k], scs[lv[k-1]], tr[k])
      BY <1>2 DEF Runs
    <3> HIDE DEF tw, lw
    <3> QED
      BY <3>1, <3>2
  <2>3. tw[n] = After(f, scs[lw[n]], s)
    BY <1>2, <1>3, FrameFacts DEF Runs, After
  <2>4. ASSUME NEW k \in 1..n+1 PROVE tw[k-1] = After(Append(stk, f)[k], scs[lw[k-1]], tw[k])
    <3>1. CASE k = n + 1
      <4>1. k - 1 = n
        BY <3>1, <1>3
      <4> QED
        BY <2>1, <2>3, <3>1, <4>1, <1>3
    <3>2. CASE k # n + 1
      <4>1. k \in 1..n
        BY <3>2, <1>3
      <4> HIDE DEF lw, tw
      <4> QED
        BY <2>2, <4>1
    <3> QED
      BY <3>1, <3>2
  <2> HIDE DEF lw, tw
  <2> QED
    BY <2>1, <2>4, <1>3 DEF Runs
<1> QED
  BY <1>5, <1>6 DEF Leads

\* The end of a round, on top of the stack, can be taken as done in the scope
\* around the loop, and there is one.
LEMMA PopLoop ==
  ASSUME NEW stk \in Seq(Frames), NEW f \in LoopFrames, NEW scs \in Seq(Contexts), NEW c \in Contexts, NEW s, NEW r,
         Leads(Append(stk, f), Append(scs, c), s, r)
  PROVE  /\ Len(scs) \in Nat \ {0}
         /\ Leads(stk, scs, RoundEnd(Rounds, f.step, f.items, f.i, Bare(Last(scs)), s), r)
<1> DEFINE n == Len(stk)
           m == Len(scs)
<1>1. PICK lv : /\ Levels(Append(stk, f), Len(Append(scs, c)), lv)
                /\ \E tr : Runs(Append(stk, f), Append(scs, c), s, r, lv, tr)
  BY DEF Leads
<1>2. PICK tr : Runs(Append(stk, f), Append(scs, c), s, r, lv, tr)
  BY <1>1
<1>3. n \in Nat /\ Len(Append(stk, f)) = n + 1 /\ Append(stk, f)[n+1] = f
      /\ \A k \in 1..n : Append(stk, f)[k] = stk[k]
  BY FrameFacts
<1>a. m \in Nat /\ Len(Append(scs, c)) = m + 1 /\ \A k \in 1..m : Append(scs, c)[k] = scs[k]
  OBVIOUS
<1>4. lv[n] = m /\ m # 0 /\ \A k \in 0..n : lv[k] \in 1..m
  <2>1. lv[n+1] = m + 1 /\ lv[n+1] = lv[n] + 1 /\ lv[n] \in 1..m+1
    BY <1>1, <1>3, <1>a, FrameFacts DEF Levels
  <2>2. \A k \in 0..n : lv[k] \in 1..m+1 /\ lv[k] <= lv[n]
    <3>1. \A j, k \in 0..n+1 : j <= k => lv[j] <= lv[k]
      BY <1>1, <1>3 DEF Levels
    <3>2. lv \in [0..n+1 -> 1..m+1]
      BY <1>1, <1>3, <1>a DEF Levels
    <3> QED
      BY <3>1, <3>2, <1>3
  <2> QED
    BY <2>1, <2>2, <1>a
<1>b. tr[n] = RoundEnd(Rounds, f.step, f.items, f.i, Bare(Last(scs)), s)
  BY <1>2, <1>3, <1>4, <1>a, FrameFacts DEF Runs, After, Last
<1> DEFINE lw == [k \in 0..n |-> lv[k]]
<1>5. Levels(stk, m, lw)
  BY <1>1, <1>3, <1>4 DEF Levels
<1>6. Runs(stk, scs, RoundEnd(Rounds, f.step, f.items, f.i, Bare(Last(scs)), s), r, lw, tr)
  BY <1>2, <1>3, <1>4, <1>a, <1>b DEF Runs
<1> QED
  BY <1>4, <1>5, <1>6, <1>a DEF Leads

\* ... and a round can be put on top, with a scope of its own.
LEMMA PushLoop ==
  ASSUME NEW stk \in Seq(Frames), NEW f \in LoopFrames, NEW scs \in Seq(Contexts), NEW c \in Contexts, NEW s, NEW r,
         scs # <<>>, Leads(stk, scs, RoundEnd(Rounds, f.step, f.items, f.i, Bare(Last(scs)), s), r)
  PROVE  Leads(Append(stk, f), Append(scs, c), s, r)
<1> DEFINE n == Len(stk)
           m == Len(scs)
           t == RoundEnd(Rounds, f.step, f.items, f.i, Bare(Last(scs)), s)
<1> HIDE DEF t
<1>1. PICK lv : Levels(stk, m, lv) /\ \E tr : Runs(stk, scs, t, r, lv, tr)
  BY DEF Leads, t
<1>2. PICK tr : Runs(stk, scs, t, r, lv, tr)
  BY <1>1
<1>3. n \in Nat /\ Len(Append(stk, f)) = n + 1 /\ Append(stk, f)[n+1] = f
      /\ \A k \in 1..n : Append(stk, f)[k] = stk[k]
  BY FrameFacts
<1>a. m \in Nat /\ Len(Append(scs, c)) = m + 1 /\ \A k \in 1..m : Append(scs, c)[k] = scs[k]
  OBVIOUS
<1>4. lv[n] = m /\ \A k \in 0..n : lv[k] \in 1..m
  BY <1>1, <1>3 DEF Levels
<1> DEFINE lw == [k \in 0..n+1 |-> IF k = n + 1 THEN m + 1 ELSE lv[k]]
           tw == [k \in 0..n+1 |-> IF k = n + 1 THEN s ELSE tr[k]]
<1>5. Levels(Append(stk, f), m + 1, lw)
  <2>1. /\ lv[0] = 1 /\ \A j, k \in 0..n : j <= k => lv[j] <= lv[k]
        /\ \A k \in 1..n : lv[k] = IF stk[k].call = "loop" THEN lv[k-1] + 1 ELSE lv[k-1]
    BY <1>1 DEF Levels
  <2>2. lw \in [0..n+1 -> 1..m+1] /\ lw[0] = 1 /\ lw[n+1] = m + 1
    BY <2>1, <1>3, <1>4, <1>a
  <2>3. \A j, k \in 0..n+1 : j <= k => lw[j] <= lw[k]
    BY <2>1, <1>3, <1>4, <1>a
  <2>4. \A k \in 1..n : lw[k] = IF Append(stk, f)[k].call = "loop" THEN lw[k-1] + 1 ELSE lw[k-1]
    BY <2>1, <1>3
  <2>5. lw[n+1] = lw[n] + 1 /\ f.call = "loop"
    BY <1>3, <1>4, FrameFacts
  <2> HIDE DEF lw
  <2> QED
    BY <2>2, <2>3, <2>4, <2>5, <1>3 DEF Levels
<1>6. Runs(Append(stk, f), Append(scs, c), s, r, lw, tw)
  <2>1. tw[0] = r /\ tw[n+1] = s
    BY <1>2, <1>3 DEF Runs
  <2>2. ASSUME NEW k \in 1..n PROVE tw[k-1] = After(Append(stk, f)[k], Append(scs, c)[lw[k-1]], tw[k])
    <3>1. tw[k] = tr[k] /\ tw[k-1] = tr[k-1] /\ lw[k-1] = lv[k-1] /\ Append(stk, f)[k] = stk[k]
      BY <1>3
    <3>2. tr[k-1] = After(stk[k], scs[lv[k-1]], tr[k])
      BY <1>2 DEF Runs
    <3>3. Append(scs, c)[lv[k-1]] = scs[lv[k-1]]
      BY <1>3, <1>4, <1>a
    <3> HIDE DEF tw, lw
    <3> QED
      BY <3>1, <3>2, <3>3
  <2>3. tw[n] = After(f, Append(scs, c)[lw[n]], s)
    BY <1>2, <1>3, <1>4, <1>a, FrameFacts DEF Runs, After, Last, t
  <2>4. ASSUME NEW k \in 1..n+1 PROVE tw[k-1] = After(Append(stk, f)[k], Append(scs, c)[lw[k-1]], tw[k])
    <3>1. CASE k = n + 1
      <4>1. k - 1 = n
        BY <3>1, <1>3
      <4> QED
        BY <2>1, <2>3, <3>1, <4>1, <1>3
    <3>2. CASE k # n + 1
      <4>1. k \in 1..n
        BY <3>2, <1>3
      <4> HIDE DEF lw, tw
      <4> QED
        BY <2>2, <4>1
    <3> QED
      BY <3>1, <3>2
  <2> HIDE DEF lw, tw
  <2> QED
    BY <2>1, <2>4, <1>3 DEF Runs
<1> QED
  BY <1>5, <1>6, <1>a DEF Leads

\* What the calls make of a state is not up to the innermost scope.
LEMMA OtherLast ==
  ASSUME NEW stk \in Seq(Frames), NEW scs \in Seq(Contexts), NEW c \in Contexts, NEW d \in Contexts, NEW s, NEW r,
         Leads(stk, Append(scs, c), s, r)
  PROVE  Leads(stk, Append(scs, d), s, r)
<1> DEFINE m == Len(scs)
<1>1. PICK lv : Levels(stk, Len(Append(scs, c)), lv) /\ \E tr : Runs(stk, Append(scs, c), s, r, lv, tr)
  BY DEF Leads
<1>2. PICK tr : Runs(stk, Append(scs, c), s, r, lv, tr)
  BY <1>1
<1>3. /\ m \in Nat /\ Len(Append(scs, c)) = m + 1 /\ Len(Append(scs, d)) = m + 1 /\ Len(stk) \in Nat
      /\ \A k \in 1..m : Append(scs, c)[k] = scs[k] /\ Append(scs, d)[k] = scs[k]
  OBVIOUS
<1>4. ASSUME NEW k \in 1..Len(stk)
      PROVE  tr[k-1] = After(stk[k], Append(scs, d)[lv[k-1]], tr[k])
  <2>1. CASE stk[k].call = "steps"
    BY <1>2, <2>1 DEF Runs, After
  <2>2. CASE stk[k].call # "steps"
    <3>1. stk[k] \in Frames
      OBVIOUS
    <3>2. stk[k].call = "loop"
      BY <2>2, <3>1, FrameFacts DEF Frames
    <3>3. lv[k] = lv[k-1] + 1 /\ lv[k] \in 1..m+1 /\ lv[k-1] \in 1..m+1
      <4>1. lv \in [0..Len(stk) -> 1..m+1]
        BY <1>1, <1>3 DEF Levels
      <4>2. k \in 0..Len(stk) /\ k-1 \in 0..Len(stk)
        BY <1>3
      <4>3. lv[k] = IF stk[k].call = "loop" THEN lv[k-1] + 1 ELSE lv[k-1]
        BY <1>1 DEF Levels
      <4> QED
        BY <3>2, <4>1, <4>2, <4>3
    <3>4. lv[k-1] \in 1..m
      BY <3>3, <1>3
    <3> QED
      BY <1>2, <1>3, <3>4 DEF Runs
  <2> QED
    BY <2>1, <2>2
<1> QED
  <2>1. Levels(stk, m + 1, lv)
    BY <1>1, <1>3
  <2>2. Runs(stk, Append(scs, d), s, r, lv, tr)
    BY <1>2, <1>4 DEF Runs
  <2> QED
    BY <2>1, <2>2, <1>3 DEF Leads

\* With nothing left to do the state is the result.
LEMMA NoMore == ASSUME NEW scs, NEW s, NEW r, Leads(<<>>, scs, s, r) PROVE s = r
BY DEF Leads, Runs

\* ... and is led to by no calls at all.
LEMMA AtFirst == ASSUME NEW c, NEW s PROVE Leads(<<>>, <<c>>, s, s)
<1> DEFINE lv == [k \in 0..0 |-> 1]
           tr == [k \in 0..0 |-> s]
<1>1. Levels(<<>>, 1, lv) /\ Runs(<<>>, <<c>>, s, s, lv, tr)
  BY DEF Levels, Runs
<1> QED
  BY <1>1 DEF Leads

\* After an abort the steps and rounds that are left make nothing more happen.
LEMMA Aborted ==
  ASSUME Unfolds, NEW stk \in Seq(Frames), NEW scs, NEW s, NEW r,
         Leads(stk, scs, s, r), {"c", "out", "sig"} \subseteq DOMAIN s, s.sig = "abort"
  PROVE  r.out = s.out
<1>1. PICK lv, tr : Runs(stk, scs, s, r, lv, tr)
  BY DEF Leads
<1> DEFINE n == Len(stk)
           OK(t) == {"c", "out", "sig"} \subseteq DOMAIN t /\ t.sig = "abort" /\ t.out = s.out
           good == {k \in 0..n : OK(tr[k])}
<1>2. n \in Nat /\ n \in good /\ good \subseteq Nat
  BY <1>1 DEF Runs
<1>3. ASSUME NEW k \in 1..n, OK(tr[k]) PROVE OK(tr[k-1])
  <2>1. tr[k-1] = After(stk[k], scs[lv[k-1]], tr[k]) /\ stk[k] \in Frames
    BY <1>1 DEF Runs
  <2>2. CASE stk[k] \in StepFrames
    <3>1. /\ stk[k].call = "steps" /\ stk[k].steps \in Bodies /\ stk[k].i \in Nat
      BY <2>2 DEF StepFrames
    <3>2. tr[k-1] = tr[k]
      BY <2>1, <3>1, <1>3 DEF Unfolds, After, StepsText
    <3> QED
      BY <3>2, <1>3
  <2>3. CASE stk[k] \in LoopFrames
    <3>1. tr[k-1] = [tr[k] EXCEPT !.c = Bare(scs[lv[k-1]])]
      BY <2>1, <2>3, <1>3, FrameFacts DEF After, RoundEnd
    <3> QED
      BY <3>1, <1>3
  <2> QED
    BY <2>1, <2>2, <2>3 DEF Frames
<1>4. PICK m \in good : \A k \in good : m <= k
  BY <1>2, NatMin
<1>5. m = 0
  <2> SUFFICES ASSUME m # 0 PROVE FALSE
    OBVIOUS
  <2>1. m \in 1..n /\ OK(tr[m])
    OBVIOUS
  <2>2. m - 1 \in good
    BY <1>3, <2>1
  <2> QED
    BY <1>4, <2>2, <2>1
<1> QED
  BY <1>1, <1>4, <1>5 DEF Runs

\* What Call puts on the stack.
LEMMA Calling ==
  ASSUME NEW base \in Seq(Frames), NEW f \in Frames, NEW g \in Frames, NEW h \in Frames
  PROVE  /\ Append(base, f) \in Seq(Frames) /\ Append(base, f) # <<>>
         /\ Append(base, f) \o <<>> = Append(base, f)
         /\ Append(base, f) \o <<g>> = Append(Append(base, f), g)
         /\ Append(base, f) \o <<g, h>> = Append(Append(Append(base, f), g), h)
<1>1. Append(base, f) \in Seq(Frames) /\ Append(base, f) # <<>> /\ Append(base, f) \o <<>> = Append(base, f)
  <2>1. Append(base, f) \in Seq(Frames) /\ Append(base, f) # <<>>
    BY AppendProperties
  <2> QED
    BY <2>1, ConcatEmptySeq
<1>2. Append(base, f) \o <<g>> = Append(Append(base, f), g)
  BY <1>1, AppendIsConcat
<1>3. <<g, h>> = Append(<<g>>, h) /\ <<g>> \in Seq(Frames) /\ <<h>> \in Seq(Frames)
  OBVIOUS
<1>4. Append(base, f) \o (<<g>> \o <<h>>) = (Append(base, f) \o <<g>>) \o <<h>>
  BY <1>1, <1>3, ConcatAssociative
<1>5. <<g, h>> = <<g>> \o <<h>>
  BY <1>3, AppendIsConcat
<1>6. (Append(base, f) \o <<g>>) \o <<h>> = Append(Append(Append(base, f), g), h)
  <2>1. Append(Append(base, f), g) \in Seq(Frames)
    BY <1>1
  <2> QED
    BY <1>2, <2>1, AppendIsConcat
<1> QED
  BY <1>1, <1>2, <1>4, <1>5, <1>6

\* An outcome that is kept is the first of those still to come.
LEMMA Toss ==
  ASSUME NEW cs \in Seq(BOOLEAN), NEW x \in BOOLEAN, NEW fut \in Seq(BOOLEAN)
  PROVE  /\ <<x>> \o fut \in Seq(BOOLEAN) /\ Head(<<x>> \o fut) = x /\ Tail(<<x>> \o fut) = fut
         /\ Append(cs, x) \o fut = cs \o (<<x>> \o fut) /\ Append(cs, x) \in Seq(BOOLEAN)
<1>1. <<x>> \in Seq(BOOLEAN) /\ Len(<<x>>) = 1 /\ <<x>>[1] = x /\ Append(cs, x) \in Seq(BOOLEAN)
  OBVIOUS
<1>2. Append(cs, x) \o fut = cs \o (<<x>> \o fut)
  <2>1. Append(cs, x) = cs \o <<x>>
    BY AppendIsConcat
  <2> QED
    BY <1>1, <2>1, ConcatAssociative
<1> DEFINE t == <<x>> \o fut
<1>3. /\ t \in Seq(BOOLEAN) /\ Len(t) = 1 + Len(fut) /\ t # <<>>
      /\ \A i \in 1..1 + Len(fut) : t[i] = IF i <= 1 THEN <<x>>[i] ELSE fut[i - 1]
  <2>1. /\ t \in Seq(BOOLEAN) /\ Len(t) = 1 + Len(fut)
        /\ \A i \in 1..1 + Len(fut) : t[i] = IF i <= 1 THEN <<x>>[i] ELSE fut[i - 1]
    BY <1>1, ConcatProperties
  <2> HIDE DEF t
  <2> QED
    BY <2>1
<1> HIDE DEF t
<1>4. Head(t) = x
  BY <1>3, <1>1
<1>5. Tail(t) \in Seq(BOOLEAN) /\ Len(Tail(t)) = Len(fut) /\ \A i \in 1..Len(fut) : Tail(t)[i] = t[i+1]
  BY <1>3, HeadTailProperties
<1>6. \A i \in 1..Len(fut) : Tail(t)[i] = fut[i]
  BY <1>3, <1>5
<1>7. Tail(t) = fut
  BY <1>5, <1>6, SeqEqual
<1> QED
  BY <1>1, <1>2, <1>3, <1>4, <1>7 DEF t

\* The step at hand, and the call it is of.
LEMMA StepFacts ==
  ASSUME FlowTypes, AtStep
  PROVE  /\ stack = Append(Front(stack), Frame) /\ Front(stack) \in Seq(Frames)
         /\ Frame \in StepFrames /\ [Frame EXCEPT !.i = @ + 1] \in StepFrames
         /\ [Frame EXCEPT !.i = @ + 1].steps = Frame.steps /\ [Frame EXCEPT !.i = @ + 1].i = Frame.i + 1
         /\ Frame.steps \in Bodies /\ Frame.i \in Nat \ {0} /\ ~(Frame.i > Len(Frame.steps))
         /\ Step \in ToSet(Frame.steps) /\ Well(Step)
<1>1. /\ stack = Append(Front(stack), Frame) /\ Front(stack) \in Seq(Frames)
      /\ Frame \in Frames
  BY Parts DEF FlowTypes, AtStep, Frame
<1>2. Frame \in StepFrames /\ Frame.steps \in Bodies /\ Frame.i \in Nat \ {0}
  BY <1>1, FrameFacts DEF AtStep, Frames, StepFrames
<1>3. /\ [Frame EXCEPT !.i = @ + 1] \in StepFrames
      /\ [Frame EXCEPT !.i = @ + 1].steps = Frame.steps /\ [Frame EXCEPT !.i = @ + 1].i = Frame.i + 1
  BY <1>2 DEF StepFrames
<1>4. Frame.steps \in Seq(ToSet(Frame.steps))
  BY <1>2, BodiesAssumption
<1>5. Len(Frame.steps) \in Nat /\ Frame.i \in 1..Len(Frame.steps)
  BY <1>2, <1>4 DEF AtStep
<1>6. Step \in ToSet(Frame.steps)
  BY <1>4, <1>5 DEF Step
<1> QED
  BY <1>1, <1>2, <1>3, <1>5, <1>6, BodiesAssumption

\* The innermost scope, and what may take its place.
LEMMA ScopeFacts ==
  ASSUME FlowTypes
  PROVE  /\ scopes = Append(Front(scopes), Ctx) /\ Front(scopes) \in Seq(Contexts) /\ Ctx \in Contexts
         /\ \A c \in Contexts : /\ Append(Front(scopes), c) \in Seq(Contexts) /\ Append(Front(scopes), c) # <<>>
                                /\ Len(Append(Front(scopes), c)) = Len(scopes)
                                /\ \A k \in 1..Len(scopes) - 1 : Append(Front(scopes), c)[k] = scopes[k]
<1>1. /\ scopes = Append(Front(scopes), Ctx) /\ Front(scopes) \in Seq(Contexts) /\ Ctx \in Contexts
      /\ Len(scopes) \in Nat /\ Len(Front(scopes)) = Len(scopes) - 1
      /\ \A k \in 1..Len(scopes) - 1 : Front(scopes)[k] = scopes[k]
  BY Parts DEF FlowTypes, Ctx
<1> QED
  BY <1>1

\* What the step at hand is made of s.
Makes(x, s) == IF Step.on = "yes" \/ (Step.on = "maybe" /\ x) THEN Done(Meaning, Rounds, Step, s) ELSE s

\* The coins still to come can be replaced.
LEMMA OtherCoins ==
  ASSUME NEW fut, NEW t
  PROVE  [Now(fut) EXCEPT !.coins = t] = Now(t)
BY DEF Now, Is1

\* What the rest of a list means, once its next step is done.
LEMMA StepMeaning ==
  ASSUME Unfolds, FlowTypes, AtStep, NEW x \in BOOLEAN, NEW fut \in Seq(BOOLEAN),
         NEW past, past = IF Step.on = "maybe" THEN <<x>> \o fut ELSE fut
  PROVE  Meaning(Frame.steps, Frame.i, Now(past)) = Meaning(Frame.steps, Frame.i + 1, Makes(x, Now(fut)))
<1>1. Meaning(Frame.steps, Frame.i, Now(past)) = StepsText(Meaning, Rounds, Frame.steps, Frame.i, Now(past))
  BY StepFacts DEF Unfolds
<1>2. Now(past).sig = "go" /\ Now(past).coins = past
  BY DEF Now, Is1, Flag, AtStep
<1>3. CASE Step.on = "maybe"
  <2>1. Head(Now(past).coins) = x /\ [Now(past) EXCEPT !.coins = Tail(@)] = Now(fut)
    <3>1. Head(past) = x /\ Tail(past) = fut
      BY <1>3, Toss DEF FlowTypes
    <3>2. [Now(past) EXCEPT !.coins = Tail(@)] = [Now(past) EXCEPT !.coins = Tail(past)]
      BY <1>2
    <3>3. [Now(past) EXCEPT !.coins = fut] = Now(fut)
      BY OtherCoins
    <3> QED
      BY <1>2, <3>1, <3>2, <3>3
  <2>2. StepsText(Meaning, Rounds, Frame.steps, Frame.i, Now(past))
          = Meaning(Frame.steps, Frame.i + 1, IF x THEN Done(Meaning, Rounds, Step, Now(fut)) ELSE Now(fut))
    BY <1>2, <1>3, <2>1, StepFacts DEF StepsText, Step
  <2> QED
    BY <1>1, <1>3, <2>2 DEF Makes
<1>4. CASE Step.on # "maybe"
  <2>1. StepsText(Meaning, Rounds, Frame.steps, Frame.i, Now(past))
          = Meaning(Frame.steps, Frame.i + 1, IF Step.on = "yes" THEN Done(Meaning, Rounds, Step, Now(past)) ELSE Now(past))
    BY <1>2, <1>4, StepFacts DEF StepsText, Step
  <2> QED
    BY <1>1, <1>4, <2>1 DEF Makes
<1> QED
  BY <1>3, <1>4

\* The outcome of the gate of the step at hand is kept.
Tosses(x) == x \in BOOLEAN /\ coins' = IF Step.on = "maybe" THEN Append(coins, x) ELSE coins

\* With the step at hand done, the call goes on at the next one.
LEMMA Onward ==
  ASSUME Unfolds, FlowInv, AtStep, NEW x, Tosses(x), NEW fut \in Seq(BOOLEAN)
  PROVE  /\ coins' \in Seq(BOOLEAN)
         /\ \E r : /\ Leads(Front(stack), scopes, Meaning(Frame.steps, Frame.i + 1, Makes(x, Now(fut))), r)
                  /\ r.out = Meaning(flow, 1, Start(coins' \o fut)).out
<1> DEFINE past == IF Step.on = "maybe" THEN <<x>> \o fut ELSE fut
<1>1. past \in Seq(BOOLEAN) /\ coins' \o fut = coins \o past /\ coins' \in Seq(BOOLEAN)
  <2>1. coins \in Seq(BOOLEAN)
    BY DEF FlowInv, FlowTypes
  <2> QED
    <3>1. CASE Step.on = "maybe"
      BY <2>1, <3>1, Toss DEF Tosses
    <3>2. CASE Step.on # "maybe"
      BY <2>1, <3>2 DEF Tosses
    <3> QED
      BY <3>1, <3>2
<1>2. stack # <<>>
  BY DEF AtStep
<1> HIDE DEF past
<1>3. PICK r : Leads(stack, scopes, Now(past), r) /\ r.out = Meaning(flow, 1, Start(coins \o past)).out
  BY <1>1, <1>2 DEF FlowInv
<1>4. Leads(Front(stack), scopes, Meaning(Frame.steps, Frame.i, Now(past)), r)
  BY <1>3, StepFacts, PopSteps DEF FlowInv, FlowTypes
<1>5. Meaning(Frame.steps, Frame.i, Now(past)) = Meaning(Frame.steps, Frame.i + 1, Makes(x, Now(fut)))
  BY StepMeaning DEF FlowInv, Tosses, past
<1> QED
  BY <1>1, <1>3, <1>4, <1>5

\* ... in whatever scope.
LEMMA OtherScope ==
  ASSUME FlowTypes, NEW stk \in Seq(Frames), NEW s, NEW r, Leads(stk, scopes, s, r), NEW c \in Contexts
  PROVE  Leads(stk, Append(Front(scopes), c), s, r)
<1> DEFINE below == Front(scopes)
           top == Ctx
<1>1. below \in Seq(Contexts) /\ top \in Contexts /\ scopes = Append(below, top)
  BY ScopeFacts
<1> HIDE DEF below, top
<1>2. Leads(stk, Append(below, top), s, r)
  BY <1>1
<1>3. Leads(stk, Append(below, c), s, r)
  BY <1>1, <1>2, OtherLast
<1> QED
  BY <1>3 DEF below

\* The types after a step within a scope.
LEMMA TypesOnward ==
  ASSUME FlowTypes, flow' = flow, shared' \in Commons, coins' \in Seq(BOOLEAN), stack' \in Seq(Frames),
         NEW c \in Contexts, scopes' = Append(Front(scopes), c)
  PROVE  FlowTypes'
BY ScopeFacts DEF FlowTypes

\* A step that does nothing to the stack but go to the next one.
LEMMA LeafKeeps ==
  ASSUME Unfolds, FlowInv, AtStep, NEW x, Tosses(x), Call(<<>>), flow' = flow, shared' \in Commons,
         NEW c \in Contexts, scopes' = Append(Front(scopes), c),
         \A fut \in Seq(BOOLEAN) : Is1(c, shared', fut, out') = Makes(x, Now(fut))
  PROVE  FlowInv'
<1> DEFINE next == [Frame EXCEPT !.i = @ + 1]
           base == Front(stack)
<1>1. /\ base \in Seq(Frames) /\ next \in StepFrames /\ next.steps = Frame.steps /\ next.i = Frame.i + 1
      /\ stack' = Append(base, next) \o <<>>
  BY StepFacts DEF FlowInv, Call
<1> HIDE DEF next, base
<1>2. stack' = Append(base, next) /\ stack' \in Seq(Frames) /\ stack' # <<>>
  BY <1>1, Calling, FrameFacts
<1>3. coins' \in Seq(BOOLEAN)
  BY Onward, EmptySeq
<1>4. FlowTypes'
  BY <1>2, <1>3, TypesOnward DEF FlowInv
<1>5. Ctx' = c
  BY ScopeFacts DEF Ctx, FlowInv, Last
<1>6. ASSUME NEW fut \in Seq(BOOLEAN)
      PROVE  \E r : Leads(stack', scopes', Now(fut)', r) /\ r.out = Meaning(flow', 1, Start(coins' \o fut)).out
  <2>1. PICK r : /\ Leads(base, scopes, Meaning(Frame.steps, Frame.i + 1, Makes(x, Now(fut))), r)
                 /\ r.out = Meaning(flow, 1, Start(coins' \o fut)).out
    BY Onward DEF base
  <2>2. Now(fut)' = Makes(x, Now(fut))
    BY <1>5 DEF Now
  <2>3. Leads(base, scopes', Meaning(next.steps, next.i, Now(fut)'), r)
    BY <1>1, <2>1, <2>2, OtherScope DEF FlowInv
  <2>4. Leads(stack', scopes', Now(fut)', r)
    BY <1>1, <1>2, <1>4, <2>3, PushSteps DEF FlowTypes
  <2> QED
    BY <2>1, <2>4
<1> QED
  BY <1>2, <1>4, <1>6 DEF FlowInv

\* The step at hand is of the kind that is done.
LEMMA Doing ==
  ASSUME FlowTypes, NEW op, Does(op)
  PROVE  AtStep /\ Tosses(TRUE) /\ Step.op = op /\ \A s : Makes(TRUE, s) = Done(Meaning, Rounds, Step, s)
<1>1. Step.on \in {"yes", "maybe"}
  BY StepFacts DEF Does, Well
<1> QED
  BY <1>1 DEF Does, Tosses, Makes

\* A step that is not taken.
LEMMA SkipKeeps == ASSUME Unfolds, FlowInv, Skip PROVE FlowInv'
<1>1. AtStep /\ Tosses(FALSE) /\ \A s : Makes(FALSE, s) = s
  BY DEF Skip, Tosses, Makes
<1>2. Ctx \in Contexts /\ scopes' = Append(Front(scopes), Ctx) /\ shared' \in Commons
  BY ScopeFacts DEF Skip, FlowInv, FlowTypes
<1>3. \A fut \in Seq(BOOLEAN) : Is1(Ctx, shared', fut, out') = Makes(FALSE, Now(fut))
  BY <1>1 DEF Skip, Now
<1> QED
  BY <1>1, <1>2, <1>3, LeafKeeps DEF Skip

\* break and continue put a flag up, which is the signal of the meaning.
LEMMA SignalKeeps == ASSUME Unfolds, FlowInv, Signal PROVE FlowInv'
<1>1. Ctx \in Contexts /\ shared' \in Commons /\ ~Ctx.brk /\ ~Ctx.cont /\ FlowTypes
  BY ScopeFacts DEF Signal, Does, AtStep, FlowInv, FlowTypes
<1>2. CASE Does("break") /\ Ctx1([Ctx EXCEPT !.brk = TRUE])
  <2>1. [Ctx EXCEPT !.brk = TRUE] \in Contexts
    BY <1>1 DEF Contexts
  <2>2. \A fut \in Seq(BOOLEAN) : Is1([Ctx EXCEPT !.brk = TRUE], shared', fut, out') = Makes(TRUE, Now(fut))
    <3> SUFFICES ASSUME NEW fut \in Seq(BOOLEAN)
                 PROVE  Is1([Ctx EXCEPT !.brk = TRUE], shared', fut, out') = Makes(TRUE, Now(fut))
      OBVIOUS
    <3>1. Makes(TRUE, Now(fut)) = [Now(fut) EXCEPT !.sig = "break"]
      <4>1. Step.op = "break" /\ Makes(TRUE, Now(fut)) = Done(Meaning, Rounds, Step, Now(fut))
        BY <1>1, <1>2, Doing
      <4> QED
        BY <4>1 DEF Done, Basic
    <3> QED
      BY <1>1, <3>1 DEF Now, Is1, Bare, Flag, Signal, Contexts
  <2> QED
    BY <1>1, <1>2, <2>1, <2>2, Doing, LeafKeeps DEF Signal, Ctx1
<1>3. CASE Does("continue") /\ Ctx1([Ctx EXCEPT !.cont = TRUE])
  <2>1. [Ctx EXCEPT !.cont = TRUE] \in Contexts
    BY <1>1 DEF Contexts
  <2>2. \A fut \in Seq(BOOLEAN) : Is1([Ctx EXCEPT !.cont = TRUE], shared', fut, out') = Makes(TRUE, Now(fut))
    <3> SUFFICES ASSUME NEW fut \in Seq(BOOLEAN)
                 PROVE  Is1([Ctx EXCEPT !.cont = TRUE], shared', fut, out') = Makes(TRUE, Now(fut))
      OBVIOUS
    <3>1. Makes(TRUE, Now(fut)) = [Now(fut) EXCEPT !.sig = "continue"]
      <4>1. Step.op = "continue" /\ Makes(TRUE, Now(fut)) = Done(Meaning, Rounds, Step, Now(fut))
        BY <1>1, <1>3, Doing
      <4> QED
        BY <4>1 DEF Done, Basic
    <3> QED
      BY <1>1, <3>1 DEF Now, Is1, Bare, Flag, Signal, Contexts
  <2> QED
    BY <1>1, <1>3, <2>1, <2>2, Doing, LeafKeeps DEF Signal, Ctx1
<1> QED
  BY <1>2, <1>3 DEF Signal

\* What a placeholder stands for is a word.
LEMMA Valued ==
  ASSUME FlowTypes, NEW t \in Words \cup {"item", "var", "query", None}
  PROVE  /\ Value(t, Ctx, shared) \in Words \cup {None}
         /\ QueryOf(t, Ctx, shared) \in Words \cup {None}
<1>1. /\ {Ctx.item, Ctx.query, shared.var} \subseteq Words \cup {None}
  BY ScopeFacts DEF FlowTypes, Contexts, Commons
<1>2. Value(t, Ctx, shared) \in Words \cup {None}
  BY <1>1 DEF Value
<1> QED
  BY <1>1, <1>2 DEF QueryOf

\* The meaning looks at what the executor looks at.
LEMMA SameValue ==
  ASSUME NEW t, NEW fut
  PROVE  /\ Value(t, Now(fut).c, Now(fut).s) = Value(t, Ctx, shared)
         /\ QueryOf(t, Now(fut).c, Now(fut).s) = QueryOf(t, Ctx, shared)
         /\ Now(fut).s = shared /\ Now(fut).out = out /\ Now(fut).c = Bare(Ctx) /\ Now(fut).c.ad = Ctx.ad
         /\ Now(fut).c.ads = Ctx.ads
<1>1. /\ Now(fut).s = shared /\ Now(fut).out = out /\ Now(fut).c = Bare(Ctx)
      /\ Now(fut).c.item = Ctx.item /\ Now(fut).c.query = Ctx.query /\ Now(fut).c.ad = Ctx.ad /\ Now(fut).c.ads = Ctx.ads
  BY DEF Now, Is1, Bare
<1>2. Value(t, Now(fut).c, Now(fut).s) = Value(t, Ctx, shared)
  BY <1>1 DEF Value
<1> QED
  BY <1>1, <1>2 DEF QueryOf

\* The page a search shows.
LEMMA PageTypes == ASSUME NEW s \in Commons, NEW q \in Words PROVE PageOf(q, s) \in Commons
<1> DEFINE b == q \in Captcha
<1>1. b \in BOOLEAN
  OBVIOUS
<1> HIDE DEF b
<1>2. [s EXCEPT !.page = q, !.captcha = b] \in Commons
  BY <1>1 DEF Commons
<1> QED
  BY <1>2 DEF PageOf, b

\* What a search and a look at the page change of the bindings.
LEMMA Learnt ==
  ASSUME NEW c, NEW q, NEW a
  PROVE  [Bare(c) EXCEPT !.query = q, !.ads = a] = [ad |-> c.ad, ads |-> a, item |-> c.item, query |-> q]
<1>1. PICK b : b = [Bare(c) EXCEPT !.query = q]
  OBVIOUS
<1>2. b = [ad |-> c.ad, ads |-> c.ads, item |-> c.item, query |-> q]
  BY <1>1 DEF Bare
<1>3. [b EXCEPT !.ads = a] = [ad |-> c.ad, ads |-> a, item |-> c.item, query |-> q]
  BY <1>2
<1> QED
  BY <1>1, <1>3

\* One search, its query from the variables or the item, or none at all.
LEMMA SearchKeeps == ASSUME Unfolds, FlowInv, Search PROVE FlowInv'
<1> DEFINE q == QueryOf(Step.query, Ctx, shared)
<1>1. /\ Ctx \in Contexts /\ scopes = Append(Front(scopes), Ctx) /\ shared \in Commons /\ FlowTypes
      /\ Tosses(TRUE) /\ AtStep /\ Step.op = "search" /\ ~Ctx.brk /\ ~Ctx.cont
      /\ \A s : Makes(TRUE, s) = Basic(Step, s)
  BY ScopeFacts, Doing DEF Search, FlowInv, FlowTypes, Done, Does, AtStep
<1>2. q \in Words \cup {None}
  BY <1>1, Valued, StepFacts DEF Well
<1>3. \A fut : QueryOf(Step.query, Now(fut).c, Now(fut).s) = q
  BY SameValue
<1> HIDE DEF q
<1>4. \A fut : Makes(TRUE, Now(fut)) = IF q = None THEN Now(fut) ELSE Learn(Now(fut), Now(fut).c, q)
  BY <1>1, <1>3 DEF Basic
<1>5. CASE q = None
  <2>1. scopes' = Append(Front(scopes), Ctx) /\ shared' = shared /\ out' = out
    BY <1>1, <1>5 DEF Search, q
  <2>2. \A fut \in Seq(BOOLEAN) : Is1(Ctx, shared', fut, out') = Makes(TRUE, Now(fut))
    BY <1>4, <1>5, <2>1 DEF Now
  <2> QED
    BY <1>1, <2>1, <2>2, LeafKeeps DEF Search
<1>6. CASE q # None
  <2> DEFINE c == [Ctx EXCEPT !.query = q, !.ads = Answer[q]]
  <2>1. scopes' = Append(Front(scopes), c) /\ shared' = PageOf(q, shared) /\ out' = Append(out, Searched(q))
    BY <1>6 DEF Search, q, Ctx1
  <2>2. c \in Contexts /\ shared' \in Commons
    <3>1. q \in Words /\ Answer[q] \in Seq(Ads)
      BY <1>2, <1>6, FlowAssumption
    <3>2. c \in Contexts
      BY <1>1, <3>1 DEF Contexts
    <3> QED
      BY <1>1, <2>1, <3>1, <3>2, PageTypes
  <2>3. \A fut \in Seq(BOOLEAN) : Is1(c, shared', fut, out') = Makes(TRUE, Now(fut))
    <3> SUFFICES ASSUME NEW fut \in Seq(BOOLEAN) PROVE Is1(c, shared', fut, out') = Learn(Now(fut), Now(fut).c, q)
      BY <1>4, <1>6
    <3>1. Bare(c) = [Now(fut).c EXCEPT !.query = q, !.ads = Answer[q]] /\ Flag(c) = Flag(Ctx)
      <4>1. Now(fut).c = Bare(Ctx)
        BY SameValue
      <4>2. /\ c.query = q /\ c.ads = Answer[q] /\ c.ad = Ctx.ad /\ c.item = Ctx.item
            /\ c.brk = Ctx.brk /\ c.cont = Ctx.cont
        BY <1>1 DEF Contexts
      <4> HIDE DEF c
      <4>3. Flag(c) = Flag(Ctx)
        BY <4>2 DEF Flag
      <4>4. Bare(c) = [Bare(Ctx) EXCEPT !.query = q, !.ads = Answer[q]]
        <5>1. [Bare(Ctx) EXCEPT !.query = q, !.ads = Answer[q]]
                = [ad |-> Ctx.ad, ads |-> Answer[q], item |-> Ctx.item, query |-> q]
          BY Learnt
        <5>2. Bare(c) = [ad |-> Ctx.ad, ads |-> Answer[q], item |-> Ctx.item, query |-> q]
          BY <4>2 DEF Bare
        <5> QED
          BY <5>1, <5>2
      <4> QED
        BY <4>1, <4>3, <4>4
    <3>2. Learn(Now(fut), Now(fut).c, q)
            = [Now(fut) EXCEPT !.c = Bare(c), !.s = PageOf(q, shared), !.out = Append(out, Searched(q))]
      BY <3>1, SameValue DEF Learn
    <3> HIDE DEF c
    <3> QED
      BY <2>1, <3>1, <3>2 DEF Is1, Now
  <2> QED
    BY <1>1, <2>1, <2>2, <2>3, LeafKeeps DEF Search
<1> QED
  BY <1>5, <1>6

\* All queries of the configuration.
LEMMA SearchAllKeeps == ASSUME Unfolds, FlowInv, SearchAll PROVE FlowInv'
<1>1. /\ Ctx \in Contexts /\ scopes = Append(Front(scopes), Ctx) /\ shared \in Commons
      /\ Tosses(TRUE) /\ AtStep /\ Step.op = "all"
      /\ \A s : Makes(TRUE, s) = Basic(Step, s)
  BY ScopeFacts, Doing DEF SearchAll, FlowInv, FlowTypes, Done, Does, AtStep
<1>2. shared' \in Commons
  <2>1. Queries # <<>> => Last(Queries) \in Words
    BY FlowAssumption, Parts
  <2> QED
    BY <1>1, <2>1 DEF SearchAll, AllAsked, Commons
<1>3. \A fut \in Seq(BOOLEAN) : Is1(Ctx, shared', fut, out') = Makes(TRUE, Now(fut))
  <2> SUFFICES ASSUME NEW fut \in Seq(BOOLEAN) PROVE Is1(Ctx, shared', fut, out') = Basic(Step, Now(fut))
    BY <1>1
  <2>1. Basic(Step, Now(fut)) = [Now(fut) EXCEPT !.s = shared', !.out = out']
    BY <1>1, SameValue DEF Basic, SearchAll
  <2> QED
    BY <2>1 DEF Now, Is1
<1> QED
  BY <1>1, <1>2, <1>3, LeafKeeps DEF SearchAll

\* The ads of the page go to the scope.
LEMMA CatchKeeps == ASSUME Unfolds, FlowInv, Catch PROVE FlowInv'
<1> DEFINE ads == AdsOn(shared.page)
           c == [Ctx EXCEPT !.ads = ads]
           trap == shared.page \in Captcha
<1>1. /\ Ctx \in Contexts /\ scopes = Append(Front(scopes), Ctx) /\ shared \in Commons
      /\ Tosses(TRUE) /\ AtStep /\ Step.op = "catch"
      /\ \A s : Makes(TRUE, s) = Basic(Step, s)
  BY ScopeFacts, Doing DEF Catch, FlowInv, FlowTypes, Done, Does, AtStep
<1>2. ads \in Seq(Ads) /\ trap \in BOOLEAN
  BY <1>1, FlowAssumption DEF AdsOn, Commons
<1>3. scopes' = Append(Front(scopes), c) /\ shared' = [shared EXCEPT !.captcha = trap] /\ out' = out
  BY DEF Catch, Ctx1
<1>4. \A fut : Basic(Step, Now(fut)) = [Now(fut) EXCEPT !.c.ads = ads, !.s.captcha = trap]
  BY <1>1, SameValue DEF Basic
<1> HIDE DEF ads, trap
<1>5. c \in Contexts /\ shared' \in Commons
  BY <1>1, <1>2, <1>3 DEF Contexts, Commons
<1>6. \A fut \in Seq(BOOLEAN) : Is1(c, shared', fut, out') = Makes(TRUE, Now(fut))
  <2> SUFFICES ASSUME NEW fut \in Seq(BOOLEAN) PROVE Is1(c, shared', fut, out') = Basic(Step, Now(fut))
    BY <1>1
  <2>1. /\ c.ads = ads /\ c.ad = Ctx.ad /\ c.item = Ctx.item /\ c.query = Ctx.query
        /\ c.brk = Ctx.brk /\ c.cont = Ctx.cont
    BY <1>1 DEF Contexts
  <2> HIDE DEF c
  <2>2. Bare(c) = [ad |-> Ctx.ad, ads |-> ads, item |-> Ctx.item, query |-> Ctx.query] /\ Flag(c) = Flag(Ctx)
    BY <2>1 DEF Bare, Flag
  <2>3. Basic(Step, Now(fut)) = [c |-> [ad |-> Ctx.ad, ads |-> ads, item |-> Ctx.item, query |-> Ctx.query],
                                 s |-> [shared EXCEPT !.captcha = trap], coins |-> fut, out |-> out, sig |-> Flag(Ctx)]
    <3>1. PICK z : z = Now(fut)
      OBVIOUS
    <3>2. z = [c |-> Bare(Ctx), s |-> shared, coins |-> fut, out |-> out, sig |-> Flag(Ctx)]
      BY <3>1 DEF Now, Is1
    <3>3. PICK y : y = [z EXCEPT !.c.ads = ads]
      OBVIOUS
    <3>4. y = [c |-> [Bare(Ctx) EXCEPT !.ads = ads], s |-> shared, coins |-> fut, out |-> out, sig |-> Flag(Ctx)]
      BY <3>2, <3>3
    <3>5. [Bare(Ctx) EXCEPT !.ads = ads] = [ad |-> Ctx.ad, ads |-> ads, item |-> Ctx.item, query |-> Ctx.query]
      BY DEF Bare
    <3>6. [y EXCEPT !.s.captcha = trap] = [c |-> [Bare(Ctx) EXCEPT !.ads = ads], s |-> [shared EXCEPT !.captcha = trap],
                                           coins |-> fut, out |-> out, sig |-> Flag(Ctx)]
      BY <3>4
    <3>7. Basic(Step, Now(fut)) = [z EXCEPT !.c.ads = ads, !.s.captcha = trap]
      BY <1>4, <3>1
    <3>8. Basic(Step, Now(fut)) = [y EXCEPT !.s.captcha = trap]
      BY <3>3, <3>7
    <3> QED
      BY <3>5, <3>6, <3>8
  <2> QED
    BY <1>3, <2>2, <2>3 DEF Is1
<1> QED
  BY <1>1, <1>3, <1>5, <1>6, LeafKeeps DEF Catch

\* A variable is set for all scopes.
LEMMA SaveKeeps == ASSUME Unfolds, FlowInv, Save PROVE FlowInv'
<1> DEFINE v == IF Step.value = "page" THEN shared.page ELSE Value(Step.value, Ctx, shared)
<1>1. /\ Ctx \in Contexts /\ scopes = Append(Front(scopes), Ctx) /\ shared \in Commons /\ FlowTypes
      /\ Tosses(TRUE) /\ AtStep /\ Step.op = "save"
      /\ \A s : Makes(TRUE, s) = Basic(Step, s)
  BY ScopeFacts, Doing DEF Save, FlowInv, FlowTypes, Done, Does, AtStep
<1>2. v \in Words \cup {None}
  <2>1. Step.value \in Words \cup {"item", "var", "query", "page", None}
    BY <1>1, StepFacts DEF Well
  <2>2. CASE Step.value = "page"
    BY <1>1, <2>2 DEF Commons
  <2>3. CASE Step.value # "page"
    BY <1>1, <2>1, <2>3, Valued
  <2> QED
    BY <2>2, <2>3
<1>3. shared' = [shared EXCEPT !.var = v] /\ out' = out /\ scopes' = scopes
  BY DEF Save
<1>4. \A fut : Basic(Step, Now(fut)) = [Now(fut) EXCEPT !.s.var = v]
  BY <1>1, SameValue DEF Basic
<1> HIDE DEF v
<1>5. shared' \in Commons
  BY <1>1, <1>2, <1>3 DEF Commons
<1>6. \A fut \in Seq(BOOLEAN) : Is1(Ctx, shared', fut, out') = Makes(TRUE, Now(fut))
  <2> SUFFICES ASSUME NEW fut \in Seq(BOOLEAN) PROVE Is1(Ctx, shared', fut, out') = [Now(fut) EXCEPT !.s.var = v]
    BY <1>1, <1>4
  <2> QED
    BY <1>3 DEF Now, Is1
<1> QED
  BY <1>1, <1>3, <1>5, <1>6, LeafKeeps DEF Save

\* A click that does not end the flow.
LEMMA ClickKeeps ==
  ASSUME Unfolds, FlowInv, Click, Call(<<>>), ~(Ctx.ad # None /\ Wanted(Step, Ctx.ad) /\ Step.abort)
  PROVE  FlowInv'
<1>1. /\ Ctx \in Contexts /\ scopes = Append(Front(scopes), Ctx) /\ shared \in Commons
      /\ Tosses(TRUE) /\ AtStep /\ Step.op = "click" /\ ~Ctx.brk /\ ~Ctx.cont
      /\ \A s : Makes(TRUE, s) = Basic(Step, s)
  BY ScopeFacts, Doing DEF Click, FlowInv, FlowTypes, Done, Does, AtStep
<1>2. \A fut \in Seq(BOOLEAN) : Is1(Ctx, shared', fut, out') = Makes(TRUE, Now(fut))
  <2> SUFFICES ASSUME NEW fut \in Seq(BOOLEAN) PROVE Is1(Ctx, shared, fut, out') = Basic(Step, Now(fut))
    BY <1>1 DEF Click
  <2>1. Now(fut).c.ad = Ctx.ad /\ Now(fut).out = out /\ Now(fut).sig = "go"
    BY <1>1, SameValue DEF Now, Is1, Flag
  <2>2. CASE Ctx.ad # None /\ Wanted(Step, Ctx.ad)
    <3>1. Basic(Step, Now(fut)) = [Now(fut) EXCEPT !.out = Append(out, Clicked(Ctx.ad)), !.sig = "go"]
      BY <1>1, <2>1, <2>2 DEF Basic
    <3>2. out' = Append(out, Clicked(Ctx.ad))
      BY <2>2 DEF Click
    <3> QED
      BY <1>1, <3>1, <3>2 DEF Now, Is1, Flag
  <2>3. CASE ~(Ctx.ad # None /\ Wanted(Step, Ctx.ad))
    BY <1>1, <2>1, <2>3 DEF Basic, Click, Now
  <2> QED
    BY <2>2, <2>3
<1> QED
  BY <1>1, <1>2, LeafKeeps DEF Click

\* A step may branch.
LEMMA IfKeeps == ASSUME Unfolds, FlowInv, If PROVE FlowInv'
<1> DEFINE branch == IF Holds(Step.cond, Ctx, shared) THEN Step.then ELSE Step.else
           f == Steps(branch)
           next == [Frame EXCEPT !.i = @ + 1]
           base == Front(stack)
<1>1. /\ Ctx \in Contexts /\ scopes' = Append(Front(scopes), Ctx) /\ FlowTypes /\ shared' \in Commons
      /\ Tosses(TRUE) /\ AtStep /\ Step.op = "if" /\ Ctx' = Ctx /\ shared' = shared /\ out' = out /\ flow' = flow
      /\ \A s : Makes(TRUE, s) = Done(Meaning, Rounds, Step, s)
  BY ScopeFacts, Doing DEF If, FlowInv, FlowTypes, Ctx
<1>2. branch \in Bodies
  BY <1>1, StepFacts DEF Well
<1>3. \A fut : Makes(TRUE, Now(fut)) = Meaning(branch, 1, Now(fut))
  <2> SUFFICES ASSUME NEW fut PROVE Done(Meaning, Rounds, Step, Now(fut)) = Meaning(branch, 1, Now(fut))
    BY <1>1
  <2>1. Holds(Step.cond, Now(fut).c, Now(fut).s) = Holds(Step.cond, Ctx, shared)
    BY DEF Holds, Now, Is1, Bare
  <2> QED
    BY <1>1, <2>1 DEF Done
<1>4. /\ base \in Seq(Frames) /\ next \in StepFrames /\ next.steps = Frame.steps /\ next.i = Frame.i + 1
      /\ stack' = Append(base, next) \o <<f>>
  BY <1>1, StepFacts DEF If, Call
<1> HIDE DEF branch
<1>5. f \in StepFrames /\ f.steps = branch /\ f.i = 1
  BY <1>2 DEF Steps, StepFrames
<1> HIDE DEF f, next, base
<1>6. stack' = Append(Append(base, next), f) /\ Append(base, next) \in Seq(Frames)
  BY <1>4, <1>5, Calling, FrameFacts
<1>7. stack' \in Seq(Frames) /\ stack' # <<>>
  BY <1>5, <1>6, FrameFacts, AppendProperties
<1>8. coins' \in Seq(BOOLEAN)
  BY <1>1, Onward, EmptySeq
<1>9. FlowTypes'
  BY <1>1, <1>7, <1>8, TypesOnward
<1>10. ASSUME NEW fut \in Seq(BOOLEAN)
      PROVE  \E r : Leads(stack', scopes', Now(fut)', r) /\ r.out = Meaning(flow', 1, Start(coins' \o fut)).out
  <2>1. PICK r : /\ Leads(base, scopes, Meaning(Frame.steps, Frame.i + 1, Makes(TRUE, Now(fut))), r)
                 /\ r.out = Meaning(flow, 1, Start(coins' \o fut)).out
    BY <1>1, Onward DEF base
  <2>2. Now(fut)' = Now(fut) /\ scopes' = scopes
    BY <1>1 DEF Now, If
  <2>3. Leads(base, scopes, Meaning(next.steps, next.i, Meaning(f.steps, f.i, Now(fut))), r)
    BY <1>3, <1>4, <1>5, <2>1
  <2>4. Leads(Append(base, next), scopes, Meaning(f.steps, f.i, Now(fut)), r)
    BY <1>1, <1>4, <2>3, PushSteps DEF FlowTypes
  <2>5. Leads(stack', scopes', Now(fut)', r)
    BY <1>1, <1>5, <1>6, <2>2, <2>4, PushSteps DEF FlowTypes
  <2> QED
    BY <1>1, <2>1, <2>5
<1> QED
  BY <1>7, <1>9, <1>10 DEF FlowInv

\* The body of a loop starts in the scope that binds the item.
LEMMA Binds ==
  ASSUME NEW c \in Contexts, ~c.brk, ~c.cont, shared \in Commons, NEW st \in LoopSteps, NEW item \in ItemsOf(st), NEW fut
  PROVE  /\ Child(c, st, item) \in Contexts /\ Named(st, item) \in Commons
         /\ Is1(Child(c, st, item), Named(st, item), fut, out) = Bound(st, item, Is1(c, shared, fut, out))
<1>1. st.op \in {"each", "eachad"}
  BY DEF LoopSteps
<1>2. CASE st.op = "eachad"
  <2>1. item \in Ads
    BY <1>2 DEF ItemsOf
  <2>2. Child(c, st, item) = [c EXCEPT !.ad = item, !.brk = FALSE, !.cont = FALSE] /\ Named(st, item) = shared
    BY <1>2 DEF Child, Named
  <2>3. /\ Child(c, st, item) \in Contexts /\ Flag(Child(c, st, item)) = "go" /\ Flag(c) = "go"
        /\ Bare(Child(c, st, item)) = [Bare(c) EXCEPT !.ad = item]
    <3>1. PICK d : d = Child(c, st, item)
      OBVIOUS
    <3>2. /\ d \in Contexts /\ d.ad = item /\ d.item = c.item /\ d.ads = c.ads /\ d.query = c.query
          /\ d.brk = FALSE /\ d.cont = FALSE
      BY <2>1, <2>2, <3>1 DEF Contexts
    <3>3. Flag(d) = "go" /\ Flag(c) = "go"
      BY <3>2 DEF Flag
    <3>4. Bare(d) = [Bare(c) EXCEPT !.ad = item]
      BY <3>2 DEF Bare
    <3> QED
      BY <3>1, <3>2, <3>3, <3>4
  <2>4. Bound(st, item, Is1(c, shared, fut, out)) = [Is1(c, shared, fut, out) EXCEPT !.c = [Bare(c) EXCEPT !.ad = item]]
    BY <1>2 DEF Bound, Is1
  <2> QED
    BY <2>2, <2>3, <2>4 DEF Is1
<1>3. CASE st.op = "each"
  <2>1. item \in Words
    BY <1>3 DEF ItemsOf
  <2>2. Child(c, st, item) = [c EXCEPT !.item = item, !.brk = FALSE, !.cont = FALSE]
    BY <1>3 DEF Child
  <2>3. /\ Child(c, st, item) \in Contexts /\ Flag(Child(c, st, item)) = "go" /\ Flag(c) = "go"
        /\ Bare(Child(c, st, item)) = [Bare(c) EXCEPT !.item = item]
    <3>1. PICK d : d = Child(c, st, item)
      OBVIOUS
    <3>2. /\ d \in Contexts /\ d.item = item /\ d.ad = c.ad /\ d.ads = c.ads /\ d.query = c.query
          /\ d.brk = FALSE /\ d.cont = FALSE
      BY <2>1, <2>2, <3>1 DEF Contexts
    <3>3. Flag(d) = "go" /\ Flag(c) = "go"
      BY <3>2 DEF Flag
    <3>4. Bare(d) = [Bare(c) EXCEPT !.item = item]
      BY <3>2 DEF Bare
    <3> QED
      BY <3>1, <3>2, <3>3, <3>4
  <2>4. Named(st, item) = [shared EXCEPT !.var = IF st.var = "var" THEN item ELSE shared.var] /\ Named(st, item) \in Commons
    BY <1>3, <2>1 DEF Named, Commons
  <2> DEFINE v == IF st.var = "var" THEN item ELSE shared.var
  <2>5. PICK z : z = Is1(c, shared, fut, out)
    OBVIOUS
  <2>6. z = [c |-> Bare(c), s |-> shared, coins |-> fut, out |-> out, sig |-> "go"]
    BY <2>3, <2>5 DEF Is1
  <2>7. PICK y : y = [z EXCEPT !.c.item = item]
    OBVIOUS
  <2>8. y = [c |-> [Bare(c) EXCEPT !.item = item], s |-> shared, coins |-> fut, out |-> out, sig |-> "go"]
    BY <2>6, <2>7
  <2>9. Bound(st, item, z) = [y EXCEPT !.s.var = v]
    BY <1>3, <2>6, <2>7, <2>8 DEF Bound
  <2> HIDE DEF v
  <2>10. [y EXCEPT !.s.var = v] = [c |-> [Bare(c) EXCEPT !.item = item], s |-> [shared EXCEPT !.var = v],
                                   coins |-> fut, out |-> out, sig |-> "go"]
    BY <2>8
  <2> QED
    BY <2>3, <2>4, <2>5, <2>9, <2>10 DEF Is1, v
<1> QED
  BY <1>1, <1>2, <1>3

\* A loop without items is over at once; one with items starts its first round
\* in a new scope.
LEMMA LoopKeeps ==
  ASSUME Unfolds, FlowInv, AtStep, Tosses(TRUE), Step \in LoopSteps, NEW items \in Seq(ItemsOf(Step)),
         items \in Seq(Ads \cup Words), Loop(Step, items), flow' = flow, out' = out,
         \A fut : Makes(TRUE, Now(fut)) = Rounds(Step, items, 1, Now(fut))
  PROVE  FlowInv'
<1>1. /\ Ctx \in Contexts /\ scopes = Append(Front(scopes), Ctx) /\ FlowTypes /\ shared \in Commons
      /\ scopes \in Seq(Contexts) /\ scopes # <<>> /\ ~Ctx.brk /\ ~Ctx.cont
  BY ScopeFacts DEF FlowInv, FlowTypes, AtStep
<1>2. \A fut : Rounds(Step, items, 1, Now(fut)) = RoundsText(Meaning, Rounds, Step, items, 1, Now(fut))
  BY DEF Unfolds
<1>3. CASE items = <<>>
  <2>1. Call(<<>>) /\ scopes' = scopes /\ shared' = shared
    BY <1>3 DEF Loop
  <2>2. \A fut : Rounds(Step, items, 1, Now(fut)) = Now(fut)
    BY <1>2, <1>3 DEF RoundsText
  <2>3. \A fut \in Seq(BOOLEAN) : Is1(Ctx, shared', fut, out') = Makes(TRUE, Now(fut))
    BY <2>1, <2>2 DEF Now
  <2> QED
    BY <1>1, <2>1, <2>3, LeafKeeps
<1>4. CASE items # <<>>
  <2> DEFINE first == items[1]
             c == Child(Ctx, Step, first)
             g == [call |-> "loop", step |-> Step, items |-> items, i |-> 1]
             f == Steps(Step.body)
             next == [Frame EXCEPT !.i = @ + 1]
             base == Front(stack)
  <2>1. first \in ItemsOf(Step) /\ 1 <= Len(items) /\ Len(items) \in Nat
    BY <1>4
  <2>2. /\ base \in Seq(Frames) /\ next \in StepFrames /\ next.steps = Frame.steps /\ next.i = Frame.i + 1
        /\ stack' = Append(base, next) \o <<g, f>> /\ scopes' = Append(scopes, c) /\ shared' = Named(Step, first)
    BY <1>1, <1>4, StepFacts DEF Loop, Call
  <2>3. f \in StepFrames /\ f.steps = Step.body /\ f.i = 1
    <3>1. Step.body \in Bodies
      BY <1>1, StepFacts DEF Well, LoopSteps
    <3> QED
      BY <3>1 DEF Steps, StepFrames
  <2>4. g \in LoopFrames /\ g.step = Step /\ g.items = items /\ g.i = 1
    BY <2>1 DEF LoopFrames
  <2>5. /\ c \in Contexts /\ shared' \in Commons
        /\ \A fut : Is1(c, shared', fut, out) = Bound(Step, first, Now(fut))
    BY <1>1, <2>1, <2>2, Binds DEF Now
  <2> HIDE DEF first, c, f, g, next, base
  <2>6. /\ stack' = Append(Append(Append(base, next), g), f)
        /\ Append(base, next) \in Seq(Frames) /\ Append(Append(base, next), g) \in Seq(Frames)
        /\ stack' \in Seq(Frames) /\ stack' # <<>>
    <3>1. stack' = Append(Append(Append(base, next), g), f)
      <4>1. next \in Frames /\ g \in Frames /\ f \in Frames
        BY <2>2, <2>3, <2>4, FrameFacts
      <4>2. Append(base, next) \o <<g, f>> = Append(Append(Append(base, next), g), f)
        BY <2>2, <4>1, Calling
      <4> QED
        BY <2>2, <4>2
    <3>2. Append(base, next) \in Seq(Frames)
      BY <2>2, FrameFacts
    <3>3. Append(Append(base, next), g) \in Seq(Frames)
      BY <2>4, <3>2, FrameFacts
    <3> QED
      BY <2>3, <3>1, <3>2, <3>3, FrameFacts, AppendProperties
  <2>7. coins' \in Seq(BOOLEAN)
    BY Onward, EmptySeq
  <2>8. Ctx' = c /\ FlowTypes'
    <3>1. /\ scopes' \in Seq(Contexts) /\ scopes' # <<>> /\ Len(scopes') = Len(scopes) + 1 /\ Len(scopes) \in Nat
          /\ \A k \in 1..Len(scopes) : scopes'[k] = scopes[k]
          /\ scopes'[Len(scopes')] = c
      <4>1. Append(scopes, c) \in Seq(Contexts) /\ Len(Append(scopes, c)) = Len(scopes) + 1
        BY <1>1, <2>5, AppendProperties
      <4>2. Len(scopes) \in Nat /\ \A k \in 1..Len(scopes) : Append(scopes, c)[k] = scopes[k]
        BY <1>1, <2>5
      <4>3. Append(scopes, c)[Len(scopes) + 1] = c /\ Append(scopes, c) # <<>>
        BY <1>1, <2>5, <4>1, AppendProperties
      <4> QED
        BY <2>2, <4>1, <4>2, <4>3
    <3>2. \A k \in 1..Len(scopes) : ~scopes[k].brk /\ ~scopes[k].cont
      <4>1. \A k \in 1..Len(scopes) - 1 : ~scopes[k].brk /\ ~scopes[k].cont
        BY <1>1 DEF FlowTypes
      <4>2. scopes[Len(scopes)] = Ctx
        BY DEF Ctx, Last
      <4> QED
        BY <1>1, <3>1, <4>1, <4>2
    <3>3. \A k \in 1..Len(scopes') - 1 : ~scopes'[k].brk /\ ~scopes'[k].cont
      BY <3>1, <3>2
    <3>4. Ctx' = c
      BY <3>1 DEF Ctx, Last
    <3> QED
      BY <1>1, <2>5, <2>6, <2>7, <3>1, <3>3, <3>4 DEF FlowTypes
  <2>9. ASSUME NEW fut \in Seq(BOOLEAN)
        PROVE  \E r : Leads(stack', scopes', Now(fut)', r) /\ r.out = Meaning(flow', 1, Start(coins' \o fut)).out
    <3> DEFINE inside == Meaning(Step.body, 1, Bound(Step, first, Now(fut)))
               all == RoundEnd(Rounds, Step, items, 1, Bare(Ctx), inside)
    <3>1. PICK r : /\ Leads(base, scopes, Meaning(Frame.steps, Frame.i + 1, Makes(TRUE, Now(fut))), r)
                   /\ r.out = Meaning(flow, 1, Start(coins' \o fut)).out
      BY Onward DEF base
    <3>2. Makes(TRUE, Now(fut)) = all
      <4>1. Now(fut).c = Bare(Ctx)
        BY SameValue
      <4>2. ~(1 > Len(items))
        BY <2>1
      <4> QED
        BY <1>2, <4>1, <4>2 DEF RoundsText, first
    <3> HIDE DEF inside, all
    <3>3. Leads(Append(base, next), scopes, all, r)
      BY <1>1, <2>2, <3>1, <3>2, PushSteps
    <3>4. Leads(Append(base, next), scopes, RoundEnd(Rounds, g.step, g.items, g.i, Bare(Last(scopes)), inside), r)
      BY <2>4, <3>3 DEF all, Ctx
    <3>5. Leads(Append(Append(base, next), g), Append(scopes, c), inside, r)
      BY <1>1, <2>4, <2>5, <2>6, <3>4, PushLoop
    <3>6. inside = Meaning(f.steps, f.i, Now(fut)')
      BY <2>3, <2>5, <2>8 DEF Now, inside
    <3>7. Leads(stack', scopes', Now(fut)', r)
      BY <1>1, <2>2, <2>3, <2>6, <2>8, <3>5, <3>6, PushSteps DEF FlowTypes
    <3> QED
      BY <3>1, <3>7
  <2> QED
    BY <2>6, <2>8, <2>9 DEF FlowInv
<1> QED
  BY <1>3, <1>4

\* A loop's limit leaves ads.
LEMMA LimitedTo == ASSUME NEW ads \in Seq(Ads), NEW st, st.limit \in Nat PROVE Limited(ads, st) \in Seq(Ads)
<1>1. CASE st.limit = 0 BY <1>1 DEF Limited
<1>2. CASE st.limit # 0
  <2> DEFINE m == IF st.limit < Len(ads) THEN st.limit ELSE Len(ads)
  <2>1. m \in 0..Len(ads) /\ Len(ads) \in Nat /\ \A k \in 1..m : ads[k] \in Ads
    OBVIOUS
  <2> HIDE DEF m
  <2>2. SubSeq(ads, 1, m) \in Seq(Ads)
    BY <2>1, SubSeqProperties
  <2> QED
    BY <1>2, <2>2 DEF Limited, m
<1> QED
  BY <1>1, <1>2

\* The loop over the ads of the scope.
LEMMA EachAdKeeps == ASSUME Unfolds, FlowInv, EachAd PROVE FlowInv'
<1>1. /\ Ctx \in Contexts /\ FlowTypes /\ Tosses(TRUE) /\ AtStep /\ Step.op = "eachad" /\ flow' = flow /\ out' = out
      /\ \A s : Makes(TRUE, s) = Done(Meaning, Rounds, Step, s)
  BY ScopeFacts, Doing DEF EachAd, FlowInv
<1>2. Step \in LoopSteps /\ Step.limit \in Nat
  BY <1>1, StepFacts DEF Well, LoopSteps
<1> DEFINE items == Limited(Ctx.ads, Step)
<1>3. items \in Seq(Ads)
  BY <1>1, <1>2, LimitedTo DEF Contexts
<1>4. \A fut : Makes(TRUE, Now(fut)) = Rounds(Step, items, 1, Now(fut))
  BY <1>1, SameValue DEF Done
<1>5. Loop(Step, items)
  BY DEF EachAd
<1> HIDE DEF items
<1>6. items \in Seq(ItemsOf(Step)) /\ items \in Seq(Ads \cup Words)
  BY <1>1, <1>3 DEF ItemsOf
<1> QED
  BY <1>1, <1>2, <1>4, <1>5, <1>6, LoopKeeps

\* The loop over the step's own items.
LEMMA EachKeeps == ASSUME Unfolds, FlowInv, Each PROVE FlowInv'
<1>1. /\ Ctx \in Contexts /\ FlowTypes /\ Tosses(TRUE) /\ AtStep /\ Step.op = "each" /\ flow' = flow /\ out' = out
      /\ \A s : Makes(TRUE, s) = Done(Meaning, Rounds, Step, s)
  BY ScopeFacts, Doing DEF Each, FlowInv
<1>2. Step \in LoopSteps /\ Step.items \in Seq(Words)
  BY <1>1, StepFacts DEF Well, LoopSteps
<1>4. \A fut : Makes(TRUE, Now(fut)) = Rounds(Step, Step.items, 1, Now(fut))
  BY <1>1 DEF Done
<1>5. Loop(Step, Step.items)
  BY DEF Each
<1>6. Step.items \in Seq(ItemsOf(Step)) /\ Step.items \in Seq(Ads \cup Words)
  BY <1>1, <1>2 DEF ItemsOf
<1> QED
  BY <1>1, <1>2, <1>4, <1>5, <1>6, LoopKeeps

\* A call that ends may be the last one.
LEMMA Lands ==
  ASSUME FlowTypes',
         \A fut \in Seq(BOOLEAN) : \E r :
            Leads(stack', scopes', Now(fut)', r) /\ r.out = Meaning(flow', 1, Start(coins' \o fut)).out
  PROVE  FlowInv'
<1>1. CASE stack' # <<>>
  BY <1>1 DEF FlowInv
<1>2. CASE stack' = <<>>
  <2>1. <<>> \in Seq(BOOLEAN)
    OBVIOUS
  <2>2. PICK r : Leads(stack', scopes', Now(<<>>)', r) /\ r.out = Meaning(flow', 1, Start(coins' \o <<>>)).out
    BY <2>1
  <2>3. r = Now(<<>>)' /\ r.out = out'
    <3>1. r = Now(<<>>)'
      BY <1>2, <2>2, NoMore
    <3> QED
      BY <3>1 DEF Now, Is1
  <2>4. Start(coins' \o <<>>) = Begin'
    <3>1. coins' \o <<>> = coins'
      BY ConcatEmptySeq DEF FlowTypes
    <3> QED
      BY <3>1 DEF Start, Begin
  <2> QED
    BY <1>2, <2>2, <2>3, <2>4 DEF FlowInv, FlowFollowsText
<1> QED
  BY <1>1, <1>2

\* A list that is over, or cut off by a flag, makes nothing more of the state.
LEMMA ReturnKeeps == ASSUME Unfolds, FlowInv, Return PROVE FlowInv'
<1>1. /\ FlowTypes /\ stack = Append(Front(stack), Frame) /\ Front(stack) \in Seq(Frames) /\ Frame \in Frames
  BY Parts DEF FlowInv, FlowTypes, Return, Frame
<1>2. Frame \in StepFrames /\ Frame.steps \in Bodies /\ Frame.i \in Nat
  BY <1>1, FrameFacts DEF Return, Frames, StepFrames
<1>3. FlowTypes'
  BY <1>1 DEF FlowTypes, Return
<1>4. ASSUME NEW fut PROVE Meaning(Frame.steps, Frame.i, Now(fut)) = Now(fut)
  <2>1. Ctx.brk \/ Ctx.cont => Now(fut).sig # "go"
    BY DEF Now, Is1, Flag
  <2> QED
    BY <1>2, <2>1 DEF Unfolds, StepsText, Return
<1>5. ASSUME NEW fut \in Seq(BOOLEAN)
      PROVE  \E r : Leads(stack', scopes', Now(fut)', r) /\ r.out = Meaning(flow', 1, Start(coins' \o fut)).out
  <2>1. PICK r : Leads(stack, scopes, Now(fut), r) /\ r.out = Meaning(flow, 1, Start(coins \o fut)).out
    BY DEF FlowInv, Return
  <2>2. Leads(Front(stack), scopes, Now(fut), r)
    <3> DEFINE base == Front(stack)
               f == Frame
    <3>1. base \in Seq(Frames) /\ f \in StepFrames /\ Leads(Append(base, f), scopes, Now(fut), r) /\ scopes \in Seq(Contexts)
      BY <1>1, <1>2, <2>1 DEF FlowTypes
    <3> HIDE DEF base, f
    <3>2. Leads(base, scopes, Meaning(f.steps, f.i, Now(fut)), r)
      BY <3>1, PopSteps
    <3> QED
      BY <1>4, <3>2 DEF base, f
  <2>3. Now(fut)' = Now(fut) /\ stack' = Front(stack) /\ scopes' = scopes /\ flow' = flow /\ coins' = coins
    BY DEF Return, Now, Ctx
  <2> QED
    BY <2>1, <2>2, <2>3
<1> QED
  BY <1>3, <1>5, Lands

\* Where a round ends: its scope is on the one around the loop.
LEMMA RoundFacts ==
  ASSUME FlowInv, stack # <<>>, Frame.call = "loop"
  PROVE  /\ stack = Append(Front(stack), Frame) /\ Front(stack) \in Seq(Frames) /\ Frame \in LoopFrames
         /\ Front(scopes) = Append(Rest, Outer) /\ Rest \in Seq(Contexts) /\ Outer \in Contexts
         /\ Front(scopes) \in Seq(Contexts) /\ Front(scopes) # <<>> /\ Last(Front(scopes)) = Outer
         /\ ~Outer.brk /\ ~Outer.cont /\ scopes = Append(Front(scopes), Ctx) /\ Ctx \in Contexts
         /\ Len(Front(scopes)) = Len(scopes) - 1 /\ Len(scopes) \in Nat
         /\ \A k \in 1..Len(scopes) - 1 : /\ Front(scopes)[k] = scopes[k]
                                         /\ ~Front(scopes)[k].brk /\ ~Front(scopes)[k].cont
         /\ \A fut \in Seq(BOOLEAN) : \E r :
               /\ Leads(Front(stack), Front(scopes),
                        RoundEnd(Rounds, Frame.step, Frame.items, Frame.i, Bare(Outer), Now(fut)), r)
               /\ r.out = Meaning(flow, 1, Start(coins \o fut)).out
<1>1. /\ stack = Append(Front(stack), Frame) /\ Front(stack) \in Seq(Frames) /\ Frame \in Frames
  BY Parts DEF FlowInv, FlowTypes, Frame
<1>2. Frame \in LoopFrames
  BY <1>1, FrameFacts DEF Frames
<1>3. /\ scopes = Append(Front(scopes), Ctx) /\ Front(scopes) \in Seq(Contexts) /\ Ctx \in Contexts
      /\ Len(scopes) \in Nat /\ Len(Front(scopes)) = Len(scopes) - 1
      /\ \A k \in 1..Len(scopes) - 1 : Front(scopes)[k] = scopes[k]
  BY Parts DEF FlowInv, FlowTypes, Ctx
<1> DEFINE base == Front(stack)
           f == Frame
           low == Front(scopes)
           top == Ctx
<1>4. ASSUME NEW fut \in Seq(BOOLEAN)
      PROVE  /\ Len(low) \in Nat \ {0}
             /\ \E r : /\ Leads(base, low, RoundEnd(Rounds, f.step, f.items, f.i, Bare(Last(low)), Now(fut)), r)
                      /\ r.out = Meaning(flow, 1, Start(coins \o fut)).out
  <2>1. PICK r : Leads(stack, scopes, Now(fut), r) /\ r.out = Meaning(flow, 1, Start(coins \o fut)).out
    BY DEF FlowInv
  <2>2. /\ base \in Seq(Frames) /\ f \in LoopFrames /\ low \in Seq(Contexts) /\ top \in Contexts
        /\ stack = Append(base, f) /\ scopes = Append(low, top)
    BY <1>1, <1>2, <1>3
  <2> HIDE DEF base, f, low, top
  <2>3. Leads(Append(base, f), Append(low, top), Now(fut), r)
    BY <2>1, <2>2
  <2> QED
    BY <2>1, <2>2, <2>3, PopLoop
<1>5. Len(low) \in Nat \ {0}
  <2>1. <<>> \in Seq(BOOLEAN)
    OBVIOUS
  <2> QED
    BY <1>4, <2>1
<1>6. low # <<>>
  <2> HIDE DEF low
  <2> QED
    BY <1>5
<1>7. Last(low) = Outer
  <2>1. Last(low) = low[Len(low)] /\ Len(low) = Len(scopes) - 1
    BY <1>3 DEF Last
  <2> QED
    BY <1>3, <1>5, <2>1 DEF Outer
<1>8. low = Append(Rest, Outer) /\ Rest \in Seq(Contexts) /\ Outer \in Contexts
  <2> HIDE DEF low
  <2>1. low \in Seq(Contexts)
    BY <1>3 DEF low
  <2>2. Front(low) \in Seq(Contexts) /\ Last(low) \in Contexts /\ low = Append(Front(low), Last(low))
    BY <1>6, <2>1, Parts
  <2> QED
    BY <1>7, <2>2 DEF low, Rest
<1>9. /\ ~Outer.brk /\ ~Outer.cont
      /\ \A k \in 1..Len(scopes) - 1 : ~low[k].brk /\ ~low[k].cont
  <2>1. \A k \in 1..Len(scopes) - 1 : ~scopes[k].brk /\ ~scopes[k].cont
    BY DEF FlowInv, FlowTypes
  <2> QED
    BY <1>3, <1>5, <2>1 DEF Outer
<1> QED
  BY <1>1, <1>2, <1>3, <1>4, <1>6, <1>7, <1>8, <1>9

\* The end of a round is the end of the loop, flags and all, or the next round.
LEMMA RoundKeeps == ASSUME Unfolds, FlowInv, Round PROVE FlowInv'
<1> DEFINE base == Front(stack)
           low == Front(scopes)
           st == Frame.step
           items == Frame.items
           i == Frame.i
           Anew(fut) == Is1(Outer, shared, fut, out)
<1>1. /\ base \in Seq(Frames) /\ Frame \in LoopFrames /\ low = Append(Rest, Outer) /\ Rest \in Seq(Contexts)
      /\ Outer \in Contexts /\ low \in Seq(Contexts) /\ low # <<>> /\ Last(low) = Outer /\ ~Outer.brk /\ ~Outer.cont
      /\ Ctx \in Contexts /\ Len(low) = Len(scopes) - 1 /\ Len(scopes) \in Nat
      /\ \A k \in 1..Len(scopes) - 1 : ~low[k].brk /\ ~low[k].cont
  BY RoundFacts DEF Round
<1>2. /\ flow \in Bodies /\ shared \in Commons /\ coins \in Seq(BOOLEAN)
      /\ flow' = flow /\ coins' = coins /\ out' = out
  BY DEF FlowInv, FlowTypes, Round
<1>3. st \in LoopSteps /\ items \in Seq(ItemsOf(st)) /\ items \in Seq(Ads \cup Words) /\ i \in Nat \ {0} /\ i <= Len(items)
  BY <1>1 DEF LoopFrames
<1>4. ASSUME NEW fut \in Seq(BOOLEAN)
      PROVE  \E r : /\ Leads(base, low, RoundEnd(Rounds, st, items, i, Bare(Outer), Now(fut)), r)
                   /\ r.out = Meaning(flow, 1, Start(coins \o fut)).out
  BY RoundFacts DEF Round
<1>5. ASSUME NEW fut
      PROVE  RoundEnd(Rounds, st, items, i, Bare(Outer), Now(fut))
               = IF Ctx.brk THEN Anew(fut) ELSE Rounds(st, items, i + 1, Anew(fut))
  <2> DEFINE end == [Now(fut) EXCEPT !.c = Bare(Outer)]
  <2>1. end = [c |-> Bare(Outer), s |-> shared, coins |-> fut, out |-> out, sig |-> Flag(Ctx)]
    BY DEF Now, Is1
  <2>2. end.sig = Flag(Ctx)
    BY <2>1
  <2>3. PICK e : e = end
    OBVIOUS
  <2>4. [e EXCEPT !.sig = "go"] = Anew(fut)
    <3>1. Flag(Outer) = "go"
      BY <1>1 DEF Flag
    <3>2. e = [c |-> Bare(Outer), s |-> shared, coins |-> fut, out |-> out, sig |-> Flag(Ctx)]
      BY <2>1, <2>3
    <3> HIDE DEF end
    <3>3. [e EXCEPT !.sig = "go"] = [c |-> Bare(Outer), s |-> shared, coins |-> fut, out |-> out, sig |-> "go"]
      BY <3>2
    <3> QED
      BY <3>1, <3>3 DEF Is1
  <2>5. [end EXCEPT !.sig = "go"] = Anew(fut)
    BY <2>3, <2>4
  <2>6. /\ Flag(Ctx) \in {"break", "continue", "go"} /\ (Flag(Ctx) = "break" <=> Ctx.brk)
    BY <1>1 DEF Flag, Contexts
  <2>7. RoundEnd(Rounds, st, items, i, Bare(Outer), Now(fut))
          = CASE end.sig = "abort" -> end
              [] end.sig = "break" -> [end EXCEPT !.sig = "go"]
              [] OTHER             -> Rounds(st, items, i + 1, [end EXCEPT !.sig = "go"])
    BY DEF RoundEnd
  <2> HIDE DEF end, st, items, i, Anew
  <2>8. RoundEnd(Rounds, st, items, i, Bare(Outer), Now(fut))
          = CASE end.sig = "abort" -> end
              [] end.sig = "break" -> Anew(fut)
              [] OTHER             -> Rounds(st, items, i + 1, Anew(fut))
    BY <2>5, <2>7
  <2> QED
    BY <2>2, <2>6, <2>8
<1>6. ASSUME NEW fut
      PROVE  Rounds(st, items, i + 1, Anew(fut)) = RoundsText(Meaning, Rounds, st, items, i + 1, Anew(fut))
  <2>1. i + 1 \in Nat
    BY <1>3
  <2> HIDE DEF st, items, i, Anew
  <2> QED
    BY <1>3, <2>1 DEF Unfolds
<1>7. CASE Ctx.brk \/ i = Len(items)
  <2>1. stack' = base /\ scopes' = Append(Rest, [Outer EXCEPT !.brk = FALSE, !.cont = FALSE]) /\ shared' = shared
    BY <1>7 DEF Round
  <2>2. [Outer EXCEPT !.brk = FALSE, !.cont = FALSE] = Outer
    BY <1>1 DEF Contexts
  <2>3. scopes' = low /\ Ctx' = Outer
    BY <1>1, <2>1, <2>2 DEF Ctx
  <2>4. FlowTypes'
    <3> HIDE DEF base, low
    <3>1. \A k \in 1..Len(low) - 1 : ~low[k].brk /\ ~low[k].cont
      BY <1>1
    <3> QED
      BY <1>1, <1>2, <2>1, <2>3, <3>1 DEF FlowTypes
  <2>5. ASSUME NEW fut \in Seq(BOOLEAN)
        PROVE  \E r : Leads(stack', scopes', Now(fut)', r) /\ r.out = Meaning(flow', 1, Start(coins' \o fut)).out
    <3>1. PICK r : /\ Leads(base, low, RoundEnd(Rounds, st, items, i, Bare(Outer), Now(fut)), r)
                   /\ r.out = Meaning(flow, 1, Start(coins \o fut)).out
      BY <1>4
    <3>2. Now(fut)' = Anew(fut)
      BY <1>2, <2>1, <2>3 DEF Now
    <3>3. RoundEnd(Rounds, st, items, i, Bare(Outer), Now(fut)) = Anew(fut)
      <4>1. i = Len(items) => Rounds(st, items, i + 1, Anew(fut)) = Anew(fut)
        <5>1. i = Len(items) => i + 1 > Len(items)
          BY <1>3
        <5> HIDE DEF st, items, i, Anew
        <5> QED
          BY <1>6, <5>1 DEF RoundsText
      <4> QED
        BY <1>5, <1>7, <4>1
    <3> QED
      BY <1>2, <2>1, <2>3, <3>1, <3>2, <3>3
  <2> QED
    BY <2>4, <2>5, Lands
<1>8. CASE ~Ctx.brk /\ i # Len(items)
  <2> DEFINE item == items[i + 1]
             c == Child(Outer, st, item)
             g == [Frame EXCEPT !.i = @ + 1]
             f == Steps(st.body)
  <2>1. item \in ItemsOf(st) /\ i + 1 \in Nat \ {0} /\ i + 1 <= Len(items) /\ Len(items) \in Nat
    BY <1>3, <1>8
  <2>2. /\ stack' = Append(base, g) \o <<f>> /\ scopes' = Rest \o <<Outer, c>> /\ shared' = Named(st, item)
    BY <1>8 DEF Round
  <2>3. f \in StepFrames /\ f.steps = st.body /\ f.i = 1
    <3>1. st.body \in Bodies
      BY <1>3, BodiesAssumption DEF Well, LoopSteps
    <3> QED
      BY <3>1 DEF Steps, StepFrames
  <2>4. g \in LoopFrames /\ g.step = st /\ g.items = items /\ g.i = i + 1
    BY <1>1, <2>1 DEF LoopFrames
  <2>5. /\ c \in Contexts /\ shared' \in Commons
        /\ \A fut : Is1(c, shared', fut, out) = Bound(st, item, Anew(fut))
    BY <1>1, <1>2, <1>3, <2>1, <2>2, Binds
  <2>6. scopes' = Append(low, c)
    <3> HIDE DEF c, low
    <3>1. <<Outer, c>> = <<Outer>> \o <<c>> /\ <<Outer>> \in Seq(Contexts) /\ <<c>> \in Seq(Contexts)
      BY <1>1, <2>5, AppendIsConcat
    <3>2. Rest \o (<<Outer>> \o <<c>>) = (Rest \o <<Outer>>) \o <<c>>
      BY <1>1, <3>1, ConcatAssociative
    <3>3. low = Rest \o <<Outer>>
      BY <1>1, AppendIsConcat
    <3>4. Append(low, c) = low \o <<c>>
      BY <1>1, <2>5, AppendIsConcat
    <3> QED
      BY <2>2, <3>1, <3>2, <3>3, <3>4
  <2> HIDE DEF c, f, g, base
  <2>7. stack' = Append(Append(base, g), f) /\ Append(base, g) \in Seq(Frames) /\ stack' \in Seq(Frames)
    <3>1. g \in Frames /\ f \in Frames
      BY <2>3, <2>4, FrameFacts
    <3>2. Append(base, g) \o <<f>> = Append(Append(base, g), f) /\ Append(base, g) \in Seq(Frames)
      BY <1>1, <3>1, Calling
    <3> QED
      BY <2>2, <3>1, <3>2
  <2>8. Ctx' = c /\ FlowTypes'
    <3> HIDE DEF low
    <3>1. Append(low, c) \in Seq(Contexts) /\ Len(Append(low, c)) = Len(low) + 1
      BY <1>1, <2>5, AppendProperties
    <3>2. Len(low) \in Nat /\ \A k \in 1..Len(low) : Append(low, c)[k] = low[k]
      BY <1>1, <2>5
    <3>3. Append(low, c)[Len(low) + 1] = c /\ Append(low, c) # <<>>
      BY <1>1, <2>5, <3>1, AppendProperties
    <3>4. \A k \in 1..Len(low) : ~low[k].brk /\ ~low[k].cont
      BY <1>1
    <3>5. \A k \in 1..Len(scopes') - 1 : ~scopes'[k].brk /\ ~scopes'[k].cont
      BY <2>6, <3>1, <3>2, <3>4
    <3>6. Ctx' = c
      BY <2>6, <3>1, <3>3 DEF Ctx, Last
    <3> QED
      BY <1>2, <2>5, <2>6, <2>7, <3>1, <3>3, <3>5, <3>6 DEF FlowTypes
  <2>9. ASSUME NEW fut \in Seq(BOOLEAN)
        PROVE  \E r : Leads(stack', scopes', Now(fut)', r) /\ r.out = Meaning(flow', 1, Start(coins' \o fut)).out
    <3> DEFINE inside == Meaning(st.body, 1, Bound(st, item, Anew(fut)))
               all == RoundEnd(Rounds, st, items, i + 1, Bare(Outer), inside)
    <3>1. PICK r : /\ Leads(base, low, RoundEnd(Rounds, st, items, i, Bare(Outer), Now(fut)), r)
                   /\ r.out = Meaning(flow, 1, Start(coins \o fut)).out
      BY <1>4
    <3>2. RoundEnd(Rounds, st, items, i, Bare(Outer), Now(fut)) = all
      <4>1. Anew(fut).c = Bare(Outer)
        BY DEF Is1
      <4>2. ~(i + 1 > Len(items))
        BY <2>1
      <4>3. RoundsText(Meaning, Rounds, st, items, i + 1, Anew(fut)) = all
        BY <4>1, <4>2 DEF RoundsText
      <4> HIDE DEF all, Anew, st, items, i
      <4> QED
        BY <1>5, <1>6, <1>8, <4>3
    <3> HIDE DEF inside, all, low
    <3>3. Leads(base, low, RoundEnd(Rounds, g.step, g.items, g.i, Bare(Last(low)), inside), r)
      <4>1. Leads(base, low, all, r)
        BY <3>1, <3>2
      <4> HIDE DEF st, items, i
      <4> QED
        BY <1>1, <2>4, <4>1 DEF all
    <3>4. Leads(Append(base, g), Append(low, c), inside, r)
      BY <1>1, <2>4, <2>5, <3>3, PushLoop
    <3>5. inside = Meaning(f.steps, f.i, Now(fut)')
      BY <1>2, <2>3, <2>5, <2>8 DEF Now, inside
    <3>6. Leads(stack', scopes', Now(fut)', r)
      BY <2>3, <2>6, <2>7, <2>8, <3>4, <3>5, PushSteps DEF FlowTypes
    <3> QED
      BY <1>2, <3>1, <3>6
  <2> QED
    BY <2>8, <2>9, Lands
<1> QED
  BY <1>7, <1>8

\* A click whose exception ends the flow drops every call at once.
LEMMA ClickAborts ==
  ASSUME Unfolds, FlowInv, Click, Ctx.ad # None /\ Wanted(Step, Ctx.ad) /\ Step.abort
  PROVE  FlowInv'
<1>1. /\ Ctx \in Contexts /\ FlowTypes /\ Tosses(TRUE) /\ AtStep /\ Step.op = "click" /\ ~Ctx.brk /\ ~Ctx.cont
      /\ \A s : Makes(TRUE, s) = Basic(Step, s)
  BY ScopeFacts, Doing DEF Click, FlowInv, Done, Does, AtStep
<1>2. stack' = <<>> /\ scopes' = scopes /\ shared' = shared /\ flow' = flow /\ out' = Append(out, Clicked(Ctx.ad))
  BY DEF Click
<1> DEFINE fut == <<>>
           end == [Now(fut) EXCEPT !.out = out', !.sig = "abort"]
<1>3. fut \in Seq(BOOLEAN)
  OBVIOUS
<1>4. Basic(Step, Now(fut)) = end
  <2>1. Now(fut).c.ad = Ctx.ad /\ Now(fut).out = out
    BY SameValue
  <2> QED
    BY <1>1, <1>2, <2>1 DEF Basic
<1>5. end = [c |-> Bare(Ctx), s |-> shared, coins |-> fut, out |-> out', sig |-> "abort"]
  <2> DEFINE o == out'
  <2>1. PICK z : z = [Now(fut) EXCEPT !.out = o]
    OBVIOUS
  <2>2. z = [c |-> Bare(Ctx), s |-> shared, coins |-> fut, out |-> o, sig |-> Flag(Ctx)]
    BY <2>1 DEF Now, Is1
  <2>3. [z EXCEPT !.sig = "abort"] = [c |-> Bare(Ctx), s |-> shared, coins |-> fut, out |-> o, sig |-> "abort"]
    BY <2>2
  <2> QED
    BY <2>1, <2>3
<1>6. coins' \in Seq(BOOLEAN)
  BY <1>1, <1>3, Onward
<1> HIDE DEF fut
<1>7. PICK r : /\ Leads(Front(stack), scopes, Meaning(Frame.steps, Frame.i + 1, end), r)
               /\ r.out = Meaning(flow, 1, Start(coins' \o fut)).out
  <2>1. PICK r : /\ Leads(Front(stack), scopes, Meaning(Frame.steps, Frame.i + 1, Makes(TRUE, Now(fut))), r)
                 /\ r.out = Meaning(flow, 1, Start(coins' \o fut)).out
    BY <1>1, <1>3, Onward
  <2> HIDE DEF end
  <2> QED
    BY <1>1, <1>4, <2>1
<1> HIDE DEF end
<1>8. {"c", "out", "sig"} \subseteq DOMAIN end /\ end.sig = "abort" /\ end.out = out'
  BY <1>5
<1>9. Meaning(Frame.steps, Frame.i + 1, end) = end
  <2>1. Frame.steps \in Bodies /\ Frame.i + 1 \in Nat
    BY <1>1, StepFacts
  <2> QED
    BY <1>8, <2>1 DEF Unfolds, StepsText
<1>10. r.out = out'
  <2>1. Front(stack) \in Seq(Frames) /\ Leads(Front(stack), scopes, end, r)
    BY <1>1, <1>7, <1>9, StepFacts
  <2> QED
    BY <1>8, <2>1, Aborted
<1>11. Start(coins' \o fut) = Begin'
  <2>1. coins' \o fut = coins'
    BY <1>6, ConcatEmptySeq DEF fut
  <2> QED
    BY <2>1 DEF Start, Begin
<1>12. FlowTypes'
  BY <1>1, <1>2, <1>6 DEF FlowTypes
<1> QED
  BY <1>2, <1>7, <1>10, <1>11, <1>12 DEF FlowInv, FlowFollowsText

\* At first the flow is all there is to do.
LEMMA FlowStarts == ASSUME FlowInit, Unfolds PROVE FlowInv
<1> DEFINE f == Steps(flow)
<1>1. flow \in Bodies
  BY BodiesAssumption DEF FlowInit
<1>2. f \in StepFrames /\ f.steps = flow /\ f.i = 1 /\ stack = <<f>>
  BY <1>1 DEF Steps, StepFrames, FlowInit
<1>3. Root \in Contexts /\ scopes = <<Root>> /\ Root.brk = FALSE /\ Root.cont = FALSE
  BY DEF Root, Contexts, FlowInit
<1>4. shared \in Commons /\ coins = <<>> /\ out = <<>>
  BY DEF Commons, FlowInit
<1>5. FlowTypes
  <2> HIDE DEF f
  <2>1. f \in Frames
    BY <1>2, FrameFacts
  <2> QED
    BY <1>1, <1>2, <1>3, <1>4, <2>1 DEF FlowTypes
<1>6. ASSUME NEW fut \in Seq(BOOLEAN)
      PROVE  \E r : Leads(stack, scopes, Now(fut), r) /\ r.out = Meaning(flow, 1, Start(coins \o fut)).out
  <2>1. coins \o fut = fut
    BY <1>4, ConcatEmptySeq
  <2>2. Now(fut) = Start(fut)
    <3>1. Ctx = Root
      BY <1>3 DEF Ctx, Last
    <3> QED
      BY <3>1 DEF Now, Is1, Bare, Flag, Root, Start, FlowInit
  <2> HIDE DEF f
  <2>3. Leads(<<>>, <<Root>>, Meaning(f.steps, f.i, Now(fut)), Meaning(f.steps, f.i, Now(fut)))
    BY AtFirst
  <2>4. /\ <<>> \in Seq(Frames) /\ <<Root>> \in Seq(Contexts) /\ stack = Append(<<>>, f)
    BY <1>2, <1>3
  <2>5. Leads(stack, scopes, Now(fut), Meaning(f.steps, f.i, Now(fut)))
    BY <1>2, <1>3, <2>3, <2>4, PushSteps
  <2> QED
    BY <1>2, <2>1, <2>2, <2>5
<1>7. stack # <<>>
  BY <1>2
<1> QED
  BY <1>5, <1>6, <1>7 DEF FlowInv

(* Whatever the flow, the executor is in a state that leads to the result    *)
(* of the flow's text, with only the innermost scope's flags up.             *)
THEOREM FlowInvariant == ASSUME Unfolds PROVE FlowSpec => []FlowInv
<1>1. FlowInit => FlowInv
  BY FlowStarts
<1>2. FlowInv /\ [FlowNext]_flowVars => FlowInv'
  <2> SUFFICES ASSUME FlowInv, [FlowNext]_flowVars PROVE FlowInv'
    OBVIOUS
  <2>1. CASE Skip
    BY <2>1, SkipKeeps
  <2>2. CASE If
    BY <2>2, IfKeeps
  <2>3. CASE Signal
    BY <2>3, SignalKeeps
  <2>4. CASE EachAd
    BY <2>4, EachAdKeeps
  <2>5. CASE Each
    BY <2>5, EachKeeps
  <2>6. CASE Return
    BY <2>6, ReturnKeeps
  <2>7. CASE Round
    BY <2>7, RoundKeeps
  <2>8. CASE Search
    BY <2>8, SearchKeeps
  <2>9. CASE SearchAll
    BY <2>9, SearchAllKeeps
  <2>10. CASE Catch
    BY <2>10, CatchKeeps
  <2>11. CASE Save
    BY <2>11, SaveKeeps
  <2>12. CASE Click
    <3>1. CASE Ctx.ad # None /\ Wanted(Step, Ctx.ad) /\ Step.abort
      BY <2>12, <3>1, ClickAborts
    <3>2. CASE ~(Ctx.ad # None /\ Wanted(Step, Ctx.ad) /\ Step.abort)
      <4>1. Call(<<>>)
        BY <2>12, <3>2 DEF Click
      <4> QED
        BY <2>12, <3>2, <4>1, ClickKeeps
    <3> QED
      BY <3>1, <3>2
  <2>13. CASE UNCHANGED flowVars
    <3>1. FlowTypes' = FlowTypes /\ Ctx' = Ctx
      BY <2>13 DEF flowVars, FlowTypes, Ctx
    <3>2. \A fut : Now(fut)' = Now(fut)
      BY <2>13, <3>1 DEF flowVars, Now
    <3>3. FlowFollowsText' = FlowFollowsText
      BY <2>13 DEF flowVars, FlowFollowsText, Begin
    <3> QED
      BY <2>13, <3>1, <3>2, <3>3 DEF FlowInv, flowVars
  <2> QED
    BY <2>1, <2>2, <2>3, <2>4, <2>5, <2>6, <2>7, <2>8, <2>9, <2>10, <2>11, <2>12, <2>13 DEF FlowNext
<1> QED
  BY <1>1, <1>2, PTL DEF FlowSpec

(* A flow that is over has made the searches and clicks of its text, in that *)
(* order: for any flows, ads, queries and gates, with any nesting of loops,  *)
(* branches, breaks and continues.  Unfolds only says what the words Meaning *)
(* and Rounds mean.                                                          *)
THEOREM FlowReads == ASSUME Unfolds PROVE FlowSpec => []FlowFollowsText
<1>1. FlowInv => FlowFollowsText
  BY DEF FlowInv, FlowFollowsText
<1> QED
  BY <1>1, FlowInvariant, PTL
-----------------------------------------------------------------------------
(* The migration.                                                            *)
(* The old script and the flow made from it are lists that correspond part   *)
(* by part: a search and the loop over its ads, a loop and its rounds.  Each *)
(* part of the flow, from a state in which the old placeholders and the      *)
(* flow's bindings name the same words (InMain and InBody), makes the        *)
(* searches and clicks of the old step and leaves such a state.              *)

\* h[k] is the first k sequences of ss after each other.
Flattens(ss, h, S) == /\ h \in [0..Len(ss) -> Seq(S)] /\ h[0] = <<>>
                      /\ \A k \in 0..Len(ss)-1 : h[k+1] = h[k] \o ss[k+1]

\* The same, with the types, step by step.
Heads(ss, h, n, S) ==
  /\ n \in Nat /\ h[0] = <<>>
  /\ \A k \in 0..n : h[k] \in Seq(S)
  /\ \A k \in 0..n : Len(h[k]) \in Nat
  /\ \A k \in 0..n-1 : k + 1 \in 0..n /\ k \in 0..n
  /\ \A k \in 0..n-1 : ss[k+1] \in Seq(S)
  /\ \A k \in 0..n-1 : Len(ss[k+1]) \in Nat
  /\ \A k \in 0..n-1 : h[k+1] = h[k] \o ss[k+1]
\* Where each sequence of ss is in all of them.
Positions(ss, h, n) ==
  \A k \in 0..n-1 : /\ Len(h[k+1]) = Len(h[k]) + Len(ss[k+1])
                    /\ Len(h[k+1]) <= Len(h[n])
                    /\ \A j \in 1..Len(ss[k+1]) : h[n][Len(h[k]) + j] = ss[k+1][j]

\* Such an h has these types.
LEMMA FlattenStep ==
  ASSUME NEW S, NEW ss \in Seq(Seq(S)), NEW h, Flattens(ss, h, S), NEW n, n = Len(ss)
  PROVE  Heads(ss, h, n, S)
<1>1. n \in Nat /\ \A k \in 1..n : ss[k] \in Seq(S)
  OBVIOUS
<1>2. \A k \in 0..n-1 : k + 1 \in 1..n
  BY <1>1
<1>3. \A k \in 0..n-1 : ss[k+1] \in Seq(S)
  BY <1>1, <1>2
<1>4. \A k \in 0..n : h[k] \in Seq(S)
  BY DEF Flattens
<1>5. /\ \A k \in 0..n : Len(h[k]) \in Nat
      /\ \A k \in 0..n-1 : Len(ss[k+1]) \in Nat
  BY <1>3, <1>4, LenProperties
<1>6. h[0] = <<>> /\ \A k \in 0..n-1 : h[k+1] = h[k] \o ss[k+1]
  BY DEF Flattens
<1>7. \A k \in 0..n-1 : k + 1 \in 0..n /\ k \in 0..n
  BY <1>1
<1> QED
  BY <1>1, <1>3, <1>4, <1>5, <1>6, <1>7, Zenon DEF Heads

\* FlattenSeq is the last of h ...
LEMMA FlattenIs ==
  ASSUME NEW S, NEW ss \in Seq(Seq(S)), NEW h, Flattens(ss, h, S)
  PROVE  FlattenSeq(ss) = h[Len(ss)]
<1>1. PICK n : n = Len(ss)
  OBVIOUS
<1>2. n \in Nat /\ h[0] = <<>> /\ (\A k \in 0..n-1 : ss[k+1] \in Seq(S)) /\ \A k \in 0..n-1 : h[k+1] = h[k] \o ss[k+1]
  <2>1. Heads(ss, h, n, S)
    BY <1>1, FlattenStep
  <2> QED
    BY <2>1 DEF Heads
<1>3. CASE n = 0
  <2>1. ss = <<>>
    BY <1>1, <1>3, EmptySeq
  <2> QED
    BY <1>1, <1>3, <1>2, <2>1 DEF FlattenSeq
<1>4. CASE n # 0
  <2> DEFINE Text(f) == f = [i \in 1..n |-> IF i = 1 THEN ss[i] ELSE f[i-1] \o ss[i]]
  <2>1. h[1] = ss[1]
    <3>1. 0 \in 0..n-1 /\ 0 + 1 = 1
      BY <1>2, <1>4
    <3>2. h[0+1] = h[0] \o ss[0+1] /\ ss[0+1] \in Seq(S)
      BY <1>2, <3>1, Zenon
    <3>3. h[1] = <<>> \o ss[1] /\ ss[1] \in Seq(S)
      BY <3>1, <3>2, <1>2, Zenon
    <3>4. <<>> \o ss[1] = ss[1]
      BY <3>3, ConcatEmptySeq
    <3> QED
      BY <3>3, <3>4
  <2>2. PICK hh : hh = [i \in 1..n |-> h[i]]
    OBVIOUS
  <2>3. \A i \in 1..n : hh[i] = IF i = 1 THEN ss[i] ELSE hh[i-1] \o ss[i]
    <3>1. ASSUME NEW i \in 1..n, i # 1 PROVE hh[i] = hh[i-1] \o ss[i]
      <4>1. i - 1 \in 0..n-1 /\ i - 1 \in 1..n /\ (i - 1) + 1 = i
        BY <1>2, <3>1
      <4>2. h[(i-1)+1] = h[i-1] \o ss[(i-1)+1]
        BY <4>1, <1>2
      <4> QED
        BY <4>1, <4>2, <2>2
    <3> QED
      BY <3>1, <2>1, <2>2
  <2>4. Text(hh)
    BY <2>2, <2>3
  <2>5. ASSUME NEW f, Text(f) PROVE f = hh
    <3>1. PICK F : F = [i \in 1..n |-> IF i = 1 THEN ss[i] ELSE f[i-1] \o ss[i]]
      OBVIOUS
    <3>2. f = F
      BY <2>5, <3>1
    <3>3. \A i \in 1..n : f[i] = IF i = 1 THEN ss[i] ELSE f[i-1] \o ss[i]
      BY <3>1, <3>2
    <3> DEFINE G == {k \in 0..n : k = 0 \/ f[k] = h[k]}
    <3>4. 0 \in G
      BY <1>2
    <3>5. ASSUME NEW k \in 0..n-1, k \in G PROVE k + 1 \in G
      <4>1. k + 1 \in 1..n /\ (k + 1) - 1 = k /\ k + 1 \in 0..n
        BY <1>2
      <4>2. h[k+1] = h[k] \o ss[k+1]
        BY <1>2
      <4>3. PICK m : m = k + 1
        OBVIOUS
      <4>4. m \in 1..n /\ m - 1 = k /\ h[m] = h[k] \o ss[m] /\ m \in 0..n
        BY <4>1, <4>2, <4>3, Zenon
      <4>5. f[m] = IF m = 1 THEN ss[m] ELSE f[m-1] \o ss[m]
        BY <4>4, <3>3
      <4>6. f[m] = h[m]
        <5>1. CASE k = 0
          <6>1. m = 1
            BY <4>3, <5>1
          <6> QED
            BY <6>1, <4>5, <2>1
        <5>2. CASE k # 0
          <6>1. f[k] = h[k]
            BY <3>5, <5>2
          <6>2. m # 1
            BY <4>3, <5>2
          <6>3. f[m] = f[k] \o ss[m]
            BY <4>5, <4>4, <6>2, Zenon
          <6> QED
            BY <6>1, <6>3, <4>4
        <5> QED
          BY <5>1, <5>2
      <4>7. m \in G
        BY <4>4, <4>6
      <4> HIDE DEF G
      <4> QED
        BY <4>3, <4>7
    <3>6. \A k \in 0..n : k \in G
      <4> HIDE DEF G
      <4> QED
        BY <3>4, <3>5, <1>2, Upto
    <3>7. \A i \in 1..n : f[i] = hh[i]
      BY <3>6, <1>2, <2>2
    <3>8. F = [i \in 1..n |-> F[i]] /\ hh = [i \in 1..n |-> hh[i]]
      BY <3>1, <2>2
    <3>9. \A i \in 1..n : F[i] = hh[i]
      BY <3>2, <3>7
    <3>10. F = hh
      BY <3>8, <3>9
    <3> QED
      BY <3>2, <3>10
  <2>6. FlattenSeq(ss) = (CHOOSE f : Text(f))[n]
    BY <1>1, <1>4 DEF FlattenSeq
  <2>7. (CHOOSE f : Text(f)) = hh
    <3> HIDE DEF Text
    <3> QED
      BY <2>4, <2>5
  <2>8. hh[n] = h[n]
    BY <2>2, <1>2, <1>4
  <2> HIDE DEF Text
  <2> QED
    BY <1>1, <2>6, <2>7, <2>8
<1> QED
  BY <1>3, <1>4

\* ... and there is such an h.
LEMMA FlattenHas ==
  ASSUME NEW S, NEW ss \in Seq(Seq(S))
  PROVE  \E h : Flattens(ss, h, S)
<1> DEFINE Has(h, k) == /\ h \in [0..k -> Seq(S)] /\ h[0] = <<>>
                        /\ \A j \in 0..k-1 : h[j+1] = h[j] \o ss[j+1]
<1>0. PICK n : n = Len(ss)
  OBVIOUS
<1> DEFINE G == {k \in 0..n : \E h : Has(h, k)}
<1>1. n \in Nat /\ \A k \in 1..n : ss[k] \in Seq(S)
  BY <1>0
<1>2. 0 \in G
  <2>1. PICK h : h = [k \in 0..0 |-> <<>>]
    OBVIOUS
  <2>2. Has(h, 0)
    BY <2>1
  <2> HIDE DEF Has
  <2> QED
    BY <2>2, <1>1
<1>3. ASSUME NEW k \in 0..n-1, k \in G PROVE k + 1 \in G
  <2>1. PICK h : Has(h, k)
    BY <1>3
  <2>2. PICK x : x = h[k] \o ss[k+1]
    OBVIOUS
  <2>3. x \in Seq(S)
    <3>1. h[k] \in Seq(S) /\ ss[k+1] \in Seq(S)
      BY <1>1, <2>1
    <3> QED
      BY <2>2, <3>1, ConcatProperties
  <2>4. PICK g : g = [j \in 0..k+1 |-> IF j = k + 1 THEN x ELSE h[j]]
    OBVIOUS
  <2>5. g[k+1] = x /\ \A j \in 0..k : g[j] = h[j]
    BY <2>4
  <2>6. g \in [0..k+1 -> Seq(S)]
    BY <2>1, <2>3, <2>4
  <2>7. ASSUME NEW j \in 0..k PROVE g[j+1] = g[j] \o ss[j+1]
    <3>1. CASE j = k
      BY <3>1, <2>2, <2>5
    <3>2. CASE j # k
      <4>1. j \in 0..k-1 /\ j + 1 \in 0..k
        BY <3>2
      <4>2. h[j+1] = h[j] \o ss[j+1]
        BY <2>1, <4>1
      <4>3. g[j+1] = h[j+1] /\ g[j] = h[j]
        BY <4>1, <2>5
      <4> QED
        BY <4>2, <4>3
    <3> QED
      BY <3>1, <3>2
  <2>8. g[0] = <<>>
    BY <2>1, <2>5
  <2>9. (k + 1) - 1 = k
    OBVIOUS
  <2>10. Has(g, k + 1)
    BY <2>6, <2>7, <2>8, <2>9, Zenon
  <2> HIDE DEF Has
  <2> QED
    BY <2>10, <1>1
<1>4. n \in G
  <2> HIDE DEF G
  <2>1. \A k \in 0..n : k \in G
    BY <1>1, <1>2, <1>3, Upto
  <2> QED
    BY <1>1, <2>1
<1>5. PICK h : Has(h, n)
  BY <1>4
<1> QED
  BY <1>0, <1>5 DEF Flattens

\* What comes after the first k sequences in all of them.
LEMMA FlattenAt ==
  ASSUME NEW S, NEW ss \in Seq(Seq(S)), NEW h, Flattens(ss, h, S), NEW n, n = Len(ss)
  PROVE  Positions(ss, h, n)
<1>2. /\ n \in Nat /\ \A k \in 0..n : h[k] \in Seq(S) /\ Len(h[k]) \in Nat
      /\ \A k \in 0..n-1 : ss[k+1] \in Seq(S) /\ h[k+1] = h[k] \o ss[k+1]
  <2>1. Heads(ss, h, n, S)
    BY FlattenStep
  <2> QED
    BY <2>1, Zenon DEF Heads
<1>3. ASSUME NEW k \in 0..n-1
      PROVE  /\ Len(h[k+1]) = Len(h[k]) + Len(ss[k+1]) /\ Len(h[k]) \in Nat /\ Len(ss[k+1]) \in Nat
             /\ \A j \in 1..Len(h[k]) : h[k+1][j] = h[k][j]
             /\ \A j \in 1..Len(ss[k+1]) : h[k+1][Len(h[k]) + j] = ss[k+1][j]
  <2>1. k \in 0..n
    BY <1>2
  <2>2. PICK p : p = h[k]
    OBVIOUS
  <2>3. PICK q : q = ss[k+1]
    OBVIOUS
  <2>4. p \in Seq(S) /\ q \in Seq(S) /\ h[k+1] = p \o q
    BY <1>2, <2>1, <2>2, <2>3
  <2>5. /\ Len(p \o q) = Len(p) + Len(q) /\ Len(p) \in Nat /\ Len(q) \in Nat
        /\ \A i \in 1..Len(p) + Len(q) : (p \o q)[i] = IF i <= Len(p) THEN p[i] ELSE q[i - Len(p)]
    BY <2>4, ConcatProperties, LenProperties
  <2>6. ASSUME NEW j \in 1..Len(q) PROVE (p \o q)[Len(p) + j] = q[j]
    <3>1. Len(p) + j \in 1..Len(p) + Len(q) /\ ~(Len(p) + j <= Len(p)) /\ (Len(p) + j) - Len(p) = j
      BY <2>5
    <3> QED
      BY <3>1, <2>5
  <2>7. ASSUME NEW j \in 1..Len(p) PROVE (p \o q)[j] = p[j]
    <3>1. j \in 1..Len(p) + Len(q) /\ j <= Len(p)
      BY <2>5
    <3> QED
      BY <3>1, <2>5
  <2>8. PICK r : r = p \o q
    OBVIOUS
  <2> QED
    BY <2>2, <2>3, <2>4, <2>5, <2>6, <2>7, <2>8, Zenon
<1>4. ASSUME NEW k \in 0..n
      PROVE  /\ Len(h[k]) <= Len(h[n])
             /\ \A j \in 1..Len(h[k]) : h[n][j] = h[k][j]
  <2> DEFINE G == {d \in 0..n-k : /\ Len(h[k]) <= Len(h[k+d])
                                  /\ \A j \in 1..Len(h[k]) : h[k+d][j] = h[k][j]}
  <2>1. 0 \in G /\ n - k \in Nat
    BY <1>2
  <2>2. ASSUME NEW d \in 0..(n-k)-1, d \in G PROVE d + 1 \in G
    <3>1. PICK e : e = k + d
      OBVIOUS
    <3>2. e \in 0..n-1 /\ e + 1 = k + (d + 1) /\ d + 1 \in 0..n-k /\ e \in 0..n /\ e + 1 \in 0..n
      BY <1>2, <3>1
    <3>3. Len(h[k]) <= Len(h[e]) /\ (\A j \in 1..Len(h[k]) : h[e][j] = h[k][j]) /\ Len(h[k]) \in Nat
      BY <2>2, <1>2, <3>1
    <3>4. PICK a, b, c : a = h[k] /\ b = h[e] /\ c = h[e+1]
      OBVIOUS
    <3>5. /\ Len(c) = Len(b) + Len(ss[e+1]) /\ Len(b) \in Nat /\ Len(ss[e+1]) \in Nat
          /\ \A j \in 1..Len(b) : c[j] = b[j]
      BY <1>3, <3>2, <3>4
    <3>6. Len(a) <= Len(b) /\ (\A j \in 1..Len(a) : b[j] = a[j]) /\ Len(a) \in Nat
      BY <3>3, <3>4
    <3>7. PICK la, lb, ls : la = Len(a) /\ lb = Len(b) /\ ls = Len(ss[e+1])
      OBVIOUS
    <3>8. la \in Nat /\ lb \in Nat /\ ls \in Nat /\ la <= lb
      BY <3>5, <3>6, <3>7
    <3>9. Len(a) <= Len(c) /\ \A j \in 1..Len(a) : j \in 1..Len(b)
      <4>1. la <= lb + ls /\ \A j \in 1..la : j \in 1..lb
        BY <3>8
      <4> QED
        BY <4>1, <3>5, <3>7
    <3>10. \A j \in 1..Len(a) : c[j] = a[j]
      BY <3>5, <3>6, <3>9
    <3>11. Len(h[k]) <= Len(h[k + (d + 1)]) /\ \A j \in 1..Len(h[k]) : h[k + (d + 1)][j] = h[k][j]
      BY <3>2, <3>4, <3>9, <3>10, Zenon
    <3> QED
      BY <3>2, <3>11
  <2>3. n - k \in G
    <3> HIDE DEF G
    <3>1. \A d \in 0..n-k : d \in G
      BY <2>1, <2>2, Upto
    <3> QED
      BY <3>1, <2>1
  <2>4. k + (n - k) = n
    BY <1>2
  <2> QED
    BY <2>3, <2>4
<1>5. ASSUME NEW k \in 0..n-1, NEW j \in 1..Len(ss[k+1]) PROVE h[n][Len(h[k]) + j] = ss[k+1][j]
  <2>1. PICK a, c, q : a = h[k] /\ c = h[k+1] /\ q = ss[k+1]
    OBVIOUS
  <2>2. Len(c) = Len(a) + Len(q) /\ Len(a) \in Nat /\ Len(q) \in Nat /\ c[Len(a) + j] = q[j]
    BY <1>3, <2>1
  <2>3. Len(a) + j \in 1..Len(c)
    <3>1. j \in 1..Len(q)
      BY <2>1
    <3> QED
      BY <2>2, <3>1
  <2>4. k + 1 \in 0..n
    BY <1>2
  <2>5. h[n][Len(a) + j] = c[Len(a) + j]
    BY <1>4, <2>1, <2>3, <2>4
  <2> QED
    BY <2>1, <2>2, <2>5
<1>6. \A k \in 0..n-1 : Len(h[k+1]) <= Len(h[n])
  <2>1. \A k \in 0..n-1 : k + 1 \in 0..n
    BY <1>2
  <2> QED
    BY <1>4, <2>1
<1> QED
  BY <1>3, <1>5, <1>6 DEF Positions

\* ss one after the other, when each is empty ...
LEMMA FlattenNone ==
  ASSUME NEW ss \in Seq({<<>>})
  PROVE  FlattenSeq(ss) = <<>>
<1>1. ss \in Seq(Seq({}))
  <2>1. <<>> \in Seq({}) /\ Len(ss) \in Nat
    OBVIOUS
  <2>2. ss \in [1..Len(ss) -> {<<>>}]
    OBVIOUS
  <2>3. PICK T : T = Seq({})
    OBVIOUS
  <2>4. <<>> \in T /\ \A i \in 1..Len(ss) : ss[i] = <<>>
    BY <2>1, <2>2, <2>3
  <2>5. ss = [i \in 1..Len(ss) |-> ss[i]] /\ Len(ss) \in Nat
    OBVIOUS
  <2>6. ss \in Seq(T)
    BY <2>4, <2>5
  <2> QED
    BY <2>3, <2>6
<1>2. PICK h : Flattens(ss, h, {})
  BY <1>1, FlattenHas
<1>3. Len(ss) \in 0..Len(ss)
  BY <1>1
<1>4. h[Len(ss)] \in Seq({})
  BY <1>1, <1>2, <1>3, FlattenStep DEF Heads
<1>5. h[Len(ss)] = <<>>
  BY <1>4
<1> QED
  BY <1>1, <1>2, <1>5, FlattenIs

\* ... or of one element.
LEMMA FlattenOnes ==
  ASSUME NEW S, NEW s \in Seq(S)
  PROVE  FlattenSeq([i \in DOMAIN s |-> <<s[i]>>]) = s
<1>1. PICK n : n = Len(s)
  OBVIOUS
<1>2. n \in Nat /\ DOMAIN s = 1..n /\ \A i \in 1..n : s[i] \in S
  BY <1>1
<1>3. PICK ss : ss = [i \in DOMAIN s |-> <<s[i]>>]
  OBVIOUS
<1>4. ss \in Seq(Seq(S)) /\ Len(ss) = n
  <2>1. \A i \in 1..n : <<s[i]>> \in Seq(S)
    BY <1>2
  <2>2. ss \in [1..n -> Seq(S)]
    BY <1>2, <1>3, <2>1
  <2> QED
    BY <1>2, <2>2
<1>5. PICK h : Flattens(ss, h, S)
  BY <1>4, FlattenHas
<1> DEFINE G == {k \in 0..n : Len(h[k]) = k}
<1>6. /\ \A k \in 0..n-1 : Len(h[k+1]) = Len(h[k]) + Len(ss[k+1])
      /\ \A k \in 0..n-1 : \A j \in 1..Len(ss[k+1]) : h[n][Len(h[k]) + j] = ss[k+1][j]
  <2>1. Positions(ss, h, n)
    BY <1>4, <1>5, FlattenAt
  <2> QED
    BY <2>1, Zenon DEF Positions
<1>8. h[n] \in Seq(S) /\ h[0] = <<>>
  <2>1. n \in 0..n
    BY <1>2
  <2> QED
    BY <1>4, <1>5, <2>1, FlattenStep DEF Heads
<1>9. ASSUME NEW k \in 0..n-1 PROVE Len(ss[k+1]) = 1 /\ ss[k+1][1] = s[k+1] /\ k + 1 \in 0..n
  <2>1. k + 1 \in DOMAIN s /\ k + 1 \in 0..n
    BY <1>2
  <2>2. ss[k+1] = <<s[k+1]>>
    BY <1>3, <2>1
  <2> QED
    BY <2>1, <2>2
<1>10. \A k \in 0..n : k \in G
  <2>1. 0 \in G
    BY <1>2, <1>8
  <2>2. ASSUME NEW k \in 0..n-1, k \in G PROVE k + 1 \in G
    <3>1. Len(h[k+1]) = k + 1
      BY <1>6, <1>9, <2>2
    <3> QED
      BY <3>1, <1>9
  <2> HIDE DEF G
  <2> QED
    BY <1>2, <2>1, <2>2, Upto
<1>11. ASSUME NEW k \in 0..n-1 PROVE h[n][k+1] = s[k+1]
  <2>1. Len(h[k]) = k
    BY <1>10, <1>2
  <2>2. 1 \in 1..Len(ss[k+1])
    BY <1>9
  <2>3. h[n][Len(h[k]) + 1] = ss[k+1][1]
    BY <2>2, <1>6
  <2> QED
    BY <2>1, <2>3, <1>9
<1>12. ASSUME NEW i \in 1..n PROVE h[n][i] = s[i]
  <2>1. PICK k : k = i - 1
    OBVIOUS
  <2>2. k \in 0..n-1 /\ k + 1 = i
    BY <1>2, <2>1
  <2>3. h[n][k+1] = s[k+1]
    BY <2>2, <1>11
  <2> QED
    BY <2>2, <2>3
<1>13. Len(h[n]) = n
  BY <1>10, <1>2
<1>14. h[n] = s
  BY <1>1, <1>2, <1>8, <1>12, <1>13
<1> QED
  BY <1>3, <1>4, <1>5, <1>14, FlattenIs

-----------------------------------------------------------------------------
(* What steps, pipelines and loops make.                                     *)

\* The states of the meaning of a migrated flow: no signal is up.
Events   == ({"search"} \X Words) \cup ({"click"} \X Ads)
Bindings == [ad : Ads \cup {None}, ads : Seq(Ads), item : Words \cup {None}, query : Words \cup {None}]
Going    == [c : Bindings, s : Commons, coins : Seq(BOOLEAN), out : Seq(Events), sig : {"go"}]

\* Where each part of the text makes a state in K[k] one in K[k+1], and does
\* ss[k+1], the whole does ss.  R[k] is what is left of the text makes of a state.
Passes(ss, n, K, R) ==
  /\ ss \in Seq(Seq(Events)) /\ n = Len(ss) /\ K \in [0..n -> SUBSET Going]
  /\ \A k \in 0..n-1 : \A t \in K[k] : \E u \in K[k+1] : u.out = t.out \o ss[k+1] /\ R[k][t] = R[k+1][u]

Arrives(ss, n, K, R, s) == \E u \in K[n] : u.out = s.out \o FlattenSeq(ss) /\ R[0][s] = R[n][u]

\* Events one after the other.
LEMMA Regroup ==
  ASSUME NEW a \in Seq(Events), NEW b \in Seq(Events), NEW c \in Seq(Events)
  PROVE  (a \o b) \o c = a \o (b \o c) /\ a \o b \in Seq(Events) /\ a \o <<>> = a /\ <<>> \o a = a
BY ConcatAssociative, ConcatProperties, ConcatEmptySeq

\* If each part passes, the whole arrives: the induction of every list and loop below.
LEMMA Through ==
  ASSUME NEW ss, NEW n, NEW K, NEW R, Passes(ss, n, K, R), NEW s \in K[0]
  PROVE  Arrives(ss, n, K, R, s)
<1>0. ss \in Seq(Seq(Events)) /\ n = Len(ss) /\ K \in [0..n -> SUBSET Going]
  BY DEF Passes
<1>1. PICK h : Flattens(ss, h, Events)
  BY <1>0, FlattenHas
<1>2. Heads(ss, h, n, Events)
  BY <1>0, <1>1, FlattenStep
<1> DEFINE G == {k \in 0..n : \E u \in K[k] : u.out = s.out \o h[k] /\ R[0][s] = R[k][u]}
<1>3. n \in Nat /\ 0 \in 0..n /\ n \in 0..n
  BY <1>0
<1>4. s \in Going /\ s.out \in Seq(Events)
  BY <1>0, <1>3 DEF Going
<1>5. 0 \in G
  <2>1. s.out = s.out \o h[0]
    BY <1>2, <1>4, ConcatEmptySeq DEF Heads
  <2> QED
    BY <1>3, <2>1
<1>6. ASSUME NEW k \in 0..n-1, k \in G PROVE k + 1 \in G
  <2>1. PICK t \in K[k] : t.out = s.out \o h[k] /\ R[0][s] = R[k][t]
    BY <1>6
  <2>2. PICK u \in K[k+1] : u.out = t.out \o ss[k+1] /\ R[k][t] = R[k+1][u]
    BY <2>1 DEF Passes
  <2>3. /\ h[k] \in Seq(Events) /\ ss[k+1] \in Seq(Events) /\ h[k+1] = h[k] \o ss[k+1] /\ k + 1 \in 0..n
    BY <1>2 DEF Heads
  <2>4. u.out = s.out \o (h[k] \o ss[k+1])
    <3>1. (s.out \o h[k]) \o ss[k+1] = s.out \o (h[k] \o ss[k+1])
      <4>1. PICK a, b, e : a = s.out /\ b = h[k] /\ e = ss[k+1]
        OBVIOUS
      <4>2. a \in Seq(Events) /\ b \in Seq(Events) /\ e \in Seq(Events)
        BY <1>4, <2>3, <4>1
      <4>3. (a \o b) \o e = a \o (b \o e)
        BY <4>2, Regroup
      <4> QED
        BY <4>1, <4>3
    <3> QED
      BY <2>1, <2>2, <3>1
  <2>5. R[0][s] = R[k+1][u]
    BY <2>1, <2>2
  <2> QED
    BY <2>2, <2>3, <2>4, <2>5
<1>7. n \in G
  <2>1. \A k \in 0..n : k \in G
    <3> HIDE DEF G
    <3> QED
      BY <1>3, <1>5, <1>6, Upto
  <2> QED
    BY <1>3, <2>1
<1>8. FlattenSeq(ss) = h[n]
  BY <1>0, <1>1, FlattenIs
<1> QED
  BY <1>7, <1>8 DEF Arrives

\* One step of a list, and its end.
DoneBy(st, s) == Done(Meaning, Rounds, st, s)

LEMMA OneStep ==
  ASSUME Unfolds, NEW b \in Bodies, NEW i \in 1..Len(b), NEW s \in Going
  PROVE  /\ b[i].on = "yes" => Meaning(b, i, s) = Meaning(b, i + 1, DoneBy(b[i], s))
         /\ b[i].on = "no" => Meaning(b, i, s) = Meaning(b, i + 1, s)
<1>1. Len(b) \in Nat /\ i \in Nat /\ ~(i > Len(b))
  BY BodiesAssumption
<1>2. s.sig = "go"
  BY DEF Going
<1>3. Meaning(b, i, s) = StepsText(Meaning, Rounds, b, i, s)
  BY <1>1, Zenon DEF Unfolds
<1> QED
  BY <1>1, <1>2, <1>3 DEF StepsText, DoneBy

\* ... and after the last one nothing happens.
LEMMA NoStep ==
  ASSUME Unfolds, NEW b \in Bodies, NEW s
  PROVE  Meaning(b, Len(b) + 1, s) = s
<1>1. Len(b) \in Nat /\ Len(b) + 1 \in Nat /\ Len(b) + 1 > Len(b)
  BY BodiesAssumption
<1>2. Meaning(b, Len(b) + 1, s) = StepsText(Meaning, Rounds, b, Len(b) + 1, s)
  BY <1>1, Zenon DEF Unfolds
<1> QED
  BY <1>1, <1>2 DEF StepsText

\* The type of sequences put together, and no pipeline at all.
LEMMA FlattenType == ASSUME NEW S, NEW ss \in Seq(Seq(S)) PROVE FlattenSeq(ss) \in Seq(S)
<1>1. PICK h : Flattens(ss, h, S)
  BY FlattenHas
<1>2. PICK n : n = Len(ss)
  OBVIOUS
<1>3. Heads(ss, h, n, S) /\ FlattenSeq(ss) = h[n]
  BY <1>1, <1>2, FlattenStep, FlattenIs
<1> QED
  BY <1>3 DEF Heads

\* An empty pipeline clicks nothing.
LEMMA NoPipeline == ASSUME NEW ad PROVE Pipeline(<<>>, ad) = <<>>
<1>1. PICK f : f = [i \in DOMAIN <<>> |-> IF <<>>[i].on = "yes" /\ Wanted(<<>>[i], ad) THEN <<Clicked(ad)>> ELSE <<>>]
  OBVIOUS
<1>2. f = <<>>
  BY <1>1
<1> QED
  BY <1>1, <1>2 DEF Pipeline, FlattenSeq

\* A click of a pipeline, on an ad.
Once(st, ad) == IF st.on = "yes" /\ Wanted(st, ad) THEN <<Clicked(ad)>> ELSE <<>>

\* The click step does it, and nothing else.
LEMMA ClickDoes ==
  ASSUME NEW st, st.op = "click", st.on = "yes", ~st.abort, None \notin Ads, NEW s \in Going, s.c.ad \in Ads
  PROVE  \E t \in Going : /\ t.c = s.c /\ t.s = s.s /\ t.out = s.out \o Once(st, s.c.ad)
                          /\ t = DoneBy(st, s)
<1>1. DoneBy(st, s) = IF Wanted(st, s.c.ad) THEN [s EXCEPT !.out = Append(@, Clicked(s.c.ad)), !.sig = "go"] ELSE s
  <2>1. DoneBy(st, s) = Basic(st, s)
    BY DEF Done, DoneBy
  <2>2. s.c.ad # None
    OBVIOUS
  <2> QED
    BY <2>1, <2>2 DEF Basic
<1>2. s.out \in Seq(Events) /\ Clicked(s.c.ad) \in Events
  BY DEF Going, Clicked, Events
<1>3. CASE Wanted(st, s.c.ad)
  <2>1. PICK o : o = Append(s.out, Clicked(s.c.ad))
    OBVIOUS
  <2>2. o \in Seq(Events) /\ o = s.out \o <<Clicked(s.c.ad)>>
    BY <1>2, <2>1, AppendProperties, AppendIsConcat
  <2>3. PICK t : t = [s EXCEPT !.out = o, !.sig = "go"]
    OBVIOUS
  <2>4. t = DoneBy(st, s)
    BY <1>1, <1>3, <2>1, <2>3
  <2>5. t \in Going /\ t.c = s.c /\ t.s = s.s /\ t.out = o
    BY <2>2, <2>3 DEF Going
  <2>6. Once(st, s.c.ad) = <<Clicked(s.c.ad)>>
    BY <1>3 DEF Once
  <2> QED
    BY <2>2, <2>4, <2>5, <2>6
<1>4. CASE ~Wanted(st, s.c.ad)
  <2>1. Once(st, s.c.ad) = <<>> /\ s.out \o <<>> = s.out
    BY <1>2, <1>4, ConcatEmptySeq DEF Once
  <2> QED
    BY <1>1, <1>4, <2>1
<1> QED
  BY <1>3, <1>4

\* The steps of a pipeline, for one ad.
Clicks(p) == \A i \in DOMAIN p : p[i].op = "click" /\ p[i].on \in {"yes", "no"} /\ ~p[i].abort

\* A pipeline is its clicks one after the other ...
LEMMA PipelineParts ==
  ASSUME NEW S, NEW p \in Seq(S), NEW ad \in Ads
  PROVE  \E ss \in Seq(Seq(Events)) :
           /\ Pipeline(p, ad) = FlattenSeq(ss) /\ ss = [i \in DOMAIN p |-> Once(p[i], ad)]
           /\ Len(ss) = Len(p) /\ \A k \in 0..Len(p)-1 : ss[k+1] = Once(p[k+1], ad)
<1>1. PICK n : n = Len(p)
  OBVIOUS
<1>2. PICK ss : ss = [i \in DOMAIN p |-> Once(p[i], ad)]
  OBVIOUS
<1>3. n \in Nat /\ DOMAIN p = 1..n
  BY <1>1
<1>4. ASSUME NEW i \in 1..n PROVE ss[i] \in Seq(Events) /\ ss[i] = Once(p[i], ad)
  <2>1. Clicked(ad) \in Events
    BY DEF Clicked, Events
  <2>2. <<Clicked(ad)>> \in Seq(Events) /\ <<>> \in Seq(Events)
    BY <2>1
  <2> QED
    BY <2>2, <1>2, <1>3 DEF Once
<1>5. ss \in [1..n -> Seq(Events)]
  BY <1>2, <1>3, <1>4
<1>6. ss \in Seq(Seq(Events)) /\ Len(ss) = n
  BY <1>3, <1>5
<1>7. Pipeline(p, ad) = FlattenSeq(ss)
  BY <1>2 DEF Pipeline, Once
<1>8. \A k \in 0..n-1 : k + 1 \in 1..n
  BY <1>3
<1> QED
  BY <1>1, <1>2, <1>4, <1>6, <1>7, <1>8

\* ... and so are its steps in the body of a loop.
LEMMA PipelineDoes ==
  ASSUME Unfolds, NEW p \in Bodies, Clicks(p), None \notin Ads, NEW s \in Going, s.c.ad \in Ads
  PROVE  \E t \in Going : /\ t.c = s.c /\ t.s = s.s /\ t.out = s.out \o Pipeline(p, s.c.ad)
                          /\ t = Meaning(p, 1, s)
<1>1. PICK ad, n : ad = s.c.ad /\ n = Len(p)
  OBVIOUS
<1>2. p \in Seq(ToSet(p)) /\ n \in Nat /\ DOMAIN p = 1..n /\ \A k \in 0..n-1 : k + 1 \in 1..n
  BY <1>1, BodiesAssumption
<1>3. PICK ss \in Seq(Seq(Events)) : /\ Pipeline(p, ad) = FlattenSeq(ss) /\ Len(ss) = n
                                     /\ \A k \in 0..n-1 : ss[k+1] = Once(p[k+1], ad)
  BY <1>1, <1>2, PipelineParts
<1>4. PICK K : K = [k \in 0..n |-> {t \in Going : t.c = s.c /\ t.s = s.s}]
  OBVIOUS
<1>5. PICK R : R = [k \in 0..n |-> [t \in Going |-> Meaning(p, k + 1, t)]]
  OBVIOUS
<1>6. K \in [0..n -> SUBSET Going] /\ s \in K[0]
  BY <1>2, <1>4
<1>7. ASSUME NEW k \in 0..n-1, NEW t \in K[k]
      PROVE  \E u \in K[k+1] : u.out = t.out \o ss[k+1] /\ R[k][t] = R[k+1][u]
  <2>1. k + 1 \in 1..n /\ k + 1 \in 0..n /\ k \in 0..n
    BY <1>2
  <2>2. t \in Going /\ t.c = s.c /\ t.s = s.s
    BY <1>4, <2>1
  <2>3. PICK st : st = p[k+1]
    OBVIOUS
  <2>4. st.op = "click" /\ st.on \in {"yes", "no"} /\ ~st.abort /\ ss[k+1] = Once(st, ad)
    BY <1>2, <1>3, <2>1, <2>3 DEF Clicks
  <2>5. R[k][t] = Meaning(p, k + 1, t) /\ \A u \in Going : R[k+1][u] = Meaning(p, (k + 1) + 1, u)
    BY <1>5, <2>1, <2>2
  <2>6. CASE st.on = "yes"
    <3>1. PICK u \in Going : /\ u.c = t.c /\ u.s = t.s /\ u.out = t.out \o Once(st, ad)
                             /\ u = DoneBy(st, t)
      <4>1. t.c.ad \in Ads /\ t.c.ad = ad
        BY <1>1, <2>2
      <4> QED
        BY <4>1, <2>2, <2>4, <2>6, ClickDoes
    <3>2. Meaning(p, k + 1, t) = Meaning(p, (k + 1) + 1, u)
      BY <1>1, <2>1, <2>2, <2>3, <2>6, <3>1, OneStep
    <3>3. u \in K[k+1]
      BY <1>4, <2>1, <2>2, <3>1
    <3> QED
      BY <2>4, <2>5, <3>1, <3>2, <3>3
  <2>7. CASE st.on = "no"
    <3>1. Meaning(p, k + 1, t) = Meaning(p, (k + 1) + 1, t)
      BY <1>1, <2>1, <2>2, <2>3, <2>7, OneStep
    <3>2. t.out \o Once(st, ad) = t.out
      BY <2>2, <2>7, ConcatEmptySeq DEF Once, Going
    <3>3. t \in K[k+1]
      BY <1>4, <2>1, <2>2
    <3> QED
      BY <2>2, <2>4, <2>5, <3>1, <3>2, <3>3
  <2> QED
    BY <2>4, <2>6, <2>7
<1>8. PICK u \in K[n] : u.out = s.out \o FlattenSeq(ss) /\ R[0][s] = R[n][u]
  <2>1. Passes(ss, n, K, R)
    BY <1>3, <1>6, <1>7 DEF Passes
  <2>2. Arrives(ss, n, K, R, s)
    BY <1>6, <2>1, Through
  <2> QED
    BY <2>2 DEF Arrives
<1>9. u \in Going /\ u.c = s.c /\ u.s = s.s
  BY <1>2, <1>4
<1>10. R[0][s] = Meaning(p, 1, s) /\ R[n][u] = Meaning(p, n + 1, u)
  <2>1. 0 \in 0..n /\ n \in 0..n /\ 0 + 1 = 1
    BY <1>2
  <2> QED
    BY <2>1, <1>5, <1>9
<1>11. Meaning(p, n + 1, u) = u
  BY <1>1, NoStep
<1>12. u = Meaning(p, 1, s)
  BY <1>8, <1>10, <1>11, Zenon
<1> QED
  BY <1>1, <1>3, <1>8, <1>9, <1>12

\* One round of a loop, and its end.
Ends(st, items, i, c, m) == RoundEnd(Rounds, st, items, i, c, m)

\* A round is the body with the ad or item bound ...
LEMMA OneRound ==
  ASSUME Unfolds, NEW st, NEW items \in Seq(Ads \cup Words), NEW i \in 1..Len(items), NEW s
  PROVE  Rounds(st, items, i, s) = Ends(st, items, i, s.c, Meaning(st.body, 1, Bound(st, items[i], s)))
<1>1. Len(items) \in Nat /\ i \in Nat /\ ~(i > Len(items))
  OBVIOUS
<1>2. Rounds(st, items, i, s) = RoundsText(Meaning, Rounds, st, items, i, s)
  BY <1>1, Zenon DEF Unfolds
<1> QED
  BY <1>1, <1>2 DEF RoundsText, Ends

\* ... and after the last one nothing happens.
LEMMA NoRound ==
  ASSUME Unfolds, NEW st, NEW items \in Seq(Ads \cup Words), NEW s
  PROVE  Rounds(st, items, Len(items) + 1, s) = s
<1>1. Len(items) \in Nat /\ Len(items) + 1 \in Nat /\ Len(items) + 1 > Len(items)
  OBVIOUS
<1>2. Rounds(st, items, Len(items) + 1, s) = RoundsText(Meaning, Rounds, st, items, Len(items) + 1, s)
  BY <1>1, Zenon DEF Unfolds
<1> QED
  BY <1>1, <1>2 DEF RoundsText

\* From m, made in the i-th round, the loop goes on to the next one, in context c ...
Further(st, items, i, c, m) ==
  \E e \in Going : /\ e.c = c /\ e.s = m.s /\ e.out = m.out
                   /\ Ends(st, items, i, c, m) = Rounds(st, items, i + 1, e)

\* ... when no signal is up.
LEMMA GoesOn ==
  ASSUME NEW st, NEW items, NEW i, NEW c \in Bindings, NEW m \in Going
  PROVE  Further(st, items, i, c, m)
<1>1. PICK e : e = [m EXCEPT !.c = c]
  OBVIOUS
<1>2. e \in Going /\ e.c = c /\ e.s = m.s /\ e.out = m.out /\ e.sig = "go"
  BY <1>1 DEF Going
<1>3. [e EXCEPT !.sig = "go"] = e
  BY <1>2 DEF Going
<1>4. Ends(st, items, i, c, m) = Rounds(st, items, i + 1, [e EXCEPT !.sig = "go"])
  BY <1>1, <1>2 DEF RoundEnd, Ends
<1> QED
  BY <1>2, <1>3, <1>4 DEF Further

\* The loop over the ads of a search, with the pipeline as its body.
Visit(p) == [op |-> "eachad", on |-> "yes", limit |-> 0, body |-> p]
Visits(p, ads) == FlattenSeq([i \in DOMAIN ads |-> Pipeline(p, ads[i])])

\* What the pipeline does is done for one ad after the other ...
LEMMA VisitsParts ==
  ASSUME NEW S, NEW p \in Seq(S), NEW ads \in Seq(Ads)
  PROVE  \E ss \in Seq(Seq(Events)) : /\ Visits(p, ads) = FlattenSeq(ss) /\ Len(ss) = Len(ads)
                                     /\ \A k \in 0..Len(ads)-1 : ss[k+1] = Pipeline(p, ads[k+1])
<1>1. PICK n : n = Len(ads)
  OBVIOUS
<1>2. PICK ss : ss = [i \in DOMAIN ads |-> Pipeline(p, ads[i])]
  OBVIOUS
<1>3. n \in Nat /\ DOMAIN ads = 1..n /\ \A k \in 0..n-1 : k + 1 \in 1..n
  BY <1>1
<1>4. ASSUME NEW i \in 1..n PROVE ss[i] \in Seq(Events) /\ ss[i] = Pipeline(p, ads[i])
  <2>1. PICK ad : ad = ads[i]
    OBVIOUS
  <2>2. ad \in Ads /\ ss[i] = Pipeline(p, ad)
    BY <1>2, <1>3, <2>1
  <2>3. Pipeline(p, ad) \in Seq(Events)
    <3>1. PICK tt \in Seq(Seq(Events)) : Pipeline(p, ad) = FlattenSeq(tt)
      BY <2>2, PipelineParts
    <3> QED
      BY <3>1, FlattenType
  <2> QED
    BY <2>1, <2>2, <2>3
<1>5. ss \in [1..n -> Seq(Events)]
  BY <1>2, <1>3, <1>4
<1>6. ss \in Seq(Seq(Events)) /\ Len(ss) = n
  BY <1>3, <1>5
<1>7. Visits(p, ads) = FlattenSeq(ss)
  BY <1>2 DEF Visits
<1> QED
  BY <1>1, <1>3, <1>4, <1>6, <1>7

\* ... and so it is in the loop.
LEMMA VisitDoes ==
  ASSUME Unfolds, NEW p \in Bodies, Clicks(p), None \notin Ads, NEW s \in Going
  PROVE  \E t \in Going : /\ t.c = s.c /\ t.s = s.s /\ t.out = s.out \o Visits(p, s.c.ads)
                          /\ t = DoneBy(Visit(p), s)
<1>1. PICK ads, n, w : ads = s.c.ads /\ n = Len(ads) /\ w = Visit(p)
  OBVIOUS
<1>2. ads \in Seq(Ads) /\ ads \in Seq(Ads \cup Words)
  BY <1>1 DEF Going, Bindings
<1>3. n \in Nat /\ \A k \in 0..n-1 : k + 1 \in 1..n
  BY <1>1, <1>2
<1>4. w.op = "eachad" /\ w.limit = 0 /\ w.body = p
  BY <1>1 DEF Visit
<1>5. DoneBy(w, s) = Rounds(w, ads, 1, s)
  BY <1>1, <1>4 DEF Done, DoneBy, Limited
<1>6. PICK ss \in Seq(Seq(Events)) : /\ Visits(p, ads) = FlattenSeq(ss) /\ Len(ss) = n
                                     /\ \A k \in 0..n-1 : ss[k+1] = Pipeline(p, ads[k+1])
  <2>1. p \in Seq(ToSet(p))
    BY BodiesAssumption
  <2> QED
    BY <1>1, <1>2, <2>1, VisitsParts
<1>7. PICK K : K = [k \in 0..n |-> {t \in Going : t.c = s.c /\ t.s = s.s}]
  OBVIOUS
<1>8. PICK R : R = [k \in 0..n |-> [t \in Going |-> Rounds(w, ads, k + 1, t)]]
  OBVIOUS
<1>9. K \in [0..n -> SUBSET Going] /\ s \in K[0]
  BY <1>3, <1>7
<1>10. ASSUME NEW k \in 0..n-1, NEW t \in K[k]
       PROVE  \E u \in K[k+1] : u.out = t.out \o ss[k+1] /\ R[k][t] = R[k+1][u]
  <2>0. PICK i : i = k + 1
    OBVIOUS
  <2>1. i \in 1..n /\ i \in 0..n /\ k \in 0..n
    BY <1>3, <2>0
  <2>2. t \in Going /\ t.c = s.c /\ t.s = s.s /\ t.c \in Bindings
    BY <1>7, <2>1 DEF Going
  <2>3. PICK ad : ad = ads[i]
    OBVIOUS
  <2>4. ad \in Ads /\ ss[i] = Pipeline(p, ad)
    BY <1>1, <1>2, <1>6, <2>0, <2>1, <2>3
  <2>5. R[k][t] = Rounds(w, ads, i, t) /\ \A u \in Going : R[i][u] = Rounds(w, ads, i + 1, u)
    BY <1>8, <2>0, <2>1, <2>2
  <2>6. PICK b : b = Bound(w, ad, t)
    OBVIOUS
  <2>7. b \in Going /\ b.c.ad = ad /\ b.s = t.s /\ b.out = t.out
    <3>1. b = [t EXCEPT !.c = [t.c EXCEPT !.ad = ad]]
      BY <1>4, <2>6 DEF Bound
    <3>2. PICK d : d = [t.c EXCEPT !.ad = ad]
      OBVIOUS
    <3>3. d \in Bindings /\ d.ad = ad
      BY <2>2, <2>4, <3>2 DEF Bindings
    <3> QED
      BY <2>2, <3>1, <3>2, <3>3 DEF Going
  <2>8. PICK m \in Going : /\ m.c = b.c /\ m.s = b.s /\ m.out = b.out \o Pipeline(p, b.c.ad)
                           /\ m = Meaning(p, 1, b)
    BY <2>4, <2>7, PipelineDoes
  <2>9. PICK e \in Going : /\ e.c = t.c /\ e.s = m.s /\ e.out = m.out
                           /\ Ends(w, ads, i, t.c, m) = Rounds(w, ads, i + 1, e)
    <3>1. Further(w, ads, i, t.c, m)
      BY <2>2, <2>8, GoesOn
    <3> QED
      BY <3>1 DEF Further
  <2>10. Rounds(w, ads, i, t) = Ends(w, ads, i, t.c, m)
    <3>1. Len(ads) = n
      BY <1>1
    <3>2. Rounds(w, ads, i, t) = Ends(w, ads, i, t.c, Meaning(w.body, 1, Bound(w, ads[i], t)))
      BY <1>2, <2>1, <3>1, OneRound
    <3> QED
      BY <1>4, <2>3, <2>6, <2>8, <3>2
  <2>11. e \in K[i]
    BY <1>7, <2>1, <2>2, <2>7, <2>8, <2>9
  <2>12. e.out = t.out \o ss[i]
    BY <2>4, <2>7, <2>8, <2>9
  <2>13. R[k][t] = R[i][e]
    BY <2>5, <2>9, <2>10
  <2> QED
    BY <2>0, <2>11, <2>12, <2>13
<1>11. PICK u \in K[n] : u.out = s.out \o FlattenSeq(ss) /\ R[0][s] = R[n][u]
  <2>1. Passes(ss, n, K, R)
    BY <1>6, <1>9, <1>10 DEF Passes
  <2>2. Arrives(ss, n, K, R, s)
    BY <1>9, <2>1, Through
  <2> QED
    BY <2>2 DEF Arrives
<1>12. u \in Going /\ u.c = s.c /\ u.s = s.s
  BY <1>3, <1>7
<1>13. R[0][s] = Rounds(w, ads, 1, s) /\ R[n][u] = Rounds(w, ads, n + 1, u)
  <2>1. 0 \in 0..n /\ n \in 0..n /\ 0 + 1 = 1
    BY <1>3
  <2> QED
    BY <2>1, <1>8, <1>12
<1>14. Rounds(w, ads, n + 1, u) = u
  BY <1>1, <1>2, NoRound
<1>15. u = DoneBy(w, s)
  BY <1>5, <1>11, <1>13, <1>14, Zenon
<1> QED
  BY <1>1, <1>6, <1>11, <1>12, <1>15

\* The pipelines of the configuration are the merged one.
LEMMA PipeSame ==
  ASSUME NEW o \in Legacies, o.post = <<>> \/ o.target = <<>>, NEW ad \in Ads
  PROVE  Pipeline(Merged(o), ad) = PerAd(o, ad)
<1>1. o.post \in Seq(OldClicks) /\ o.target \in Seq(OldClicks)
  BY LegacyAssumption
<1>2. PICK tt : tt = [i \in DOMAIN o.target |-> [o.target[i] EXCEPT !.only = @ \cup {"target"}]]
  OBVIOUS
<1>3. Merged(o) = o.post \o tt
  BY <1>2 DEF Merged
<1>4. PICK n : n = Len(o.target)
  OBVIOUS
<1>5. n \in Nat /\ DOMAIN o.target = 1..n /\ \A i \in 1..n : o.target[i] \in OldClicks
  BY <1>1, <1>4
<1>6. ASSUME NEW i \in 1..n
      PROVE  /\ tt[i] \in OldClicks /\ tt[i].on = o.target[i].on
             /\ Wanted(tt[i], ad) <=> ad \in Targets /\ Wanted(o.target[i], ad)
  <2>1. PICK x : x = o.target[i]
    OBVIOUS
  <2>2. x \in OldClicks
    BY <1>5, <2>1
  <2>3. PICK y : y = [x EXCEPT !.only = @ \cup {"target"}]
    OBVIOUS
  <2>4. y \in OldClicks /\ y.on = x.on /\ y.skip = x.skip /\ y.only = x.only \cup {"target"}
    BY <2>2, <2>3 DEF OldClicks
  <2>5. tt[i] = y
    BY <1>2, <1>5, <2>1, <2>3
  <2>6. Wanted(y, ad) <=> ad \in Targets /\ Wanted(x, ad)
    BY <2>4 DEF Wanted
  <2> QED
    BY <2>1, <2>4, <2>5, <2>6
<1>7. tt \in [1..n -> OldClicks] /\ tt \in Seq(OldClicks) /\ Len(tt) = n /\ DOMAIN tt = 1..n
  <2>1. tt \in [1..n -> OldClicks]
    BY <1>2, <1>5, <1>6
  <2> QED
    BY <1>5, <2>1
<1>8. CASE o.target = <<>>
  <2>1. tt = <<>>
    BY <1>4, <1>7, <1>8
  <2>2. Merged(o) = o.post
    BY <1>1, <1>3, <2>1, ConcatEmptySeq
  <2> QED
    BY <1>8, <2>2 DEF PerAd
<1>9. CASE o.target # <<>> /\ o.post = <<>>
  <2>1. Merged(o) = tt
    BY <1>3, <1>7, <1>9, ConcatEmptySeq
  <2>2. CASE ad \in Targets
    <3>1. PerAd(o, ad) = Pipeline(o.target, ad)
      BY <1>9, <2>2 DEF PerAd
    <3>2. PICK f, g : /\ f = [i \in DOMAIN tt |-> Once(tt[i], ad)]
                      /\ g = [i \in DOMAIN o.target |-> Once(o.target[i], ad)]
      OBVIOUS
    <3>3. \A i \in 1..n : Once(tt[i], ad) = Once(o.target[i], ad)
      BY <1>6, <2>2 DEF Once
    <3>4. f = g
      BY <1>5, <1>7, <3>2, <3>3
    <3> QED
      BY <2>1, <3>1, <3>2, <3>4 DEF Pipeline, Once
  <2>3. CASE ad \notin Targets
    <3>1. PerAd(o, ad) = Pipeline(<<>>, ad)
      BY <1>9, <2>3 DEF PerAd
    <3>2. PICK f : f = [i \in DOMAIN tt |-> Once(tt[i], ad)]
      OBVIOUS
    <3>3. \A i \in 1..n : Once(tt[i], ad) = <<>>
      BY <1>6, <2>3 DEF Once
    <3>4. f \in [1..n -> {<<>>}]
      BY <1>7, <3>2, <3>3
    <3>5. FlattenSeq(f) = <<>>
      <4>1. f \in Seq({<<>>})
        BY <1>5, <3>4
      <4> QED
        BY <4>1, FlattenNone
    <3>6. Pipeline(tt, ad) = FlattenSeq(f)
      BY <3>2 DEF Pipeline, Once
    <3> QED
      BY <2>1, <3>1, <3>5, <3>6, NoPipeline
  <2> QED
    BY <2>2, <2>3
<1> QED
  BY <1>8, <1>9

-----------------------------------------------------------------------------
(* Searches, and lists of parts.                                             *)

\* What a search and search_all_queries make.
LEMMA SearchMakes ==
  ASSUME NEW st, st.op = "search", NEW s \in Going, NEW q \in Words, q # None, q = QueryOf(st.query, s.c, s.s)
  PROVE  \E t \in Going : /\ t.c.ads = Answer[q] /\ t.c.item = s.c.item /\ t.c.query = q
                          /\ t.s.var = s.s.var /\ t.out = s.out \o <<Searched(q)>>
                          /\ t = DoneBy(st, s)
<1>1. DoneBy(st, s) = Learn(s, s.c, q)
  BY DEF Done, DoneBy, Basic
<1>2. s.c \in Bindings /\ s.s \in Commons /\ s.out \in Seq(Events) /\ Answer[q] \in Seq(Ads)
  BY FlowAssumption DEF Going
<1>3. PICK c1 : c1 = [s.c EXCEPT !.query = q]
  OBVIOUS
<1>4. PICK c2 : c2 = [c1 EXCEPT !.ads = Answer[q]]
  OBVIOUS
<1>5. c1 \in Bindings /\ c1.query = q /\ c1.item = s.c.item
  BY <1>2, <1>3 DEF Bindings
<1>6. c2 \in Bindings /\ c2.ads = Answer[q] /\ c2.query = q /\ c2.item = s.c.item
  BY <1>2, <1>4, <1>5 DEF Bindings
<1>7. c2 = [s.c EXCEPT !.query = q, !.ads = Answer[q]]
  BY <1>3, <1>4
<1>8. PICK b : b = PageOf(q, s.s)
  OBVIOUS
<1>9. b \in Commons /\ b.var = s.s.var
  <2> DEFINE x == q \in Captcha
  <2>1. x \in BOOLEAN
    OBVIOUS
  <2>2. PICK b1 : b1 = [s.s EXCEPT !.page = q]
    OBVIOUS
  <2>3. b1 \in Commons /\ b1.var = s.s.var
    BY <1>2, <2>2 DEF Commons
  <2>4. b = [b1 EXCEPT !.captcha = x]
    BY <1>8, <2>2 DEF PageOf
  <2> HIDE DEF x
  <2> QED
    BY <2>1, <2>3, <2>4 DEF Commons
<1>10. PICK o : o = Append(s.out, Searched(q))
  OBVIOUS
<1>11. o \in Seq(Events) /\ o = s.out \o <<Searched(q)>>
  <2>1. Searched(q) \in Events
    BY DEF Searched, Events
  <2> QED
    BY <1>2, <1>10, <2>1, AppendProperties, AppendIsConcat
<1>12. PICK t : t = Learn(s, s.c, q)
  OBVIOUS
<1>13. t = [s EXCEPT !.c = c2, !.s = b, !.out = o]
  BY <1>7, <1>8, <1>10, <1>12 DEF Learn
<1>14. t \in Going /\ t.c = c2 /\ t.s = b /\ t.out = o
  BY <1>6, <1>9, <1>11, <1>13 DEF Going
<1> QED
  BY <1>1, <1>6, <1>9, <1>11, <1>12, <1>14

\* All queries, once each.
Asked == [i \in DOMAIN Queries |-> Searched(Queries[i])]

\* The type of it.
LEMMA AskedType == Asked \in Seq(Events)
<1>1. PICK n : n = Len(Queries)
  OBVIOUS
<1>2. n \in Nat /\ DOMAIN Queries = 1..n /\ \A i \in 1..n : Queries[i] \in Words
  BY <1>1, FlowAssumption
<1>3. \A i \in 1..n : Searched(Queries[i]) \in Events
  BY <1>2 DEF Searched, Events
<1>4. Asked \in [1..n -> Events]
  BY <1>2, <1>3 DEF Asked
<1> QED
  BY <1>2, <1>4

\* The flow step leaves the bindings as they are.
LEMMA AllMakes ==
  ASSUME NEW st, st.op = "all", NEW s \in Going
  PROVE  \E t \in Going : /\ t.c = s.c /\ t.s.var = s.s.var /\ t.out = s.out \o Asked
                          /\ t = DoneBy(st, s)
<1>1. DoneBy(st, s) = [s EXCEPT !.s = AllAsked(@), !.out = @ \o Asked]
  BY DEF Done, DoneBy, Basic, Asked
<1>2. s.s \in Commons /\ s.out \in Seq(Events)
  BY DEF Going
<1>3. PICK b : b = AllAsked(s.s)
  OBVIOUS
<1>4. b \in Commons /\ b.var = s.s.var
  <2>1. Queries # <<>> => Last(Queries) \in Words
    BY FlowAssumption DEF Last
  <2>2. PICK q : q = Last(Queries)
    OBVIOUS
  <2>3. b = IF Queries = <<>> THEN s.s ELSE [s.s EXCEPT !.page = q]
    BY <1>3, <2>2 DEF AllAsked
  <2> QED
    BY <1>2, <2>1, <2>2, <2>3 DEF Commons
<1>5. PICK o : o = s.out \o Asked
  OBVIOUS
<1>6. o \in Seq(Events)
  BY <1>2, <1>5, AskedType, ConcatProperties
<1>7. PICK t : t = [s EXCEPT !.s = b, !.out = o]
  OBVIOUS
<1>8. t \in Going /\ t.c = s.c /\ t.s = b /\ t.out = o
  BY <1>4, <1>6, <1>7 DEF Going
<1> QED
  BY <1>1, <1>3, <1>4, <1>5, <1>7, <1>8

\* A part of a list, after the first pos steps of it.
Placed(b, pos, part) == /\ pos \in Nat /\ Len(part) \in Nat
                        /\ \A j \in 1..Len(part) : pos + j \in 1..Len(b) /\ b[pos + j] = part[j]

\* A list made of parts, each of which does what the old executor did for it.
Replayed(b, pos, part, t, old1, Ks) ==
  \E u \in Ks : u.out = t.out \o old1 /\ Meaning(b, pos + 1, t) = Meaning(b, pos + Len(part) + 1, u)
Replays(b, pp, T, olds, n, K) ==
  /\ b \in Bodies /\ pp \in Seq(Seq(T)) /\ n = Len(pp) /\ b = FlattenSeq(pp)
  /\ olds \in Seq(Seq(Events)) /\ n = Len(olds) /\ K \in [0..n -> SUBSET Going]
  /\ \A k \in 0..n-1 : \A t \in K[k] : \A pos :
       Placed(b, pos, pp[k+1]) => Replayed(b, pos, pp[k+1], t, olds[k+1], K[k+1])
ReplayedAll(b, olds, n, K, s) == \E u \in K[n] : u.out = s.out \o FlattenSeq(olds) /\ Meaning(b, 1, s) = u

\* Then the list does what the old executor did.
LEMMA ListReplays ==
  ASSUME Unfolds, NEW b, NEW pp, NEW T, NEW olds, NEW n, NEW K, Replays(b, pp, T, olds, n, K), NEW s \in K[0]
  PROVE  ReplayedAll(b, olds, n, K, s)
<1>1. /\ b \in Bodies /\ pp \in Seq(Seq(T)) /\ n = Len(pp) /\ b = FlattenSeq(pp)
      /\ olds \in Seq(Seq(Events)) /\ n = Len(olds) /\ K \in [0..n -> SUBSET Going]
  BY DEF Replays
<1>2. PICK h : Flattens(pp, h, T)
  BY <1>1, FlattenHas
<1>3. Heads(pp, h, n, T) /\ Positions(pp, h, n) /\ b = h[n]
  BY <1>1, <1>2, FlattenStep, FlattenAt, FlattenIs
<1>4. n \in Nat /\ 0 \in 0..n /\ n \in 0..n
  BY <1>3 DEF Heads
<1>5. PICK R : R = [k \in 0..n |-> [t \in Going |-> Meaning(b, Len(h[k]) + 1, t)]]
  OBVIOUS
<1>6. ASSUME NEW k \in 0..n-1, NEW t \in K[k]
      PROVE  \E u \in K[k+1] : u.out = t.out \o olds[k+1] /\ R[k][t] = R[k+1][u]
  <2>1. PICK i : i = k + 1
    OBVIOUS
  <2>2. i \in 0..n /\ k \in 0..n
    BY <1>4, <2>1
  <2>3. t \in Going /\ K[i] \subseteq Going
    BY <1>1, <2>2
  <2>4. PICK pos, part : pos = Len(h[k]) /\ part = pp[i]
    OBVIOUS
  <2>5. pos \in Nat /\ Len(part) \in Nat /\ Len(h[i]) \in Nat /\ Len(h[n]) \in Nat
    BY <1>3, <1>4, <2>1, <2>2, <2>4 DEF Heads
  <2>6. /\ Len(h[i]) = pos + Len(part) /\ Len(h[i]) <= Len(h[n])
        /\ \A j \in 1..Len(part) : h[n][pos + j] = part[j]
    BY <1>3, <2>1, <2>4, Zenon DEF Positions
  <2>7. Placed(b, pos, part)
    <3>1. \A j \in 1..Len(part) : pos + j \in 1..Len(h[n])
      BY <2>5, <2>6
    <3> QED
      BY <1>3, <2>5, <2>6, <3>1 DEF Placed
  <2>8. Replayed(b, pos, part, t, olds[i], K[i])
    <3>1. \A x : Placed(b, x, pp[k+1]) => Replayed(b, x, pp[k+1], t, olds[k+1], K[k+1])
      BY DEF Replays
    <3> QED
      BY <2>1, <2>4, <2>7, <3>1
  <2>9. PICK u \in K[i] : u.out = t.out \o olds[i] /\ Meaning(b, pos + 1, t) = Meaning(b, pos + Len(part) + 1, u)
    BY <2>8 DEF Replayed
  <2>10. R[k][t] = Meaning(b, pos + 1, t)
    BY <1>5, <2>2, <2>3, <2>4
  <2>11. R[i][u] = Meaning(b, Len(h[i]) + 1, u)
    BY <1>5, <2>2, <2>3
  <2>12. R[k][t] = R[i][u]
    BY <2>6, <2>9, <2>10, <2>11
  <2> QED
    BY <2>1, <2>9, <2>12
<1>7. PICK u \in K[n] : u.out = s.out \o FlattenSeq(olds) /\ R[0][s] = R[n][u]
  <2>1. Passes(olds, n, K, R)
    BY <1>1, <1>6 DEF Passes
  <2>2. Arrives(olds, n, K, R, s)
    BY <2>1, Through
  <2> QED
    BY <2>2 DEF Arrives
<1>8. s \in Going /\ u \in Going
  BY <1>1, <1>4
<1>9. R[n][u] = Meaning(b, Len(b) + 1, u)
  BY <1>3, <1>4, <1>5, <1>8
<1>10. R[0][s] = Meaning(b, 1, s)
  <2>1. Len(h[0]) + 1 = 1
    BY <1>3 DEF Heads
  <2>2. R[0][s] = Meaning(b, Len(h[0]) + 1, s)
    BY <1>4, <1>5, <1>8
  <2> QED
    BY <2>1, <2>2
<1>11. Meaning(b, Len(b) + 1, u) = u
  BY <1>1, NoStep
<1>12. Meaning(b, 1, s) = u
  BY <1>7, <1>9, <1>10, <1>11, Zenon
<1> QED
  BY <1>7, <1>12 DEF ReplayedAll

-----------------------------------------------------------------------------
(* One step of the configuration.                                            *)

\* What a configuration must be like for what follows of its pipelines.
Plainly(o) == o \in Legacies /\ (o.post = <<>> \/ o.target = <<>>)
              /\ \A st \in ToSet(o.post) \cup ToSet(o.target) : ~st.abort

\* Both pipelines in one are clicks.
LEMMA MergedClicks ==
  ASSUME NEW o, Plainly(o)
  PROVE  /\ Merged(o) \in Seq(OldClicks) /\ Clicks(Merged(o))
         /\ Merged(o) = <<>> <=> o.post = <<>> /\ o.target = <<>>
<1>1. o.post \in Seq(OldClicks) /\ o.target \in Seq(OldClicks)
  BY LegacyAssumption DEF Plainly
<1>2. PICK tt : tt = [i \in DOMAIN o.target |-> [o.target[i] EXCEPT !.only = @ \cup {"target"}]]
  OBVIOUS
<1>3. Merged(o) = o.post \o tt
  BY <1>2 DEF Merged
<1>4. PICK n : n = Len(o.target)
  OBVIOUS
<1>5. n \in Nat /\ DOMAIN o.target = 1..n /\ \A i \in 1..n : o.target[i] \in OldClicks
  BY <1>1, <1>4
<1>6. ASSUME NEW q \in Seq(OldClicks), NEW i \in DOMAIN q PROVE q[i] \in OldClicks /\ q[i] \in ToSet(q)
  BY DEF ToSet
<1>7. ASSUME NEW i \in 1..n
      PROVE  tt[i] \in OldClicks /\ ~tt[i].abort
  <2>1. PICK x : x = o.target[i]
    OBVIOUS
  <2>2. x \in OldClicks /\ ~x.abort
    BY <1>1, <1>5, <1>6, <2>1 DEF Plainly
  <2>3. PICK y : y = [x EXCEPT !.only = @ \cup {"target"}]
    OBVIOUS
  <2>4. y \in OldClicks /\ y.abort = x.abort
    BY <2>2, <2>3 DEF OldClicks
  <2>5. tt[i] = y
    BY <1>2, <1>5, <2>1, <2>3
  <2> QED
    BY <2>2, <2>4, <2>5
<1>8. tt \in Seq(OldClicks) /\ Len(tt) = n /\ DOMAIN tt = 1..n
  <2>1. tt \in [1..n -> OldClicks]
    BY <1>2, <1>5, <1>7
  <2> QED
    BY <1>5, <2>1
<1>9. CASE o.post = <<>>
  <2>1. Merged(o) = tt
    BY <1>3, <1>8, <1>9, ConcatEmptySeq
  <2>2. Clicks(tt)
    BY <1>7, <1>8 DEF Clicks, OldClicks
  <2>3. tt = <<>> <=> o.target = <<>>
    BY <1>1, <1>4, <1>8
  <2> QED
    BY <1>8, <1>9, <2>1, <2>2, <2>3
<1>10. CASE o.target = <<>>
  <2>1. tt = <<>>
    BY <1>4, <1>8, <1>10
  <2>2. Merged(o) = o.post
    BY <1>1, <1>3, <2>1, ConcatEmptySeq
  <2>3. Clicks(o.post)
    BY <1>1, <1>6 DEF Clicks, OldClicks, Plainly
  <2> QED
    BY <1>1, <1>10, <2>2, <2>3
<1> QED
  BY <1>9, <1>10 DEF Plainly

\* What an old search did.
LEMMA OldSearchIs ==
  ASSUME NEW o, Plainly(o), NEW q \in Words
  PROVE  /\ OldSearch(o, q) = <<Searched(q)>> \o Visits(Merged(o), Answer[q])
         /\ Visits(Merged(o), Answer[q]) \in Seq(Events) /\ OldSearch(o, q) \in Seq(Events)
         /\ Merged(o) = <<>> => Visits(Merged(o), Answer[q]) = <<>>
<1>1. q # None /\ Answer[q] \in Seq(Ads) /\ Searched(q) \in Events
  BY FlowAssumption, LegacyAssumption DEF Searched, Events
<1>2. PICK ads, p : ads = Answer[q] /\ p = Merged(o)
  OBVIOUS
<1>3. PICK f, g : f = [i \in DOMAIN ads |-> PerAd(o, ads[i])] /\ g = [i \in DOMAIN ads |-> Pipeline(p, ads[i])]
  OBVIOUS
<1>4. \A i \in DOMAIN ads : Pipeline(p, ads[i]) = PerAd(o, ads[i])
  <2>1. \A i \in DOMAIN ads : ads[i] \in Ads
    BY <1>1, <1>2
  <2> QED
    BY <1>2, <2>1, PipeSame DEF Plainly
<1>5. f = g
  BY <1>3, <1>4
<1>6. OldSearch(o, q) = <<Searched(q)>> \o FlattenSeq(f)
  BY <1>1, <1>2, <1>3 DEF OldSearch
<1>7. Visits(p, ads) = FlattenSeq(g)
  BY <1>3 DEF Visits
<1>8. Visits(p, ads) \in Seq(Events)
  <2>1. p \in Seq(OldClicks) /\ ads \in Seq(Ads)
    BY <1>1, <1>2, MergedClicks
  <2>2. PICK ss \in Seq(Seq(Events)) : Visits(p, ads) = FlattenSeq(ss)
    BY <2>1, VisitsParts
  <2> QED
    BY <2>2, FlattenType
<1>9. <<Searched(q)>> \o Visits(p, ads) \in Seq(Events)
  <2>1. <<Searched(q)>> \in Seq(Events)
    BY <1>1
  <2> QED
    BY <1>8, <2>1, ConcatProperties
<1>10. ASSUME p = <<>> PROVE Visits(p, ads) = <<>>
  <2>1. \A i \in DOMAIN ads : g[i] = <<>>
    BY <1>3, <1>10, NoPipeline
  <2>2. PICK n : n = Len(ads)
    OBVIOUS
  <2>3. n \in Nat /\ DOMAIN ads = 1..n
    BY <1>1, <1>2, <2>2
  <2>4. g \in [1..n -> {<<>>}]
    BY <1>3, <2>1, <2>3
  <2>5. g \in Seq({<<>>})
    BY <2>3, <2>4
  <2> QED
    BY <1>7, <2>5, FlattenNone
<1> QED
  BY <1>2, <1>5, <1>6, <1>7, <1>8, <1>9, <1>10

\* A step on its own in a list.
Onto(b, pos, part, t, u) == Meaning(b, pos + 1, t) = Meaning(b, pos + Len(part) + 1, u)

\* It is done if it is enabled.
LEMMA Single ==
  ASSUME Unfolds, NEW b \in Bodies, NEW pos, NEW x, Placed(b, pos, <<x>>), NEW t \in Going
  PROVE  /\ x.on = "yes" => Onto(b, pos, <<x>>, t, DoneBy(x, t))
         /\ x.on = "no" => Onto(b, pos, <<x>>, t, t)
         /\ x \in ToSet(b)
<1>1. pos \in Nat /\ pos + 1 \in 1..Len(b) /\ b[pos + 1] = x
  <2>1. Len(<<x>>) = 1 /\ <<x>>[1] = x /\ 1 \in 1..Len(<<x>>)
    OBVIOUS
  <2> QED
    BY <2>1, Zenon DEF Placed
<1>2. PICK i : i = pos + 1
  OBVIOUS
<1>3. i \in 1..Len(b) /\ b[i] = x /\ pos + Len(<<x>>) + 1 = i + 1
  BY <1>1, <1>2
<1>4. /\ x.on = "yes" => Meaning(b, i, t) = Meaning(b, i + 1, DoneBy(x, t))
      /\ x.on = "no" => Meaning(b, i, t) = Meaning(b, i + 1, t)
  BY <1>3, OneStep
<1>5. x \in ToSet(b)
  <2>1. b \in Seq(ToSet(b))
    BY BodiesAssumption
  <2> QED
    BY <1>3, <2>1 DEF ToSet
<1> QED
  BY <1>2, <1>3, <1>4, <1>5 DEF Onto

\* Two steps in a list.
LEMMA Double ==
  ASSUME NEW b \in Bodies, NEW pos, NEW x, NEW y, Placed(b, pos, <<x, y>>)
  PROVE  /\ Placed(b, pos, <<x>>) /\ Placed(b, pos + 1, <<y>>)
         /\ pos + Len(<<x>>) + 1 = pos + 1 + 1 /\ (pos + 1) + Len(<<y>>) + 1 = pos + Len(<<x, y>>) + 1
<1>1. /\ Len(<<x, y>>) = 2 /\ <<x, y>>[1] = x /\ <<x, y>>[2] = y /\ Len(<<x>>) = 1 /\ <<x>>[1] = x /\ Len(<<y>>) = 1 /\ <<y>>[1] = y
  OBVIOUS
<1>2. pos \in Nat /\ \A j \in 1..2 : pos + j \in 1..Len(b) /\ b[pos + j] = <<x, y>>[j]
  BY <1>1, Zenon DEF Placed
<1>3. /\ pos + 1 \in 1..Len(b) /\ b[pos + 1] = x
      /\ pos + 2 \in 1..Len(b) /\ b[pos + 2] = y
  <2>1. 1 \in 1..2 /\ 2 \in 1..2
    OBVIOUS
  <2> QED
    BY <1>1, <1>2, <2>1, Zenon
<1>4. PICK z : z = pos + 1
  OBVIOUS
<1>5. z \in Nat /\ z + 1 = pos + 2
  BY <1>2, <1>4
<1>6. Placed(b, pos, <<x>>)
  BY <1>1, <1>2, <1>3 DEF Placed
<1>7. Placed(b, z, <<y>>)
  <2>1. z + 1 \in 1..Len(b) /\ b[z + 1] = y
    BY <1>3, <1>5
  <2> QED
    BY <1>1, <1>5, <2>1 DEF Placed
<1>8. pos + Len(<<x>>) + 1 = pos + 1 + 1 /\ (pos + 1) + Len(<<y>>) + 1 = pos + Len(<<x, y>>) + 1
  BY <1>1, <1>2
<1> QED
  BY <1>4, <1>6, <1>7, <1>8

\* A search with the loop over what it finds, if there is a pipeline.
SearchPart(o, b, pos, st, t, q) ==
  \E u \in Going : /\ u.c.item = t.c.item /\ u.c.query = q /\ u.s.var = t.s.var /\ u.out = t.out \o OldSearch(o, q)
                   /\ Meaning(b, pos + 1, t) = Meaning(b, pos + Len(Wrap(st, Merged(o))) + 1, u)

\* A migrated search does what the old one did, and keeps the item and the variable.
LEMMA SearchReplays ==
  ASSUME Unfolds, NEW o, Plainly(o), NEW b \in Bodies, NEW st, st.op = "search", st.on = "yes", NEW t \in Going,
         NEW q \in Words, q = QueryOf(st.query, t.c, t.s), NEW pos, Placed(b, pos, Wrap(st, Merged(o)))
  PROVE  SearchPart(o, b, pos, st, t, q)
<1>1. PICK p : p = Merged(o)
  OBVIOUS
<1>2. q # None /\ None \notin Ads
  BY LegacyAssumption
<1>3. PICK v \in Going : /\ v.c.ads = Answer[q] /\ v.c.item = t.c.item /\ v.c.query = q
                         /\ v.s.var = t.s.var /\ v.out = t.out \o <<Searched(q)>>
                         /\ v = DoneBy(st, t)
  BY <1>2, SearchMakes
<1>4. CASE p = <<>>
  <2>1. Wrap(st, p) = <<st>>
    BY <1>4 DEF Wrap
  <2>2. Meaning(b, pos + 1, t) = Meaning(b, pos + Len(<<st>>) + 1, v)
    <3>1. Onto(b, pos, <<st>>, t, v)
      BY <1>1, <1>3, <2>1, Single
    <3> QED
      BY <3>1, Zenon DEF Onto
  <2>3. OldSearch(o, q) = <<Searched(q)>>
    <3>1. Searched(q) \in Events /\ <<Searched(q)>> \in Seq(Events)
      BY DEF Searched, Events
    <3>2. OldSearch(o, q) = <<Searched(q)>> \o <<>>
      BY <1>1, <1>4, OldSearchIs
    <3> QED
      BY <3>1, <3>2, ConcatEmptySeq
  <2> QED
    BY <1>1, <1>3, <2>1, <2>2, <2>3 DEF SearchPart
<1>5. CASE p # <<>>
  <2>1. Wrap(st, p) = <<st, Visit(p)>>
    BY <1>5 DEF Wrap, Visit
  <2>2. PICK w : w = Visit(p)
    OBVIOUS
  <2>3. /\ Placed(b, pos, <<st>>) /\ Placed(b, pos + 1, <<w>>) /\ pos + Len(<<st>>) + 1 = pos + 1 + 1
        /\ (pos + 1) + Len(<<w>>) + 1 = pos + Len(<<st, w>>) + 1
    BY <1>1, <2>1, <2>2, Double
  <2>4. Meaning(b, pos + 1, t) = Meaning(b, pos + 1 + 1, v)
    <3>1. Meaning(b, pos + 1, t) = Meaning(b, pos + Len(<<st>>) + 1, v)
      <4>1. Onto(b, pos, <<st>>, t, v)
        BY <1>3, <2>3, Single
      <4> QED
        BY <4>1, Zenon DEF Onto
    <3> QED
      BY <2>3, <3>1, Zenon
  <2>5. w \in ToSet(b)
    BY <2>3, Single
  <2>6. w.op = "eachad" /\ w.on = "yes" /\ w.body = p
    BY <2>2 DEF Visit
  <2>7. p \in Bodies
    BY <2>5, <2>6, BodiesAssumption DEF Well
  <2>8. Clicks(p)
    BY <1>1, MergedClicks
  <2>9. PICK u \in Going : /\ u.c = v.c /\ u.s = v.s /\ u.out = v.out \o Visits(p, v.c.ads)
                           /\ u = DoneBy(Visit(p), v)
    BY <1>2, <2>7, <2>8, VisitDoes
  <2>10. Meaning(b, pos + 1 + 1, v) = Meaning(b, pos + Len(<<st, w>>) + 1, u)
    <3>1. PICK z : z = pos + 1
      OBVIOUS
    <3>2. Placed(b, z, <<w>>) /\ z + Len(<<w>>) + 1 = pos + Len(<<st, w>>) + 1
      BY <2>3, <3>1, Zenon
    <3>3. Meaning(b, z + 1, v) = Meaning(b, z + Len(<<w>>) + 1, u)
      <4>1. Onto(b, z, <<w>>, v, u)
        BY <2>2, <2>6, <2>9, <3>2, Single
      <4> QED
        BY <4>1, Zenon DEF Onto
    <3> QED
      BY <3>1, <3>2, <3>3, Zenon
  <2>11. u.out = t.out \o OldSearch(o, q)
    <3>1. Searched(q) \in Events /\ <<Searched(q)>> \in Seq(Events)
      BY DEF Searched, Events
    <3>2. PICK vs : vs = Visits(p, Answer[q])
      OBVIOUS
    <3>3. vs \in Seq(Events) /\ OldSearch(o, q) = <<Searched(q)>> \o vs
      BY <1>1, <3>2, OldSearchIs
    <3>4. PICK x : x = t.out /\ x \in Seq(Events)
      BY DEF Going
    <3>5. (x \o <<Searched(q)>>) \o vs = x \o (<<Searched(q)>> \o vs)
      <4>1. PICK y \in Seq(Events) : y = <<Searched(q)>>
        BY <3>1
      <4>2. x \in Seq(Events) /\ vs \in Seq(Events)
        BY <3>3, <3>4
      <4>3. (x \o y) \o vs = x \o (y \o vs)
        BY <4>1, <4>2, Regroup
      <4> QED
        BY <4>1, <4>3
    <3> QED
      BY <1>3, <2>9, <3>2, <3>3, <3>4, <3>5
  <2>12. Meaning(b, pos + 1, t) = Meaning(b, pos + Len(Wrap(st, Merged(o))) + 1, u)
    BY <1>1, <2>1, <2>2, <2>4, <2>10, Zenon
  <2> QED
    BY <1>3, <2>9, <2>11, <2>12 DEF SearchPart
<1> QED
  BY <1>4, <1>5

-----------------------------------------------------------------------------
(* The old executor.                                                         *)

\* What the old executor did for one step.
Of(t, names) == IF t \in DOMAIN names THEN names[t] ELSE t
OldOne(o, st, names) ==
  IF st.on = "no" THEN <<>> ELSE
  CASE st.op = "search" -> OldSearch(o, Of(st.query, names))
    [] st.op = "all"    -> FlattenSeq([i \in DOMAIN Queries |-> OldSearch(o, Queries[i])])
    [] st.op = "each"   ->
         LET items == IF st.items = <<>> /\ st.from THEN Queries ELSE st.items
         IN FlattenSeq([i \in DOMAIN items |-> OldRun(o, st.body, Written(names, st.var, items[i]))])
OldOnes(o, steps, names) == [i \in DOMAIN steps |-> OldOne(o, steps[i], names)]

\* The old executor went from step to step.
LEMMA OldRunIs ==
  ASSUME OldUnfolds, NEW o \in Legacies, NEW steps \in ListsOf(o), NEW names
  PROVE  OldRun(o, steps, names) = FlattenSeq(OldOnes(o, steps, names))
<1>1. OldRun(o, steps, names) = OldText(OldRun, o, steps, names)
  BY Zenon DEF OldUnfolds
<1>2. OldText(OldRun, o, steps, names) = FlattenSeq(OldOnes(o, steps, names))
  BY Zenon DEF OldText, OldOnes, OldOne, Of
<1> QED
  BY <1>1, <1>2

\* The item of a loop for its placeholder.
Names(l, x) == Written(<<>>, l.var, x)

\* Its placeholder stands for the item, and nothing else does; outside loops nothing is replaced.
LEMMA NamesIs ==
  ASSUME NEW l, NEW x, NEW t
  PROVE  Of(t, Names(l, x)) = (IF t = l.var THEN x ELSE t) /\ Of(t, <<>>) = t
<1>1. DOMAIN <<>> = {}
  OBVIOUS
<1>2. PICK g : g = Names(l, x)
  OBVIOUS
<1>3. DOMAIN g = {l.var} /\ g[l.var] = x
  BY <1>1, <1>2 DEF Names, Written
<1> QED
  BY <1>1, <1>2, <1>3 DEF Of

\* search_all_queries, without pipelines.
LEMMA OldAllIs ==
  ASSUME NEW o, Plainly(o), Merged(o) = <<>>
  PROVE  FlattenSeq([i \in DOMAIN Queries |-> OldSearch(o, Queries[i])]) = Asked
<1>1. PICK n : n = Len(Queries)
  OBVIOUS
<1>2. n \in Nat /\ DOMAIN Queries = 1..n /\ \A i \in 1..n : Queries[i] \in Words
  BY <1>1, FlowAssumption
<1>3. PICK s : s = Asked
  OBVIOUS
<1>4. s \in Seq(Events) /\ DOMAIN s = 1..n /\ \A i \in 1..n : s[i] = Searched(Queries[i])
  BY <1>2, <1>3, AskedType DEF Asked
<1>5. ASSUME NEW i \in 1..n PROVE OldSearch(o, Queries[i]) = <<s[i]>>
  <2>1. PICK q : q = Queries[i]
    OBVIOUS
  <2>2. q \in Words
    BY <1>2, <2>1
  <2>3. OldSearch(o, q) = <<Searched(q)>> \o <<>>
    BY <2>2, OldSearchIs
  <2>4. <<Searched(q)>> \in Seq(Events)
    BY <2>2 DEF Searched, Events
  <2>5. <<Searched(q)>> \o <<>> = <<Searched(q)>>
    BY <2>4, ConcatEmptySeq
  <2> QED
    BY <1>4, <2>1, <2>3, <2>5
<1>6. PICK f, g : f = [i \in DOMAIN Queries |-> OldSearch(o, Queries[i])] /\ g = [i \in DOMAIN s |-> <<s[i]>>]
  OBVIOUS
<1>7. f = g
  BY <1>2, <1>4, <1>5, <1>6
<1>8. FlattenSeq(g) = s
  BY <1>4, <1>6, FlattenOnes
<1> QED
  BY <1>3, <1>6, <1>7, <1>8

\* What the migration keeps, as a list of facts about the loops ...
BodyStep(o, l, st) ==
  \/ st.op = "search" /\ st.on = "yes" /\ st.query \in Words \cup {l.var}
  \/ st.op = "all" /\ st.on \in {"yes", "no"} /\ Merged(o) = <<>>
LoopOK(o, l) ==
  /\ l.op = "each" /\ l.on \in {"yes", "no"} /\ l.items \in Seq(Words) /\ l.var \in Placeholders
  /\ ~(l.items = <<>> /\ l.from) /\ "body" \in DOMAIN l
  /\ l.body \in ListsOf(o) /\ l.body \in Seq(ToSet(l.body))
  /\ \A i \in DOMAIN l.body : BodyStep(o, l, l.body[i])
  /\ \A i, j \in DOMAIN l.body :
       i < j /\ l.var = "query" /\ Asks(l.body[j], "query") /\ l.body[i].op = "search" => Asks(l.body[i], "query")
\* ... and about the script.
MainStep(o, st) ==
  \/ st.op = "search" /\ st.on = "yes" /\ st.query \in Words
  \/ st.op = "all" /\ st.on \in {"yes", "no"} /\ Merged(o) = <<>>
  \/ st \in Loops(o)

\* What the old forms allow.
LEMMA Kinds ==
  ASSUME NEW st, OldStep(st)
  PROVE  /\ st.op \in {"search", "all", "each"} /\ st.on \in {"yes", "no"}
         /\ st.op = "each" => st.items \in Seq(Words) /\ st.var \in Placeholders /\ "body" \in DOMAIN st
<1>1. CASE st \in [op : {"search"}, on : {"yes", "no"}, query : Words \cup Placeholders \cup {None}]
  BY <1>1
<1>2. CASE st \in [op : {"all"}, on : {"yes", "no"}]
  BY <1>2
<1>3. CASE st \in [op : {"each"}, on : {"yes", "no"}, items : Seq(Words), var : Placeholders, from : BOOLEAN, body : {st.body}]
  <2>1. PICK B : B = {st.body}
    OBVIOUS
  <2>2. st \in [op : {"each"}, on : {"yes", "no"}, items : Seq(Words), var : Placeholders, from : BOOLEAN, body : B]
    BY <1>3, <2>1
  <2> QED
    BY <2>2
<1> QED
  BY <1>1, <1>2, <1>3 DEF OldStep

\* A faithful configuration is so.
LEMMA FaithfulFacts ==
  ASSUME NEW o \in Legacies, Faithful(o)
  PROVE  /\ Plainly(o) /\ o.main \in ListsOf(o) /\ o.main \in Seq(ToSet(o.main))
         /\ \A i \in DOMAIN o.main : MainStep(o, o.main[i])
         /\ \A l \in Loops(o) : LoopOK(o, l)
         /\ \A i, j \in DOMAIN o.main : i < j /\ o.main[i].op = "search" /\ o.main[j].op = "each" => o.main[j].var # "query"
<1>1. Plainly(o)
  BY DEF Faithful, Plainly
<1>2. Merged(o) = <<>> <=> o.post = <<>> /\ o.target = <<>>
  BY <1>1, MergedClicks
<1>3. \A steps \in ListsOf(o) : steps \in Seq(ToSet(steps)) /\ \A st \in ToSet(steps) : OldStep(st)
  BY LegacyAssumption
<1>4. o.main \in ListsOf(o) /\ \A l \in Loops(o) : l.body \in ListsOf(o)
  BY DEF ListsOf
<1>5. o.main \in Seq(ToSet(o.main)) /\ \A st \in ToSet(o.main) : OldStep(st)
  BY <1>3, <1>4
<1>6. ASSUME NEW l \in Loops(o) PROVE LoopOK(o, l)
  <2>1. l \in ToSet(o.main) /\ l.op = "each" /\ OldStep(l)
    BY <1>5 DEF Loops
  <2>2. l.on \in {"yes", "no"} /\ l.items \in Seq(Words) /\ l.var \in Placeholders /\ "body" \in DOMAIN l
    BY <2>1, Kinds
  <2>3. ~(l.items = <<>> /\ l.from)
    BY Zenon DEF Faithful
  <2>4. l.body \in Seq(ToSet(l.body)) /\ \A st \in ToSet(l.body) : OldStep(st)
    BY <1>3, <1>4
  <2>5. ASSUME NEW i \in DOMAIN l.body PROVE BodyStep(o, l, l.body[i])
    <3>1. PICK st : st = l.body[i]
      OBVIOUS
    <3>2. st \in ToSet(l.body) /\ OldStep(st)
      BY <2>4, <3>1 DEF ToSet
    <3>3. st \in UNION {ToSet(d.body) : d \in Loops(o)}
      BY <3>2
    <3>4. st.op # "each" /\ (st.op = "search" => st.on = "yes") /\ (Merged(o) # <<>> => st.op # "all")
      BY <1>2, <3>3, Zenon DEF Faithful
    <3>5. st.op = "search" => st.query \in Words \cup {l.var}
      BY <3>2, Zenon DEF Faithful
    <3>6. st.op \in {"search", "all", "each"} /\ st.on \in {"yes", "no"}
      BY <3>2, Kinds
    <3> QED
      BY <3>1, <3>4, <3>5, <3>6 DEF BodyStep
  <2>6. \A i, j \in DOMAIN l.body :
          i < j /\ l.var = "query" /\ Asks(l.body[j], "query") /\ l.body[i].op = "search" => Asks(l.body[i], "query")
    BY Zenon DEF Faithful
  <2> QED
    BY <1>4, <2>1, <2>2, <2>3, <2>4, <2>5, <2>6 DEF LoopOK
<1>7. ASSUME NEW i \in DOMAIN o.main PROVE MainStep(o, o.main[i])
  <2>1. PICK st : st = o.main[i]
    OBVIOUS
  <2>2. st \in ToSet(o.main) /\ OldStep(st)
    BY <1>5, <2>1 DEF ToSet
  <2>3. (st.op = "search" => st.on = "yes") /\ (Merged(o) # <<>> => st.op # "all")
    BY <1>2, <2>2, Zenon DEF Faithful
  <2>4. st.op = "search" => st.query \in Words
    BY <2>2, Zenon DEF Faithful
  <2>5. st.op \in {"search", "all", "each"} /\ st.on \in {"yes", "no"}
    BY <2>2, Kinds
  <2>6. st.op = "each" => st \in Loops(o)
    BY <2>2 DEF Loops
  <2> QED
    BY <2>1, <2>3, <2>4, <2>5, <2>6 DEF MainStep
<1>8. \A i, j \in DOMAIN o.main : i < j /\ o.main[i].op = "search" /\ o.main[j].op = "each" => o.main[j].var # "query"
  BY Zenon DEF Faithful
<1> QED
  BY <1>1, <1>4, <1>5, <1>6, <1>7, <1>8

-----------------------------------------------------------------------------
(* The body of a loop.                                                       *)

\* In the body of the loop l, with the item x, after k steps.
InBody(l, x, k) ==
  {t \in Going : /\ t.c.item = x /\ (l.var = "var" => t.s.var = x)
                 /\ l.var = "query" /\ (\A j \in 1..k : l.body[j].op = "search" => l.body[j].query = "query")
                      => t.c.query \in {None, x}}

\* What a search of the body asks for, with the item x ...
Wants(l, x, st) == IF st.query = l.var THEN x ELSE st.query

\* ... is what it asks for in the flow.
LEMMA AsksSame ==
  ASSUME NEW o \in Legacies, NEW l, LoopOK(o, l), NEW x \in Words, NEW k \in 0..Len(l.body)-1, NEW t \in InBody(l, x, k),
         l.body[k+1].op = "search"
  PROVE  /\ QueryOf(l.body[k+1].query, t.c, t.s) = Wants(l, x, l.body[k+1])
         /\ Wants(l, x, l.body[k+1]) \in Words
<1>1. PICK i, st, q : i = k + 1 /\ st = l.body[i] /\ q = st.query
  OBVIOUS
<1>2. l.body \in Seq(ToSet(l.body)) /\ l.var \in Placeholders
  BY DEF LoopOK
<1>3. i \in DOMAIN l.body /\ \A j \in 1..k : j \in DOMAIN l.body /\ j < i
  BY <1>1, <1>2
<1>4. q \in Words \cup {l.var} /\ st.op = "search"
  <2>1. BodyStep(o, l, st)
    BY <1>1, <1>3, Zenon DEF LoopOK
  <2> QED
    BY <1>1, <2>1 DEF BodyStep
<1>5. Words \cap {"item", "var", "query"} = {} /\ None \notin Words
  BY LegacyAssumption DEF Placeholders
<1>6. t.c.item = x /\ (l.var = "var" => t.s.var = x) /\ x # None
  BY <1>5 DEF InBody
<1>7. CASE q \in Words
  <2>1. Value(q, t.c, t.s) = q
    BY <1>5, <1>7 DEF Value
  <2>2. QueryOf(q, t.c, t.s) = q
    BY <1>5, <1>7, <2>1 DEF QueryOf
  <2>3. q # l.var
    BY <1>2, <1>5, <1>7 DEF Placeholders
  <2> QED
    BY <1>1, <1>7, <2>2, <2>3 DEF Wants
<1>8. CASE q = l.var
  <2>1. Value(q, t.c, t.s) \in {None, x}
    <3>1. CASE l.var = "query"
      <4>1. \A j \in 1..k : l.body[j].op = "search" => l.body[j].query = "query"
        <5>1. ASSUME NEW j \in 1..k, l.body[j].op = "search" PROVE l.body[j].query = "query"
          <6>1. j \in DOMAIN l.body /\ i \in DOMAIN l.body /\ j < i /\ Asks(l.body[i], "query")
            BY <1>1, <1>3, <1>4, <1>8, <3>1 DEF Asks
          <6>2. Asks(l.body[j], "query")
            BY <3>1, <5>1, <6>1, Zenon DEF LoopOK
          <6> QED
            BY <6>2 DEF Asks
        <5> QED
          BY <5>1
      <4>2. t.c.query \in {None, x}
        BY <3>1, <4>1 DEF InBody
      <4> QED
        BY <1>8, <3>1, <4>2 DEF Value
    <3>2. CASE l.var \in {"item", "var"}
      BY <1>6, <1>8, <3>2 DEF Value
    <3> QED
      BY <1>2, <3>1, <3>2 DEF Placeholders
  <2>2. QueryOf(q, t.c, t.s) = x
    BY <1>6, <2>1 DEF QueryOf
  <2> QED
    BY <1>1, <1>8, <2>2 DEF Wants
<1> QED
  BY <1>4, <1>7, <1>8

\* What the old executor did for a step of the body.
LEMMA OldBodyStep ==
  ASSUME NEW o, Plainly(o), NEW l, NEW x \in Words, NEW st, BodyStep(o, l, st)
  PROVE  /\ st.op = "search" => OldOne(o, st, Names(l, x)) = OldSearch(o, Wants(l, x, st))
         /\ st.op = "all" => OldOne(o, st, Names(l, x)) = IF st.on = "no" THEN <<>> ELSE Asked
         /\ OldOne(o, st, Names(l, x)) \in Seq(Events)
<1>1. Of(st.query, Names(l, x)) = Wants(l, x, st)
  BY NamesIs DEF Wants
<1>2. CASE st.op = "search"
  <2>1. st.on = "yes" /\ Wants(l, x, st) \in Words
    BY <1>2 DEF BodyStep, Wants
  <2>2. OldOne(o, st, Names(l, x)) = OldSearch(o, Wants(l, x, st))
    BY <1>1, <1>2, <2>1 DEF OldOne
  <2>3. OldSearch(o, Wants(l, x, st)) \in Seq(Events)
    BY <2>1, OldSearchIs
  <2> QED
    BY <1>2, <2>2, <2>3
<1>3. CASE st.op = "all"
  <2>1. st.on \in {"yes", "no"} /\ Merged(o) = <<>>
    BY <1>3 DEF BodyStep
  <2>2. OldOne(o, st, Names(l, x)) = IF st.on = "no" THEN <<>> ELSE Asked
    BY <1>3, <2>1, OldAllIs DEF OldOne
  <2> QED
    BY <1>3, <2>2, AskedType
<1> QED
  BY <1>2, <1>3 DEF BodyStep

\* A step of the body, in the migrated one.
LEMMA BodyPart ==
  ASSUME Unfolds, NEW o \in Legacies, Plainly(o), NEW l, LoopOK(o, l), NEW x \in Words, NEW b \in Bodies,
         NEW k \in 0..Len(l.body)-1, NEW t \in InBody(l, x, k), NEW st, st = l.body[k+1],
         NEW pos, Placed(b, pos, Wrap(st, Merged(o)))
  PROVE  Replayed(b, pos, Wrap(st, Merged(o)), t, OldOne(o, st, Names(l, x)), InBody(l, x, k + 1))
<1>1. PICK i : i = k + 1
  OBVIOUS
<1>2. l.body \in Seq(ToSet(l.body))
  BY DEF LoopOK
<1>3. i \in DOMAIN l.body /\ i \in 1..i /\ (\A j \in 1..k : j \in 1..i) /\ st = l.body[i]
  BY <1>1, <1>2
<1>4. BodyStep(o, l, st)
  BY <1>3, Zenon DEF LoopOK
<1>5. t \in Going /\ t.c.item = x /\ (l.var = "var" => t.s.var = x)
  BY DEF InBody
<1>6. CASE st.op = "search"
  <2>1. PICK q : q = Wants(l, x, st)
    OBVIOUS
  <2>2. q \in Words /\ q = QueryOf(st.query, t.c, t.s)
    BY <1>6, <2>1, AsksSame
  <2>3. st.on = "yes"
    BY <1>4, <1>6 DEF BodyStep
  <2>4. SearchPart(o, b, pos, st, t, q)
    BY <1>5, <1>6, <2>2, <2>3, SearchReplays
  <2>5. PICK u \in Going :
          /\ u.c.item = t.c.item /\ u.c.query = q /\ u.s.var = t.s.var /\ u.out = t.out \o OldSearch(o, q)
          /\ Meaning(b, pos + 1, t) = Meaning(b, pos + Len(Wrap(st, Merged(o))) + 1, u)
    BY <2>4 DEF SearchPart
  <2>6. OldOne(o, st, Names(l, x)) = OldSearch(o, q)
    BY <1>4, <1>6, <2>1, OldBodyStep
  <2>7. u \in InBody(l, x, i)
    <3>1. ASSUME l.var = "query", \A j \in 1..i : l.body[j].op = "search" => l.body[j].query = "query"
          PROVE  u.c.query \in {None, x}
      <4>1. st.query = "query"
        BY <1>3, <1>6, <3>1
      <4>2. q = x
        BY <2>1, <3>1, <4>1 DEF Wants
      <4> QED
        BY <2>5, <4>2
    <3> QED
      BY <1>5, <2>5, <3>1 DEF InBody
  <2> QED
    BY <1>1, <2>5, <2>6, <2>7 DEF Replayed
<1>7. CASE st.op = "all"
  <2>1. Wrap(st, Merged(o)) = <<st>> /\ st.on \in {"yes", "no"}
    BY <1>4, <1>7 DEF Wrap, BodyStep
  <2>2. CASE st.on = "no"
    <3>1. Onto(b, pos, <<st>>, t, t)
      BY <1>5, <2>1, <2>2, Single
    <3>2. OldOne(o, st, Names(l, x)) = <<>>
      BY <2>2 DEF OldOne
    <3>3. t.out \o <<>> = t.out
      BY <1>5, ConcatEmptySeq DEF Going
    <3>4. t \in InBody(l, x, i)
      BY <1>3, <1>5 DEF InBody
    <3> QED
      BY <1>1, <2>1, <3>1, <3>2, <3>3, <3>4 DEF Replayed, Onto
  <2>3. CASE st.on = "yes"
    <3>1. PICK u \in Going : /\ u.c = t.c /\ u.s.var = t.s.var /\ u.out = t.out \o Asked
                             /\ u = DoneBy(st, t)
      BY <1>5, <1>7, AllMakes
    <3>2. Onto(b, pos, <<st>>, t, u)
      BY <1>5, <2>1, <2>3, <3>1, Single
    <3>3. OldOne(o, st, Names(l, x)) = Asked
      BY <1>4, <1>7, <2>3, OldBodyStep
    <3>4. u \in InBody(l, x, i)
      BY <1>3, <1>5, <3>1 DEF InBody
    <3> QED
      BY <1>1, <2>1, <3>1, <3>2, <3>3, <3>4 DEF Replayed, Onto
  <2> QED
    BY <2>1, <2>2, <2>3
<1> QED
  BY <1>4, <1>6, <1>7 DEF BodyStep

\* The parts of a migrated list.
LEMMA WrapType ==
  ASSUME NEW st, NEW p, NEW T, st \in T, Visit(p) \in T
  PROVE  Wrap(st, p) \in Seq(T)
<1>1. <<st>> \in Seq(T) /\ <<st, Visit(p)>> \in Seq(T)
  OBVIOUS
<1> QED
  BY <1>1 DEF Wrap, Visit

\* The old executor in a round: the events of each step of the body.
LEMMA BodyOlds ==
  ASSUME OldUnfolds, NEW o \in Legacies, Plainly(o), NEW l, LoopOK(o, l), NEW x \in Words, NEW olds,
         olds = [i \in DOMAIN l.body |-> OldOne(o, l.body[i], Names(l, x))]
  PROVE  /\ olds \in Seq(Seq(Events)) /\ Len(olds) = Len(l.body)
         /\ OldRun(o, l.body, Names(l, x)) = FlattenSeq(olds) /\ OldRun(o, l.body, Names(l, x)) \in Seq(Events)
<1>1. PICK n : n = Len(l.body)
  OBVIOUS
<1>2. l.body \in Seq(ToSet(l.body)) /\ l.body \in ListsOf(o)
  BY DEF LoopOK
<1>3. n \in Nat /\ DOMAIN l.body = 1..n
  BY <1>1, <1>2
<1>4. olds \in Seq(Seq(Events)) /\ Len(olds) = n
  <2>1. ASSUME NEW i \in 1..n PROVE olds[i] \in Seq(Events)
    <3>1. BodyStep(o, l, l.body[i])
      BY <1>3, Zenon DEF LoopOK
    <3> QED
      BY <1>3, <3>1, OldBodyStep
  <2>2. olds \in [1..n -> Seq(Events)]
    BY <1>3, <2>1
  <2> QED
    BY <1>3, <2>2
<1>5. OldRun(o, l.body, Names(l, x)) = FlattenSeq(olds)
  <2>1. OldRun(o, l.body, Names(l, x)) = FlattenSeq(OldOnes(o, l.body, Names(l, x)))
    BY <1>2, OldRunIs
  <2> QED
    BY <2>1 DEF OldOnes
<1>6. FlattenSeq(olds) \in Seq(Events)
  BY <1>4, FlattenType
<1> QED
  BY <1>1, <1>4, <1>5, <1>6

\* The migrated body does in a round what the old executor did.
BodyMakes(o, l, x, s) ==
  \E u \in Going : /\ u.out = s.out \o OldRun(o, l.body, Names(l, x))
                   /\ u = Meaning(WrapAll(l.body, Merged(o)), 1, s)

\* By the invariant InBody, step by step.
LEMMA BodyReplays ==
  ASSUME Unfolds, OldUnfolds, NEW o \in Legacies, Plainly(o), NEW l, LoopOK(o, l), NEW x \in Words,
         WrapAll(l.body, Merged(o)) \in Bodies, NEW s \in InBody(l, x, 0)
  PROVE  BodyMakes(o, l, x, s)
<1>1. PICK p, n, b : p = Merged(o) /\ n = Len(l.body) /\ b = WrapAll(l.body, Merged(o))
  OBVIOUS
<1>2. l.body \in Seq(ToSet(l.body)) /\ l.body \in ListsOf(o)
  BY DEF LoopOK
<1>3. n \in Nat /\ DOMAIN l.body = 1..n /\ \A k \in 0..n-1 : k + 1 \in 1..n
  BY <1>1, <1>2
<1>4. PICK pp : pp = [i \in DOMAIN l.body |-> Wrap(l.body[i], p)]
  OBVIOUS
<1>5. PICK olds : olds = [i \in DOMAIN l.body |-> OldOne(o, l.body[i], Names(l, x))]
  OBVIOUS
<1>6. PICK T : T = ToSet(l.body) \cup {Visit(p)}
  OBVIOUS
<1>7. pp \in Seq(Seq(T)) /\ Len(pp) = n
  <2>1. ASSUME NEW i \in 1..n PROVE pp[i] \in Seq(T)
    <3>1. l.body[i] \in T /\ Visit(p) \in T
      BY <1>2, <1>3, <1>6 DEF ToSet
    <3>2. pp[i] = Wrap(l.body[i], p)
      BY <1>3, <1>4
    <3> QED
      BY <3>1, <3>2, WrapType
  <2>2. pp \in [1..n -> Seq(T)]
    BY <1>3, <1>4, <2>1
  <2> QED
    BY <1>3, <2>2
<1>8. olds \in Seq(Seq(Events)) /\ Len(olds) = n /\ OldRun(o, l.body, Names(l, x)) = FlattenSeq(olds)
  BY <1>1, <1>5, BodyOlds
<1>9. PICK K : K = [k \in 0..n |-> InBody(l, x, k)]
  OBVIOUS
<1>10. K \in [0..n -> SUBSET Going] /\ s \in K[0]
  BY <1>3, <1>9 DEF InBody
<1>11. ASSUME NEW k \in 0..n-1, NEW t \in K[k], NEW pos, Placed(b, pos, pp[k+1])
       PROVE  Replayed(b, pos, pp[k+1], t, olds[k+1], K[k+1])
  <2>1. PICK i, st : i = k + 1 /\ st = l.body[i]
    OBVIOUS
  <2>2. i \in 1..n /\ i \in 0..n /\ k \in 0..n
    BY <1>3, <2>1
  <2>3. pp[i] = Wrap(st, Merged(o)) /\ olds[i] = OldOne(o, st, Names(l, x)) /\ K[i] = InBody(l, x, i) /\ t \in InBody(l, x, k)
    BY <1>1, <1>3, <1>4, <1>5, <1>9, <2>1, <2>2
  <2>4. Placed(b, pos, Wrap(st, Merged(o)))
    BY <1>11, <2>1, <2>3
  <2>5. Replayed(b, pos, Wrap(st, Merged(o)), t, OldOne(o, st, Names(l, x)), InBody(l, x, k + 1))
    BY <1>1, <2>1, <2>3, <2>4, BodyPart
  <2> QED
    BY <2>1, <2>3, <2>5
<1>12. b = FlattenSeq(pp)
  BY <1>1, <1>4 DEF WrapAll
<1>13. Replays(b, pp, T, olds, n, K)
  BY <1>1, <1>7, <1>8, <1>10, <1>11, <1>12 DEF Replays
<1>14. ReplayedAll(b, olds, n, K, s)
  BY <1>10, <1>13, ListReplays
<1>15. PICK u \in K[n] : u.out = s.out \o FlattenSeq(olds) /\ Meaning(b, 1, s) = u
  BY <1>14 DEF ReplayedAll
<1>16. u \in Going
  BY <1>3, <1>10
<1> QED
  BY <1>1, <1>8, <1>15, <1>16 DEF BodyMakes

-----------------------------------------------------------------------------
(* Loops.                                                                    *)

\* A round of a loop starts in its body, with the item.
LEMMA Enters ==
  ASSUME NEW w, NEW l, w.op = "each", w.var = l.var, NEW x \in Words, NEW t \in Going, l.var = "query" => t.c.query = None
  PROVE  Bound(w, x, t) \in InBody(l, x, 0) /\ Bound(w, x, t).out = t.out
<1>1. t.c \in Bindings /\ t.s \in Commons
  BY DEF Going
<1>2. PICK d : d = [t.c EXCEPT !.item = x]
  OBVIOUS
<1>3. d \in Bindings /\ d.item = x /\ d.query = t.c.query
  BY <1>1, <1>2 DEF Bindings
<1>4. PICK v : v = IF w.var = "var" THEN x ELSE t.s.var
  OBVIOUS
<1>5. PICK e : e = [t.s EXCEPT !.var = v]
  OBVIOUS
<1>6. e \in Commons /\ e.var = v
  BY <1>1, <1>4, <1>5 DEF Commons
<1>7. PICK y : y = [t EXCEPT !.c = d]
  OBVIOUS
<1>8. y \in Going /\ y.c = d /\ y.s = t.s /\ y.out = t.out
  BY <1>3, <1>7 DEF Going
<1>9. PICK z : z = [y EXCEPT !.s = e]
  OBVIOUS
<1>10. z \in Going /\ z.c = d /\ z.s = e /\ z.out = t.out
  BY <1>6, <1>8, <1>9 DEF Going
<1>11. Bound(w, x, t) = z
  <2>1. y = [t EXCEPT !.c.item = x]
    BY <1>2, <1>7
  <2>2. z = [y EXCEPT !.s.var = v]
    BY <1>5, <1>8, <1>9
  <2>3. [t EXCEPT !.c.item = x, !.s.var = IF w.var = "var" THEN x ELSE @] = [y EXCEPT !.s.var = v]
    BY <2>1, <1>4, <1>8
  <2> QED
    BY <2>2, <2>3 DEF Bound
<1>12. z \in InBody(l, x, 0)
  BY <1>3, <1>4, <1>6, <1>10 DEF InBody
<1> QED
  BY <1>10, <1>11, <1>12

\* A loop of the migrated script.
LoopPart(o, l, t) ==
  \E u \in Going : /\ u.c = t.c /\ u.out = t.out \o OldOne(o, l, <<>>)
                   /\ u = DoneBy([l EXCEPT !.body = WrapAll(@, Merged(o))], t)

\* The old executor in a loop: the events of each round.
LEMMA LoopOlds ==
  ASSUME OldUnfolds, NEW o \in Legacies, Plainly(o), NEW l, LoopOK(o, l), NEW olds,
         olds = [i \in DOMAIN l.items |-> OldRun(o, l.body, Names(l, l.items[i]))]
  PROVE  /\ olds \in Seq(Seq(Events)) /\ Len(olds) = Len(l.items)
         /\ l.on = "yes" => OldOne(o, l, <<>>) = FlattenSeq(olds)
         /\ OldOne(o, l, <<>>) \in Seq(Events)
<1>1. PICK n : n = Len(l.items)
  OBVIOUS
<1>2. l.items \in Seq(Words) /\ n \in Nat /\ DOMAIN l.items = 1..n
  BY <1>1 DEF LoopOK
<1>3. ASSUME NEW i \in 1..n PROVE olds[i] \in Seq(Events)
  <2>1. PICK x \in Words : x = l.items[i]
    BY <1>2
  <2>2. PICK os : os = [j \in DOMAIN l.body |-> OldOne(o, l.body[j], Names(l, x))]
    OBVIOUS
  <2>3. OldRun(o, l.body, Names(l, x)) \in Seq(Events)
    BY <2>2, BodyOlds
  <2> QED
    BY <1>2, <2>1, <2>3
<1>4. olds \in Seq(Seq(Events)) /\ Len(olds) = n
  <2>1. olds \in [1..n -> Seq(Events)]
    BY <1>2, <1>3
  <2> QED
    BY <1>2, <2>1
<1>5. l.on = "yes" => OldOne(o, l, <<>>) = FlattenSeq(olds)
  BY DEF OldOne, LoopOK, Names
<1>6. l.on = "no" => OldOne(o, l, <<>>) = <<>>
  BY DEF OldOne
<1>7. FlattenSeq(olds) \in Seq(Events) /\ <<>> \in Seq(Events)
  BY <1>4, FlattenType
<1>8. l.on \in {"yes", "no"}
  BY DEF LoopOK
<1> QED
  BY <1>1, <1>4, <1>5, <1>6, <1>7, <1>8

\* By the lemma on the body, round by round.
LEMMA LoopReplays ==
  ASSUME Unfolds, OldUnfolds, NEW o \in Legacies, Plainly(o), NEW l, LoopOK(o, l), l.on = "yes",
         WrapAll(l.body, Merged(o)) \in Bodies, NEW t0 \in Going, l.var = "query" => t0.c.query = None
  PROVE  LoopPart(o, l, t0)
<1>1. PICK items, n, w, b : /\ items = l.items /\ n = Len(items)
                            /\ w = [l EXCEPT !.body = WrapAll(@, Merged(o))] /\ b = WrapAll(l.body, Merged(o))
  OBVIOUS
<1>2. items \in Seq(Words) /\ items \in Seq(Ads \cup Words) /\ n \in Nat /\ DOMAIN items = 1..n
      /\ \A k \in 0..n-1 : k + 1 \in 1..n
  BY <1>1 DEF LoopOK
<1>3. w.op = "each" /\ w.var = l.var /\ w.items = items /\ w.body = b
  BY <1>1 DEF LoopOK
<1>4. DoneBy(w, t0) = Rounds(w, items, 1, t0)
  BY <1>3 DEF Done, DoneBy
<1>5. PICK olds : olds = [i \in DOMAIN items |-> OldRun(o, l.body, Names(l, items[i]))]
  OBVIOUS
<1>6. olds \in Seq(Seq(Events)) /\ Len(olds) = n /\ OldOne(o, l, <<>>) = FlattenSeq(olds)
  BY <1>1, <1>5, LoopOlds
<1>8. PICK K : K = [k \in 0..n |-> {t \in Going : t.c = t0.c}]
  OBVIOUS
<1>9. PICK R : R = [k \in 0..n |-> [t \in Going |-> Rounds(w, items, k + 1, t)]]
  OBVIOUS
<1>10. K \in [0..n -> SUBSET Going] /\ t0 \in K[0]
  BY <1>2, <1>8
<1>11. ASSUME NEW k \in 0..n-1, NEW t \in K[k]
       PROVE  \E u \in K[k+1] : u.out = t.out \o olds[k+1] /\ R[k][t] = R[k+1][u]
  <2>0. PICK i : i = k + 1
    OBVIOUS
  <2>1. i \in 1..n /\ i \in 0..n /\ k \in 0..n
    BY <1>2, <2>0
  <2>2. t \in Going /\ t.c = t0.c /\ t.c \in Bindings
    BY <1>8, <2>1 DEF Going
  <2>3. PICK x : x = items[i]
    OBVIOUS
  <2>4. x \in Words /\ olds[i] = OldRun(o, l.body, Names(l, x))
    BY <1>2, <1>5, <2>1, <2>3
  <2>5. R[k][t] = Rounds(w, items, i, t) /\ \A u \in Going : R[i][u] = Rounds(w, items, i + 1, u)
    BY <1>9, <2>0, <2>1, <2>2
  <2>6. PICK s : s = Bound(w, x, t)
    OBVIOUS
  <2>7. s \in InBody(l, x, 0) /\ s.out = t.out
    BY <1>3, <2>2, <2>4, <2>6, Enters
  <2>8. BodyMakes(o, l, x, s)
    BY <1>1, <2>4, <2>7, BodyReplays
  <2>9. PICK m \in Going : m.out = s.out \o olds[i] /\ m = Meaning(b, 1, s)
    BY <1>1, <2>4, <2>8 DEF BodyMakes
  <2>10. Further(w, items, i, t.c, m)
    BY <2>2, <2>9, GoesOn
  <2>11. PICK e \in Going : /\ e.c = t.c /\ e.s = m.s /\ e.out = m.out
                            /\ Ends(w, items, i, t.c, m) = Rounds(w, items, i + 1, e)
    BY <2>10 DEF Further
  <2>12. Rounds(w, items, i, t) = Ends(w, items, i, t.c, m)
    <3>1. Len(items) = n
      BY <1>1
    <3>2. Rounds(w, items, i, t) = Ends(w, items, i, t.c, Meaning(w.body, 1, Bound(w, items[i], t)))
      BY <1>2, <2>1, <3>1, OneRound
    <3> QED
      BY <1>3, <2>3, <2>6, <2>9, <3>2
  <2>13. e \in K[i]
    BY <1>8, <2>1, <2>2, <2>11
  <2>14. e.out = t.out \o olds[i]
    BY <2>7, <2>9, <2>11
  <2>15. R[k][t] = R[i][e]
    BY <2>5, <2>11, <2>12
  <2> QED
    BY <2>0, <2>13, <2>14, <2>15
<1>12. PICK u \in K[n] : u.out = t0.out \o FlattenSeq(olds) /\ R[0][t0] = R[n][u]
  <2>1. Passes(olds, n, K, R)
    BY <1>6, <1>10, <1>11 DEF Passes
  <2>2. Arrives(olds, n, K, R, t0)
    BY <1>10, <2>1, Through
  <2> QED
    BY <2>2 DEF Arrives
<1>13. u \in Going /\ u.c = t0.c
  BY <1>2, <1>8
<1>14. R[0][t0] = Rounds(w, items, 1, t0) /\ R[n][u] = Rounds(w, items, n + 1, u)
  <2>1. 0 \in 0..n /\ n \in 0..n /\ 0 + 1 = 1
    BY <1>2
  <2> QED
    BY <2>1, <1>9, <1>13
<1>15. Rounds(w, items, n + 1, u) = u
  BY <1>1, <1>2, NoRound
<1>16. u = DoneBy(w, t0)
  BY <1>4, <1>12, <1>14, <1>15, Zenon
<1> QED
  BY <1>1, <1>6, <1>12, <1>13, <1>16 DEF LoopPart

\* In the script, after k steps.
InMain(o, k) == {t \in Going : (\A j \in 1..k : o.main[j].op # "search") => t.c.query = None}

\* The part of the flow that stands for a step of the script.
Part(o, st) == IF st.op = "each" THEN <<[st EXCEPT !.body = WrapAll(@, Merged(o))]>> ELSE Wrap(st, Merged(o))

\* What the old executor did for a step outside loops.
LEMMA OldMainStep ==
  ASSUME NEW o, Plainly(o), NEW st, MainStep(o, st), st.op # "each"
  PROVE  /\ st.op = "search" => OldOne(o, st, <<>>) = OldSearch(o, st.query)
         /\ st.op = "all" => OldOne(o, st, <<>>) = IF st.on = "no" THEN <<>> ELSE Asked
         /\ OldOne(o, st, <<>>) \in Seq(Events) /\ st.op \in {"search", "all"}
<1>1. Of(st.query, <<>>) = st.query
  BY NamesIs
<1>2. CASE st.op = "search"
  <2>1. st.on = "yes" /\ st.query \in Words
    BY <1>2 DEF MainStep, Loops
  <2>2. OldOne(o, st, <<>>) = OldSearch(o, st.query)
    BY <1>1, <1>2, <2>1 DEF OldOne
  <2>3. OldSearch(o, st.query) \in Seq(Events)
    BY <2>1, OldSearchIs
  <2> QED
    BY <1>2, <2>2, <2>3
<1>3. CASE st.op = "all"
  <2>1. st.on \in {"yes", "no"} /\ Merged(o) = <<>>
    BY <1>3 DEF MainStep, Loops
  <2>2. OldOne(o, st, <<>>) = IF st.on = "no" THEN <<>> ELSE Asked
    BY <1>3, <2>1, OldAllIs DEF OldOne
  <2>3. <<>> \in Seq(Events)
    OBVIOUS
  <2> QED
    BY <1>3, <2>1, <2>2, <2>3, AskedType
<1> QED
  BY <1>2, <1>3 DEF MainStep, Loops

-----------------------------------------------------------------------------
(* The script.                                                               *)

\* A step of the script, in the flow.
LEMMA MainPart ==
  ASSUME Unfolds, OldUnfolds, NEW o \in Legacies, Faithful(o), NEW b \in Bodies,
         NEW k \in 0..Len(o.main)-1, NEW t \in InMain(o, k), NEW st, st = o.main[k+1],
         NEW pos, Placed(b, pos, Part(o, st))
  PROVE  Replayed(b, pos, Part(o, st), t, OldOne(o, st, <<>>), InMain(o, k + 1))
<1>1. PICK i : i = k + 1
  OBVIOUS
<1>2. o.main \in Seq(ToSet(o.main)) /\ Plainly(o)
  BY FaithfulFacts
<1>3. i \in DOMAIN o.main /\ i \in 1..i /\ (\A j \in 1..k : j \in 1..i /\ j \in DOMAIN o.main /\ j < i) /\ st = o.main[i]
  BY <1>1, <1>2
<1>4. MainStep(o, st)
  BY <1>3, FaithfulFacts, Zenon
<1>5. t \in Going
  BY DEF InMain
<1>6. CASE st.op = "search"
  <2>1. PICK q \in Words : q = st.query /\ st.on = "yes"
    BY <1>4, <1>6 DEF MainStep, Loops
  <2>2. Words \cap {"item", "var", "query"} = {} /\ None \notin Words
    BY LegacyAssumption DEF Placeholders
  <2>3. q = QueryOf(st.query, t.c, t.s)
    <3>1. Value(q, t.c, t.s) = q
      BY <2>2 DEF Value
    <3> QED
      BY <2>1, <2>2, <3>1 DEF QueryOf
  <2>4. Part(o, st) = Wrap(st, Merged(o))
    BY <1>6 DEF Part
  <2>5. SearchPart(o, b, pos, st, t, q)
    BY <1>2, <1>5, <1>6, <2>1, <2>3, <2>4, SearchReplays
  <2>6. PICK u \in Going : /\ u.out = t.out \o OldSearch(o, q)
                           /\ Meaning(b, pos + 1, t) = Meaning(b, pos + Len(Wrap(st, Merged(o))) + 1, u)
    BY <2>5 DEF SearchPart
  <2>7. OldOne(o, st, <<>>) = OldSearch(o, q)
    BY <1>2, <1>4, <1>6, <2>1, OldMainStep
  <2>8. u \in InMain(o, i)
    BY <1>3, <1>6 DEF InMain
  <2> QED
    BY <1>1, <2>4, <2>6, <2>7, <2>8 DEF Replayed
<1>7. CASE st.op = "all"
  <2>1. Part(o, st) = <<st>> /\ st.on \in {"yes", "no"}
    BY <1>4, <1>7 DEF Part, Wrap, MainStep, Loops
  <2>2. \A u \in Going : u.c = t.c => u \in InMain(o, i)
    BY <1>3 DEF InMain
  <2>3. CASE st.on = "no"
    <3>1. Onto(b, pos, <<st>>, t, t)
      BY <1>5, <2>1, <2>3, Single
    <3>2. OldOne(o, st, <<>>) = <<>>
      BY <2>3 DEF OldOne
    <3>3. t.out \o <<>> = t.out
      BY <1>5, ConcatEmptySeq DEF Going
    <3>4. t \in InMain(o, i)
      BY <1>5, <2>2
    <3> QED
      BY <1>1, <2>1, <3>1, <3>2, <3>3, <3>4 DEF Replayed, Onto
  <2>4. CASE st.on = "yes"
    <3>1. PICK u \in Going : u.c = t.c /\ u.out = t.out \o Asked /\ u = DoneBy(st, t)
      BY <1>5, <1>7, AllMakes
    <3>2. Onto(b, pos, <<st>>, t, u)
      BY <1>5, <2>1, <2>4, <3>1, Single
    <3>3. OldOne(o, st, <<>>) = Asked
      BY <1>2, <1>4, <1>7, <2>4, OldMainStep
    <3>4. u \in InMain(o, i)
      BY <2>2, <3>1
    <3> QED
      BY <1>1, <2>1, <3>1, <3>2, <3>3, <3>4 DEF Replayed, Onto
  <2> QED
    BY <2>1, <2>3, <2>4
<1>8. CASE st \in Loops(o)
  <2>1. st.op = "each" /\ LoopOK(o, st)
    BY <1>8, FaithfulFacts DEF Loops
  <2>2. PICK w : w = [st EXCEPT !.body = WrapAll(@, Merged(o))]
    OBVIOUS
  <2>3. Part(o, st) = <<w>>
    BY <2>1, <2>2 DEF Part
  <2>4. w.op = "each" /\ w.on = st.on /\ w.on \in {"yes", "no"} /\ w.body = WrapAll(st.body, Merged(o))
    BY <2>1, <2>2 DEF LoopOK
  <2>5. \A u \in Going : u.c = t.c => u \in InMain(o, i)
    BY <1>3 DEF InMain
  <2>6. CASE w.on = "no"
    <3>1. Onto(b, pos, <<w>>, t, t)
      BY <1>5, <2>3, <2>6, Single
    <3>2. OldOne(o, st, <<>>) = <<>>
      BY <2>4, <2>6 DEF OldOne
    <3>3. t.out \o <<>> = t.out
      BY <1>5, ConcatEmptySeq DEF Going
    <3>4. t \in InMain(o, i)
      BY <1>5, <2>5
    <3> QED
      BY <1>1, <2>3, <3>1, <3>2, <3>3, <3>4 DEF Replayed, Onto
  <2>7. CASE w.on = "yes"
    <3>1. w \in ToSet(b)
      BY <1>5, <2>3, Single
    <3>2. w.body \in Bodies
      BY <2>4, <3>1, BodiesAssumption DEF Well
    <3>3. st.var = "query" => t.c.query = None
      <4> SUFFICES ASSUME st.var = "query" PROVE t.c.query = None
        OBVIOUS
      <4>1. ASSUME NEW j \in 1..k PROVE o.main[j].op # "search"
        <5>1. j \in DOMAIN o.main /\ j < i
          BY <1>3
        <5> QED
          BY <1>3, <2>1, <5>1, FaithfulFacts
      <4> QED
        BY <4>1 DEF InMain
    <3>4. LoopPart(o, st, t)
      BY <1>2, <1>5, <2>1, <2>4, <2>7, <3>2, <3>3, LoopReplays
    <3>5. PICK u \in Going : u.c = t.c /\ u.out = t.out \o OldOne(o, st, <<>>) /\ u = DoneBy(w, t)
      BY <2>2, <3>4 DEF LoopPart
    <3>6. Onto(b, pos, <<w>>, t, u)
      BY <1>5, <2>3, <2>7, <3>5, Single
    <3>7. u \in InMain(o, i)
      BY <2>5, <3>5
    <3> QED
      BY <1>1, <2>3, <3>5, <3>6, <3>7 DEF Replayed, Onto
  <2> QED
    BY <2>4, <2>6, <2>7
<1> QED
  BY <1>4, <1>6, <1>7, <1>8 DEF MainStep

\* The flow makes what the old executor did.
LEMMA MainReplays ==
  ASSUME Unfolds, OldUnfolds, NEW o \in Legacies, Faithful(o), NEW s \in InMain(o, 0)
  PROVE  /\ Meaning(Migrate(o), 1, s).out = s.out \o OldRun(o, o.main, <<>>)
         /\ OldRun(o, o.main, <<>>) \in Seq(Events)
<1>1. PICK p, n, b : p = Merged(o) /\ n = Len(o.main) /\ b = Migrate(o)
  OBVIOUS
<1>2. o.main \in Seq(ToSet(o.main)) /\ o.main \in ListsOf(o) /\ Plainly(o) /\ \A l \in Loops(o) : LoopOK(o, l)
  BY FaithfulFacts
<1>3. n \in Nat /\ DOMAIN o.main = 1..n /\ \A k \in 0..n-1 : k + 1 \in 1..n
  BY <1>1, <1>2
<1>4. b \in Bodies
  BY <1>1, BodiesAssumption
<1>5. PICK pp : pp = [i \in DOMAIN o.main |-> Part(o, o.main[i])]
  OBVIOUS
<1>6. b = FlattenSeq(pp)
  BY <1>1, <1>5 DEF Migrate, Part
<1>7. PICK olds : olds = [i \in DOMAIN o.main |-> OldOne(o, o.main[i], <<>>)]
  OBVIOUS
<1>8. OldRun(o, o.main, <<>>) = FlattenSeq(olds)
  <2>1. OldRun(o, o.main, <<>>) = FlattenSeq(OldOnes(o, o.main, <<>>))
    BY <1>2, OldRunIs
  <2> QED
    BY <1>7, <2>1 DEF OldOnes
<1>9. PICK T : T = ToSet(o.main) \cup {[st EXCEPT !.body = WrapAll(@, Merged(o))] : st \in ToSet(o.main)} \cup {Visit(p)}
  OBVIOUS
<1>10. pp \in Seq(Seq(T)) /\ Len(pp) = n
  <2>1. ASSUME NEW i \in 1..n PROVE pp[i] \in Seq(T)
    <3>1. PICK st : st = o.main[i]
      OBVIOUS
    <3>2. st \in ToSet(o.main)
      BY <1>2, <1>3, <3>1 DEF ToSet
    <3>3. PICK w : w = [st EXCEPT !.body = WrapAll(@, Merged(o))]
      OBVIOUS
    <3>4. w \in T /\ st \in T /\ Visit(p) \in T
      BY <1>9, <3>2, <3>3
    <3>5. pp[i] = Part(o, st)
      BY <1>3, <1>5, <3>1
    <3>6. <<w>> \in Seq(T)
      BY <3>4
    <3>7. Wrap(st, p) \in Seq(T)
      BY <3>4, WrapType
    <3> QED
      BY <1>1, <3>3, <3>5, <3>6, <3>7 DEF Part
  <2>2. pp \in [1..n -> Seq(T)]
    BY <1>3, <1>5, <2>1
  <2> QED
    BY <1>3, <2>2
<1>11. olds \in Seq(Seq(Events)) /\ Len(olds) = n
  <2>1. ASSUME NEW i \in 1..n PROVE olds[i] \in Seq(Events)
    <3>1. PICK st : st = o.main[i]
      OBVIOUS
    <3>2. MainStep(o, st) /\ olds[i] = OldOne(o, st, <<>>)
      BY <1>3, <1>7, <3>1, FaithfulFacts
    <3>3. CASE st \in Loops(o)
      <4>1. PICK os : os = [j \in DOMAIN st.items |-> OldRun(o, st.body, Names(st, st.items[j]))]
        OBVIOUS
      <4>2. LoopOK(o, st)
        BY <1>2, <3>3
      <4> QED
        BY <1>2, <3>2, <4>1, <4>2, LoopOlds
    <3>4. CASE st \notin Loops(o)
      <4>1. st.op # "each"
        BY <3>2, <3>4 DEF MainStep
      <4> QED
        BY <1>2, <3>2, <4>1, OldMainStep
    <3> QED
      BY <3>3, <3>4
  <2>2. olds \in [1..n -> Seq(Events)]
    BY <1>3, <1>7, <2>1
  <2> QED
    BY <1>3, <2>2
<1>12. PICK K : K = [k \in 0..n |-> InMain(o, k)]
  OBVIOUS
<1>13. K \in [0..n -> SUBSET Going] /\ s \in K[0]
  BY <1>3, <1>12 DEF InMain
<1>14. ASSUME NEW k \in 0..n-1, NEW t \in K[k], NEW pos, Placed(b, pos, pp[k+1])
       PROVE  Replayed(b, pos, pp[k+1], t, olds[k+1], K[k+1])
  <2>1. PICK i, st : i = k + 1 /\ st = o.main[i]
    OBVIOUS
  <2>2. i \in 1..n /\ i \in 0..n /\ k \in 0..n
    BY <1>3, <2>1
  <2>3. pp[i] = Part(o, st) /\ olds[i] = OldOne(o, st, <<>>) /\ K[i] = InMain(o, i) /\ t \in InMain(o, k)
    BY <1>3, <1>5, <1>7, <1>12, <2>1, <2>2
  <2>4. Placed(b, pos, Part(o, st))
    BY <1>14, <2>1, <2>3
  <2>5. Replayed(b, pos, Part(o, st), t, OldOne(o, st, <<>>), InMain(o, k + 1))
    BY <1>1, <1>4, <2>1, <2>3, <2>4, MainPart
  <2> QED
    BY <2>1, <2>3, <2>5
<1>15. Replays(b, pp, T, olds, n, K)
  BY <1>4, <1>6, <1>10, <1>11, <1>13, <1>14 DEF Replays
<1>16. ReplayedAll(b, olds, n, K, s)
  BY <1>13, <1>15, ListReplays
<1>17. OldRun(o, o.main, <<>>) \in Seq(Events)
  BY <1>8, <1>11, FlattenType
<1> QED
  BY <1>1, <1>8, <1>16, <1>17 DEF ReplayedAll

\* The old configuration that was migrated stays, and its flow.
Migrated == old = None \/ (old \in Legacies /\ flow = Migrate(old))

\* No step of the executor changes them.
LEMMA MigratedStays == FlowSpec => []Migrated
<1>1. FlowInit => Migrated
  BY DEF FlowInit, Migrated
<1>2. Migrated /\ [FlowNext]_flowVars => Migrated'
  <2> SUFFICES ASSUME Migrated, [FlowNext]_flowVars PROVE Migrated'
    OBVIOUS
  <2>1. UNCHANGED <<old, flow>>
    BY DEF FlowNext, flowVars, Skip, If, Signal, EachAd, Each, Return, Round, Search, SearchAll, Catch, Save, Click
  <2> QED
    BY <2>1 DEF Migrated
<1> QED
  BY <1>1, <1>2, PTL DEF FlowSpec

(* A migrated flow that is over has searched and clicked what the old        *)
(* executor did with the configuration it was made from, in that order: for  *)
(* any faithful configuration, queries and ads, whatever the loops and the   *)
(* pipelines hold.  OldUnfolds only says what the word OldRun means.         *)
THEOREM MigrationReplays == ASSUME Unfolds, OldUnfolds PROVE FlowSpec => []MigrationKeeps
<1>1. FlowInv /\ Migrated => MigrationKeeps
  <2> SUFFICES ASSUME FlowInv, Migrated, stack = <<>>, old # None, Faithful(old)
               PROVE  out = OldRun(old, old.main, <<>>)
    BY DEF MigrationKeeps
  <2>1. old \in Legacies /\ flow = Migrate(old)
    BY DEF Migrated
  <2>2. out = Meaning(flow, 1, Begin).out
    BY DEF FlowInv, FlowFollowsText
  <2>3. Begin \in Going /\ Begin.c.query = None /\ Begin.out = <<>>
    BY DEF Begin, Going, Bindings, Commons, Events, FlowInv, FlowTypes
  <2>4. Begin \in InMain(old, 0)
    BY <2>3 DEF InMain
  <2>5. /\ Meaning(flow, 1, Begin).out = Begin.out \o OldRun(old, old.main, <<>>)
        /\ OldRun(old, old.main, <<>>) \in Seq(Events)
    BY <2>1, <2>4, MainReplays
  <2> QED
    BY <2>2, <2>3, <2>5, ConcatEmptySeq
<1> QED
  BY <1>1, FlowInvariant, MigratedStays, PTL
=============================================================================
