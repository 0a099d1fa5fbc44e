--------------------------- MODULE JobQueueProofs ---------------------------
(***************************************************************************)
(* Proofs about JobQueue for any number of jobs, workers and callers: the  *)
(* inductive invariant, the safety invariants that follow from it, and     *)
(* that every behaviour of the queue is one of JobContract.                *)
(***************************************************************************)
EXTENDS JobQueue, CardinalityLemmas, TLAPS

\* Where a job is in enqueue decides what the executor and the registry hold.
CallInv == \A j \in Jobs :
  /\ call[j] \in {"idle", "admitted", "refused"} => future[j] = "none" /\ status[j] = "absent"
  /\ call[j] = "submitted" => /\ status[j] = "absent"
                              /\ future[j] \in {"pending", "taken", "bailed"}
  /\ call[j] = "returned" /\ future[j] \in {"pending", "taken"} => status[j] = "queued"

\* A confirmed cancellation left its mark on the future, which nothing removes.
RevokedInv == \A j \in revoked : future[j] = "cancelled"

Bounds == /\ Cardinality(Busy) <= MaxWorkers
          /\ Cardinality(InFlight) <= MaxCallers

IInv == TypeOK /\ CallInv /\ RevokedInv /\ RunningIffExecuting /\ Bounds /\ QueueBounded
-----------------------------------------------------------------------------
\* The three counted sets are finite in every state.
LEMMA CountedSetsFinite ==
  /\ IsFiniteSet(Active) /\ IsFiniteSet(Busy) /\ IsFiniteSet(InFlight)
  /\ Cardinality(Active) \in Nat /\ Cardinality(Busy) \in Nat /\ Cardinality(InFlight) \in Nat
<1>1. Active \subseteq Jobs /\ Busy \subseteq Jobs /\ InFlight \subseteq Jobs
  BY DEF Active, Busy, InFlight
<1> QED
  BY <1>1, JobsFinite, SmallerSet

LEMMA InitInv == Init => IInv
<1> SUFFICES ASSUME Init PROVE IInv
  OBVIOUS
<1> USE DEF Init
<1>1. TypeOK
  BY DEF TypeOK, Call, Future, Status
<1>2. CallInv /\ RevokedInv /\ RunningIffExecuting
  BY DEF CallInv, RevokedInv, RunningIffExecuting
<1>3. Active = {} /\ Busy = {} /\ InFlight = {}
  BY DEF Active, Busy, InFlight
<1>4. Active \cup InFlight = {}
  BY <1>3
<1> QED
  BY <1>1, <1>2, <1>3, <1>4, FS_EmptySet, SizesAssumption DEF IInv, Bounds, QueueBounded

\* The type of every step, from the type alone.
LEMMA StepType == TypeOK /\ [Next]_vars => TypeOK'
<1> SUFFICES ASSUME TypeOK, [Next]_vars PROVE TypeOK'
  OBVIOUS
<1> USE DEF TypeOK, Call, Future, Status
<1>1. Swept \in [Jobs -> Status]
  BY DEF Swept
<1>2. CASE GetStatus
  BY <1>1, <1>2 DEF GetStatus
<1>3. ASSUME NEW j \in Jobs, Admit(j) PROVE TypeOK'
  BY <1>1, <1>3 DEF Admit
<1>4. ASSUME NEW j \in Jobs, Submit(j) PROVE TypeOK'
  BY <1>4 DEF Submit
<1>5. ASSUME NEW j \in Jobs, Register(j) PROVE TypeOK'
  BY <1>5 DEF Register
<1>6. ASSUME NEW j \in Jobs, Take(j) PROVE TypeOK'
  BY <1>6 DEF Take
<1>7. ASSUME NEW j \in Jobs, Start(j) PROVE TypeOK'
  BY <1>7 DEF Start
<1>8. ASSUME NEW j \in Jobs, Finish(j) PROVE TypeOK'
  BY <1>8 DEF Finish
<1>9. ASSUME NEW j \in Jobs, Cancel(j) PROVE TypeOK'
  BY <1>9 DEF Cancel
<1>10. ASSUME NEW j \in Jobs, Expire(j) PROVE TypeOK'
  BY <1>10 DEF Expire
<1>11. CASE UNCHANGED vars
  BY <1>11 DEF vars
<1> QED
  BY <1>2, <1>3, <1>4, <1>5, <1>6, <1>7, <1>8, <1>9, <1>10, <1>11 DEF Next

\* GetStatus and Admit sweep the registry: only finished jobs disappear.
LEMMA SweptKeeps ==
  ASSUME TypeOK, status' = Swept
  PROVE  /\ Active' = Active
         /\ \A j \in Jobs : status[j] \in {"absent", "queued", "running"} => status'[j] = status[j]
         /\ \A j \in Jobs : status'[j] # "absent" => status'[j] = status[j]
BY DEF TypeOK, Status, Active, Swept, Finished
-----------------------------------------------------------------------------
\* The parts of the invariant that speak of one job at a time.
LEMMA StepLocal ==
  TypeOK /\ CallInv /\ RevokedInv /\ RunningIffExecuting /\ [Next]_vars
    => (CallInv /\ RevokedInv /\ RunningIffExecuting)'
<1> DEFINE Local == CallInv /\ RevokedInv /\ RunningIffExecuting
<1> SUFFICES ASSUME TypeOK, Local, [Next]_vars PROVE Local'
  OBVIOUS
<1> USE DEF CallInv, RevokedInv, RunningIffExecuting
<1>0. TypeOK'
  BY StepType
<1>1. CASE GetStatus
  BY <1>1, SweptKeeps DEF GetStatus, TypeOK, Status
<1>2. ASSUME NEW j \in Jobs, Admit(j) PROVE Local'
  BY <1>2, SweptKeeps DEF Admit, TypeOK, Status, Call
<1>3. ASSUME NEW j \in Jobs, Submit(j) PROVE Local'
  BY <1>3 DEF Submit, TypeOK
<1>4. ASSUME NEW j \in Jobs, Register(j) PROVE Local'
  BY <1>4 DEF Register, TypeOK
<1>5. ASSUME NEW j \in Jobs, Take(j) PROVE Local'
  BY <1>5 DEF Take, TypeOK
<1>6. ASSUME NEW j \in Jobs, Start(j) PROVE Local'
  BY <1>6 DEF Start, TypeOK, Call
<1>7. ASSUME NEW j \in Jobs, Finish(j) PROVE Local'
  BY <1>7 DEF Finish, TypeOK, Call
<1>8. ASSUME NEW j \in Jobs, Cancel(j) PROVE Local'
  BY <1>8 DEF Cancel, TypeOK, Call
<1>9. ASSUME NEW j \in Jobs, Expire(j) PROVE Local'
  BY <1>9 DEF Expire
<1>10. CASE UNCHANGED vars
  BY <1>10 DEF vars
<1> QED
  BY <1>1, <1>2, <1>3, <1>4, <1>5, <1>6, <1>7, <1>8, <1>9, <1>10 DEF Next

\* The counted sets grow in Take (Busy) and in Admit (InFlight) only, and the
\* union that QueueBounded counts grows in Admit only.
LEMMA StepSets ==
  ASSUME IInv, [Next]_vars
  PROVE  /\ \/ Busy' \subseteq Busy
            \/ \E j \in Jobs : Cardinality(Busy) < MaxWorkers /\ Busy' \subseteq Busy \cup {j}
         /\ \/ InFlight' \subseteq InFlight /\ (Active \cup InFlight)' \subseteq Active \cup InFlight
            \/ \E j \in Jobs : /\ Cardinality(InFlight) < MaxCallers
                               /\ Cardinality(Active) < QueueMax
                               /\ Active' = Active
                               /\ InFlight' \subseteq InFlight \cup {j}
<1> DEFINE Goal == /\ \/ Busy' \subseteq Busy
                      \/ \E j \in Jobs : Cardinality(Busy) < MaxWorkers /\ Busy' \subseteq Busy \cup {j}
                   /\ \/ InFlight' \subseteq InFlight
                         /\ (Active \cup InFlight)' \subseteq Active \cup InFlight
                      \/ \E j \in Jobs : /\ Cardinality(InFlight) < MaxCallers
                                         /\ Cardinality(Active) < QueueMax
                                         /\ Active' = Active
                                         /\ InFlight' \subseteq InFlight \cup {j}
<1> USE DEF IInv
<1>1. CASE GetStatus
  BY <1>1, SweptKeeps DEF GetStatus, Busy, InFlight
<1>2. ASSUME NEW j \in Jobs, Admit(j) PROVE Goal
  <2>1. Busy' \subseteq Busy /\ Active' = Active
    BY <1>2, SweptKeeps DEF Admit, Busy
  <2>2. CASE Cardinality(Active) < QueueMax
    <3>1. InFlight' \subseteq InFlight \cup {j}
      BY <1>2, <2>2 DEF Admit, InFlight, TypeOK
    <3> QED
      BY <1>2, <2>1, <2>2, <3>1 DEF Admit
  <2>3. CASE ~(Cardinality(Active) < QueueMax)
    <3>1. InFlight' \subseteq InFlight
      BY <1>2, <2>3 DEF Admit, InFlight, TypeOK
    <3> QED
      BY <2>1, <3>1
  <2> QED
    BY <2>2, <2>3
<1>3. ASSUME NEW j \in Jobs, Submit(j) PROVE Goal
  BY <1>3 DEF Submit, Busy, Active, InFlight, TypeOK
<1>4. ASSUME NEW j \in Jobs, Register(j) PROVE Goal
  BY <1>4 DEF Register, Busy, Active, InFlight, TypeOK
<1>5. ASSUME NEW j \in Jobs, Take(j) PROVE Goal
  <2>1. Busy' \subseteq Busy \cup {j}
    BY <1>5 DEF Take, Busy, TypeOK
  <2>2. InFlight' = InFlight /\ Active' = Active
    BY <1>5 DEF Take, InFlight, Active
  <2> QED
    BY <1>5, <2>1, <2>2 DEF Take
<1>6. ASSUME NEW j \in Jobs, Start(j) PROVE Goal
  BY <1>6 DEF Start, Busy, Active, InFlight, TypeOK, CallInv, Call
<1>7. ASSUME NEW j \in Jobs, Finish(j) PROVE Goal
  BY <1>7 DEF Finish, Busy, Active, InFlight, TypeOK
<1>8. ASSUME NEW j \in Jobs, Cancel(j) PROVE Goal
  BY <1>8 DEF Cancel, Busy, Active, InFlight, TypeOK
<1>9. ASSUME NEW j \in Jobs, Expire(j) PROVE Goal
  BY <1>9 DEF Expire, Busy, Active, InFlight
<1>10. CASE UNCHANGED vars
  BY <1>10 DEF vars, Busy, Active, InFlight
<1> QED
  BY <1>1, <1>2, <1>3, <1>4, <1>5, <1>6, <1>7, <1>8, <1>9, <1>10 DEF Next

\* The counts stay within their limits: whoever makes a set grow counted it.
LEMMA StepBounds == IInv /\ [Next]_vars => Bounds' /\ QueueBounded'
<1> SUFFICES ASSUME IInv, [Next]_vars PROVE Bounds' /\ QueueBounded'
  OBVIOUS
<1> USE SizesAssumption
<1>1. Bounds /\ QueueBounded
  BY DEF IInv
<1>2. Cardinality(Busy') <= MaxWorkers
  <2>1. CASE Busy' \subseteq Busy
    BY <1>1, <2>1, CountedSetsFinite, SmallerSet DEF Bounds
  <2>2. ASSUME NEW j \in Jobs, Cardinality(Busy) < MaxWorkers, Busy' \subseteq Busy \cup {j}
        PROVE  Cardinality(Busy') <= MaxWorkers
    <3>1. IsFiniteSet(Busy \cup {j}) /\ Cardinality(Busy \cup {j}) <= Cardinality(Busy) + 1
      BY CountedSetsFinite, OneMore
    <3> QED
      BY <2>2, <3>1, CountedSetsFinite, SmallerSet
  <2> QED
    BY <2>1, <2>2, StepSets
<1>3. Cardinality(InFlight') <= MaxCallers /\ QueueBounded'
  <2>1. IsFiniteSet(Active \cup InFlight)
    BY CountedSetsFinite, Together
  <2>2. CASE InFlight' \subseteq InFlight /\ (Active \cup InFlight)' \subseteq Active \cup InFlight
    <3>1. Cardinality(InFlight') <= MaxCallers
      BY <1>1, <2>2, CountedSetsFinite, SmallerSet DEF Bounds
    <3>2. Cardinality((Active \cup InFlight)') < QueueMax + MaxCallers
      BY <1>1, <2>1, <2>2, SmallerSet DEF QueueBounded
    <3> QED
      BY <3>1, <3>2 DEF QueueBounded
  <2>3. ASSUME NEW j \in Jobs,
               Cardinality(InFlight) < MaxCallers, Cardinality(Active) < QueueMax,
               Active' = Active, InFlight' \subseteq InFlight \cup {j}
        PROVE  Cardinality(InFlight') <= MaxCallers /\ QueueBounded'
    <3>1. /\ IsFiniteSet(InFlight \cup {j})
          /\ Cardinality(InFlight \cup {j}) <= Cardinality(InFlight) + 1
      BY CountedSetsFinite, OneMore
    <3>2. IsFiniteSet(InFlight') /\ Cardinality(InFlight') \in Nat
          /\ Cardinality(InFlight') <= MaxCallers
      BY <2>3, <3>1, CountedSetsFinite, SmallerSet
    <3>3. Cardinality(Active \cup InFlight') <= Cardinality(Active) + Cardinality(InFlight')
      BY <3>2, CountedSetsFinite, Together
    <3>4. IsFiniteSet(Active \cup InFlight') /\ Cardinality(Active \cup InFlight') \in Nat
      BY <3>2, CountedSetsFinite, Together
    <3>5. Cardinality(Active \cup InFlight') < QueueMax + MaxCallers
      BY <2>3, <3>2, <3>3, <3>4, CountedSetsFinite
    <3> QED
      BY <2>3, <3>2, <3>5 DEF QueueBounded
  <2> QED
    BY <2>2, <2>3, StepSets
<1> QED
  BY <1>2, <1>3 DEF Bounds

LEMMA StepInv == IInv /\ [Next]_vars => IInv'
BY StepType, StepLocal, StepBounds DEF IInv

\* The invariant holds in every reachable state.
THEOREM Invariance == Spec => []IInv
BY InitInv, StepInv, PTL DEF Spec
-----------------------------------------------------------------------------
\* Type correctness: a job never gets a state the clients do not know.
THEOREM TypeCorrect == Spec => []TypeOK
<1>1. IInv => TypeOK
  BY DEF IInv
<1> QED
  BY <1>1, Invariance, PTL

\* cancel answered True: the job is never executed, whatever the pool does.
THEOREM CancelSound == Spec => []CancelledNeverRuns
<1>1. IInv => CancelledNeverRuns
  BY DEF IInv, RevokedInv, CancelledNeverRuns
<1> QED
  BY <1>1, Invariance, PTL

\* The registry says "running" exactly while a worker executes the job.
THEOREM RunningSound == Spec => []RunningIffExecuting
<1>1. IInv => RunningIffExecuting
  BY DEF IInv
<1> QED
  BY <1>1, Invariance, PTL

\* The queue limit, with the slack of the callers between the two sections.
THEOREM QueueLimit == Spec => []QueueBounded
<1>1. IInv => QueueBounded
  BY DEF IInv
<1> QED
  BY <1>1, Invariance, PTL
-----------------------------------------------------------------------------
\* What leaves the registry was finished and older than its time to live.
THEOREM ResultsKept == Spec => ResultKept
<1> DEFINE Kept == \A j \in Jobs : status[j] # "absent" /\ status'[j] = "absent"
                                     => Finished(j) /\ j \in expired
<1>1. IInv /\ [Next]_vars => [Kept]_vars
  <2> SUFFICES ASSUME TypeOK, RunningIffExecuting, CallInv, Next PROVE Kept
    BY DEF IInv
  <2>1. ASSUME status' = Swept PROVE Kept
    BY <2>1 DEF Swept, TypeOK
  <2>2. ASSUME NEW j \in Jobs,
               Submit(j) \/ Register(j) \/ Take(j) \/ Start(j) \/ Finish(j) \/ Cancel(j) \/ Expire(j)
        PROVE  Kept
    BY <2>2 DEF TypeOK, Submit, Register, Take, Start, Finish, Cancel, Expire
  <2> QED
    BY <2>1, <2>2 DEF Next, GetStatus, Admit
<1> QED
  BY <1>1, Invariance, PTL DEF Spec, ResultKept
-----------------------------------------------------------------------------
(* The refinement: what a client polls follows JobContract.                *)

Phases == [j \in Jobs |-> PhaseOf(j)]

\* The abstract counts are the concrete ones.
LEMMA PhaseSets ==
  ASSUME TypeOK
  PROVE  /\ Contract!In("queued") \cup Contract!In("running") = Active
         /\ Contract!In("running") = {j \in Jobs : status[j] = "running"}
         /\ Contract!In("finished") = {j \in Jobs : Finished(j)}
BY DEF Contract!In, PhaseOf, Active, Finished, TypeOK, Status

\* A step that changes the phase of one job in the abstract way.
LEMMA OnePhase ==
  ASSUME NEW j \in Jobs, NEW from, NEW to,
         PhaseOf(j) = from, PhaseOf(j)' = to,
         \A k \in Jobs \ {j} : PhaseOf(k)' = PhaseOf(k)
  PROVE  Contract!Become(j, from, to)
<1>1. Phases[j] = from
  BY DEF Phases
<1>2. Phases' = [Phases EXCEPT ![j] = to]
  BY DEF Phases
<1> QED
  BY <1>1, <1>2 DEF Contract!Become, Phases

\* Sweeping the registry is Forget, for a set that may be empty.
LEMMA SweepForgets ==
  ASSUME IInv, status' = Swept,
         \A j \in Jobs : status[j] # "absent" => call'[j] = call[j],
         \A j \in Jobs : status[j] = "absent" => (call'[j] = "returned" <=> call[j] = "returned")
  PROVE  \E S \in SUBSET Jobs : Contract!Forget(S)
<1> DEFINE S == {j \in Jobs : Finished(j) /\ j \in expired}
<1>1. S \subseteq Contract!In("finished")
  BY PhaseSets DEF IInv
<1>2. \A j \in Jobs : status[j] # "absent" => call[j] = "returned"
  BY DEF IInv, CallInv, TypeOK, Call
<1>3. \A j \in S : PhaseOf(j)' = "gone"
  BY <1>2 DEF PhaseOf, Active, Swept, Finished, IInv, TypeOK
<1>4. \A j \in Jobs \ S : PhaseOf(j)' = PhaseOf(j)
  BY <1>2 DEF PhaseOf, Active, Swept, Finished, IInv, TypeOK, Status
<1>5. Phases' = [j \in Jobs |-> IF j \in S THEN "gone" ELSE Phases[j]]
  BY <1>3, <1>4 DEF Phases
<1> QED
  BY <1>1, <1>5 DEF Contract!Forget, Phases

\* FiniteSets of the contract's instance is FiniteSets.
LEMMA SameCardinality == \A S : Contract!Cardinality(S) = Cardinality(S)
BY DEF Contract!Cardinality, Cardinality

\* A step that keeps every phase is a stutter of the contract.
LEMMA SamePhases ==
  ASSUME \A j \in Jobs : PhaseOf(j)' = PhaseOf(j)
  PROVE  Phases' = Phases
BY DEF Phases

\* Registering a job: it was in flight and not active, so there is room for it.
LEMMA RegisterAccepts ==
  ASSUME IInv, NEW j \in Jobs, Register(j)
  PROVE  Contract!Accept(j)
<1> USE DEF IInv, TypeOK, Status, Call
<1>1. j \in InFlight /\ j \notin Active /\ status[j] = "absent"
  BY DEF Register, InFlight, Active, CallInv
<1>2. IsFiniteSet(Active \cup {j}) /\ Cardinality(Active \cup {j}) = Cardinality(Active) + 1
  BY <1>1, CountedSetsFinite, FS_AddElement
<1>3. IsFiniteSet(Active \cup InFlight) /\ Active \cup {j} \subseteq Active \cup InFlight
  BY <1>1, CountedSetsFinite, Together
<1>4. /\ Cardinality(Active \cup InFlight) \in Nat
      /\ Cardinality(Active \cup {j}) <= Cardinality(Active \cup InFlight)
  BY <1>3, SmallerSet
<1>5. Cardinality(Active) < QueueMax + MaxCallers - 1
  BY <1>2, <1>4, CountedSetsFinite, SizesAssumption DEF QueueBounded
<1>6. /\ PhaseOf(j) = "unknown" /\ PhaseOf(j)' = "queued"
      /\ \A k \in Jobs \ {j} : PhaseOf(k)' = PhaseOf(k)
  BY <1>1 DEF Register, PhaseOf, Active, Finished
<1> QED
  BY <1>5, <1>6, PhaseSets, OnePhase, SameCardinality DEF Contract!Accept

\* Starting a job: its worker is busy and executes no other.
LEMMA StartBegins ==
  ASSUME IInv, NEW j \in Jobs, Start(j), status[j] # "absent"
  PROVE  Contract!Begin(j)
<1> USE DEF IInv, TypeOK, Status, Call
<1> DEFINE R == {k \in Jobs : status[k] = "running"}
<1>1. j \in Busy /\ R \subseteq Busy \ {j} /\ status[j] = "queued"
  BY DEF Start, Busy, RunningIffExecuting, CallInv
<1>2. IsFiniteSet(Busy \ {j}) /\ Cardinality(Busy \ {j}) = Cardinality(Busy) - 1
  BY <1>1, CountedSetsFinite, FS_RemoveElement
<1>3. Cardinality(R) \in Nat /\ Cardinality(R) <= Cardinality(Busy \ {j})
  BY <1>1, <1>2, SmallerSet
<1>4. Cardinality(R) < MaxWorkers
  BY <1>2, <1>3, CountedSetsFinite, SizesAssumption DEF Bounds
<1>5. /\ PhaseOf(j) = "queued" /\ PhaseOf(j)' = "running"
      /\ \A k \in Jobs \ {j} : PhaseOf(k)' = PhaseOf(k)
  BY <1>1 DEF Start, PhaseOf, Active, Finished
<1> QED
  BY <1>4, <1>5, PhaseSets, OnePhase, SameCardinality DEF Contract!Begin

LEMMA StepRefines == IInv /\ [Next]_vars => [Contract!Next]_Phases
<1> SUFFICES ASSUME IInv, [Next]_vars PROVE Contract!Next \/ Phases' = Phases
  OBVIOUS
<1> USE DEF IInv, TypeOK, Status, Call
<1>1. CASE GetStatus
  BY <1>1, SweepForgets DEF GetStatus, Contract!Next
<1>2. ASSUME NEW j \in Jobs, Admit(j) PROVE Contract!Next
  <2>1. status[j] = "absent" /\ call[j] # "returned" /\ call'[j] # "returned"
    BY <1>2 DEF Admit, CallInv
  <2>2. \A k \in Jobs \ {j} : call'[k] = call[k]
    BY <1>2 DEF Admit
  <2> QED
    BY <1>2, <2>1, <2>2, SweepForgets DEF Admit, Contract!Next
<1>3. ASSUME NEW j \in Jobs, Submit(j) PROVE Phases' = Phases
  BY <1>3, SamePhases DEF Submit, PhaseOf, Active, Finished
<1>4. ASSUME NEW j \in Jobs, Register(j) PROVE Contract!Next
  BY <1>4, RegisterAccepts DEF Contract!Next
<1>5. ASSUME NEW j \in Jobs, Take(j) PROVE Phases' = Phases
  BY <1>5, SamePhases DEF Take, PhaseOf, Active, Finished
<1>6. ASSUME NEW j \in Jobs, Start(j) PROVE Contract!Next \/ Phases' = Phases
  <2>1. CASE status[j] = "absent"
    BY <1>6, <2>1, SamePhases DEF Start, PhaseOf, Active, Finished
  <2>2. CASE status[j] # "absent"
    BY <1>6, <2>2, StartBegins DEF Contract!Next
  <2> QED
    BY <2>1, <2>2
<1>7. ASSUME NEW j \in Jobs, Finish(j) PROVE Contract!Next
  <2>1. /\ PhaseOf(j) = "running" /\ PhaseOf(j)' = "finished"
        /\ \A k \in Jobs \ {j} : PhaseOf(k)' = PhaseOf(k)
    BY <1>7 DEF Finish, RunningIffExecuting, PhaseOf, Active, Finished
  <2> QED
    BY <2>1, OnePhase DEF Contract!Complete, Contract!Next
<1>8. ASSUME NEW j \in Jobs, Cancel(j) PROVE Contract!Next
  <2>1. /\ PhaseOf(j) = "queued" /\ PhaseOf(j)' = "finished"
        /\ \A k \in Jobs \ {j} : PhaseOf(k)' = PhaseOf(k)
    BY <1>8 DEF Cancel, PhaseOf, Active, Finished
  <2> QED
    BY <2>1, OnePhase DEF Contract!Revoke, Contract!Next
<1>9. ASSUME NEW j \in Jobs, Expire(j) PROVE Phases' = Phases
  BY <1>9, SamePhases DEF Expire, PhaseOf, Active, Finished
<1>10. CASE UNCHANGED vars
  BY <1>10, SamePhases DEF vars, PhaseOf, Active, Finished
<1> QED
  BY <1>1, <1>2, <1>3, <1>4, <1>5, <1>6, <1>7, <1>8, <1>9, <1>10 DEF Next

\* What a client polls never leaves the protocol of JobContract, for any number
\* of jobs, workers and concurrent callers.
THEOREM Implementation == Spec => ImplementsContract
<1>1. Init => Contract!Init
  BY DEF Init, Contract!Init, PhaseOf, Active, Finished
<1> QED
  BY <1>1, StepRefines, Invariance, PTL DEF Spec, ImplementsContract, Contract!Spec, Phases
=============================================================================
