------------------------------ MODULE JobQueue ------------------------------
(***************************************************************************)
(* The dashboard's background job queue (dashboard/jobs.py): request       *)
(* threads call enqueue, a thread pool runs the jobs, clients poll and     *)
(* cancel.  enqueue takes the lock twice, once to count and once to        *)
(* register, and hands the job to the pool in between; every step below is *)
(* one such critical section, or one step of the pool.                     *)
(***************************************************************************)
EXTENDS Naturals, FiniteSets, Sequences

CONSTANTS Jobs,        \* job ids: one for each call of enqueue (uuid4)
          MaxWorkers,  \* _MAX_WORKERS
          QueueMax,    \* _QUEUE_MAX
          MaxCallers   \* bound: request threads inside enqueue at once

ASSUME SizesAssumption == /\ MaxWorkers \in Nat \ {0}
                          /\ QueueMax \in Nat \ {0}
                          /\ MaxCallers \in Nat \ {0}
ASSUME JobsFinite == IsFiniteSet(Jobs)

VARIABLES
  call,     \* the request thread inside enqueue, for each job
  pool,     \* the executor's work queue, oldest first
  future,   \* the executor's view of the job
  status,   \* _jobs[id].status, "absent" when the id is not in _jobs
  expired,  \* finished jobs whose result is older than _DONE_TTL_SEC
  revoked   \* history: jobs for which cancel answered True

vars == <<call, pool, future, status, expired, revoked>>

Call   == {"idle", "admitted", "submitted", "returned", "refused"}
Future == {"none", "pending", "taken", "executing", "ran", "bailed", "cancelled"}
Status == {"absent", "queued", "running", "done", "error"}

Finished(j) == status[j] \in {"done", "error"}
Active      == {j \in Jobs : status[j] \in {"queued", "running"}}
Busy        == {j \in Jobs : future[j] \in {"taken", "executing"}}
InFlight    == {j \in Jobs : call[j] \in {"admitted", "submitted"}}

\* Seeded fault: finished jobs are collected whatever their age.
SweptFault == [j \in Jobs |-> IF Finished(j) THEN "absent" ELSE status[j]]

\* _gc_locked: only results past their time to live leave the registry.
Swept == [j \in Jobs |-> IF Finished(j) /\ j \in expired THEN "absent" ELSE status[j]]

Init == /\ call    = [j \in Jobs |-> "idle"]
        /\ pool    = <<>>
        /\ future  = [j \in Jobs |-> "none"]
        /\ status  = [j \in Jobs |-> "absent"]
        /\ expired = {}
        /\ revoked = {}
-----------------------------------------------------------------------------
(* enqueue, by the request thread.                                         *)

\* Seeded fault: the limit is off by one.
AdmitFault(j) == /\ call[j] = "idle"
                 /\ Cardinality(InFlight) < MaxCallers
                 /\ status' = Swept
                 /\ call' = [call EXCEPT ![j] = IF Cardinality(Active) <= QueueMax
                                                THEN "admitted" ELSE "refused"]
                 /\ UNCHANGED <<pool, future, expired, revoked>>

\* The first critical section: trim, count, admit or raise "job queue full".
Admit(j) == /\ call[j] = "idle"
            /\ Cardinality(InFlight) < MaxCallers
            /\ status' = Swept
            /\ call' = [call EXCEPT ![j] = IF Cardinality(Active) < QueueMax
                                           THEN "admitted" ELSE "refused"]
            /\ UNCHANGED <<pool, future, expired, revoked>>

\* Between the two sections, without the lock: the pool may start the job now.
Submit(j) == /\ call[j] = "admitted"
             /\ call'   = [call EXCEPT ![j] = "submitted"]
             /\ pool'   = Append(pool, j)
             /\ future' = [future EXCEPT ![j] = "pending"]
             /\ UNCHANGED <<status, expired, revoked>>

\* The second critical section: _jobs[job_id] = _Job(...), whatever happened.
Register(j) == /\ call[j] = "submitted"
               /\ call'   = [call EXCEPT ![j] = "returned"]
               /\ status' = [status EXCEPT ![j] = "queued"]
               /\ UNCHANGED <<pool, future, expired, revoked>>
-----------------------------------------------------------------------------
(* The thread pool and the runner closure.                                 *)

\* ThreadPoolExecutor: a free worker takes the oldest item; a future that was
\* cancelled in the queue is dropped (set_running_or_notify_cancel).
Take(j) == /\ pool # <<>> /\ j = Head(pool)
           /\ Cardinality(Busy) < MaxWorkers
           /\ pool' = Tail(pool)
           /\ future' = [future EXCEPT ![j] = IF @ = "pending" THEN "taken" ELSE @]
           /\ UNCHANGED <<call, status, expired, revoked>>

\* Seeded faults: the missing entry is not noticed, or is made up for.
StartUncheckedFault(j) == /\ future[j] = "taken"
                          /\ future' = [future EXCEPT ![j] = "executing"]
                          /\ status' = [status EXCEPT ![j] = IF @ = "absent" THEN @ ELSE "running"]
                          /\ UNCHANGED <<call, pool, expired, revoked>>

StartRegistersFault(j) == /\ future[j] = "taken"
                          /\ future' = [future EXCEPT ![j] = "executing"]
                          /\ status' = [status EXCEPT ![j] = "running"]
                          /\ UNCHANGED <<call, pool, expired, revoked>>

\* runner marks the job started, and returns at once when it is not registered.
Start(j) == /\ future[j] = "taken"
            /\ IF status[j] = "absent"
               THEN /\ future' = [future EXCEPT ![j] = "bailed"]
                    /\ UNCHANGED status
               ELSE /\ future' = [future EXCEPT ![j] = "executing"]
                    /\ status' = [status EXCEPT ![j] = "running"]
            /\ UNCHANGED <<call, pool, expired, revoked>>

\* fn returned or raised: the outcome is stored if the job is still registered.
Finish(j) == /\ future[j] = "executing"
             /\ future' = [future EXCEPT ![j] = "ran"]
             /\ \E outcome \in {"done", "error"} :
                  status' = [status EXCEPT ![j] = IF @ = "absent" THEN @ ELSE outcome]
             /\ UNCHANGED <<call, pool, expired, revoked>>
-----------------------------------------------------------------------------
(* Clients and the clock.                                                  *)

\* get_status: the answer is status after the sweep.
GetStatus == /\ status' = Swept
             /\ UNCHANGED <<call, pool, future, expired, revoked>>

\* Seeded faults: the answer of future.cancel() is not looked at; the entry is
\* not updated; it is updated with a state of its own.
CancelBlindFault(j) == /\ status[j] = "queued"
                       /\ future'  = [future EXCEPT ![j] = IF @ = "pending" THEN "cancelled" ELSE @]
                       /\ status'  = [status EXCEPT ![j] = "error"]
                       /\ revoked' = revoked \cup {j}
                       /\ UNCHANGED <<call, pool, expired>>

CancelSilentFault(j) == /\ status[j] = "queued" /\ future[j] = "pending"
                        /\ future'  = [future EXCEPT ![j] = "cancelled"]
                        /\ revoked' = revoked \cup {j}
                        /\ UNCHANGED <<call, pool, status, expired>>

CancelStateFault(j) == /\ status[j] = "queued" /\ future[j] = "pending"
                       /\ future'  = [future EXCEPT ![j] = "cancelled"]
                       /\ status'  = [status EXCEPT ![j] = "cancelled"]
                       /\ revoked' = revoked \cup {j}
                       /\ UNCHANGED <<call, pool, expired>>

\* cancel: only a queued job, and only when the future can still be cancelled.
Cancel(j) == /\ status[j] = "queued"
             /\ future[j] = "pending"
             /\ future'  = [future EXCEPT ![j] = "cancelled"]
             /\ status'  = [status EXCEPT ![j] = "error"]
             /\ revoked' = revoked \cup {j}
             /\ UNCHANGED <<call, pool, expired>>

\* Time passes: a finished job becomes older than _DONE_TTL_SEC.
Expire(j) == /\ Finished(j)
             /\ expired' = expired \cup {j}
             /\ UNCHANGED <<call, pool, future, status, revoked>>

Next == \/ GetStatus
        \/ \E j \in Jobs : \/ Admit(j) \/ Submit(j) \/ Register(j)
                           \/ Take(j) \/ Start(j) \/ Finish(j)
                           \/ Cancel(j) \/ Expire(j)

Spec == Init /\ [][Next]_vars

\* A request thread and a pool thread that can run do run, and fn terminates
\* (test_extension is bounded by its own timeout); nobody has to poll or cancel.
Fairness == \A j \in Jobs : /\ WF_vars(Submit(j)) /\ WF_vars(Register(j))
                            /\ WF_vars(Take(j)) /\ WF_vars(Start(j))
                            /\ WF_vars(Finish(j))

FairSpec == Spec /\ Fairness
-----------------------------------------------------------------------------
TypeOK == /\ call    \in [Jobs -> Call]
          /\ pool    \in Seq(Jobs)
          /\ future  \in [Jobs -> Future]
          /\ status  \in [Jobs -> Status]
          /\ expired \subseteq Jobs
          /\ revoked \subseteq Jobs

\* cancel races the worker between taking the future and marking it running: a
\* job whose cancellation was confirmed to the client is never executed.
CancelledNeverRuns == \A j \in revoked : future[j] \notin {"taken", "executing", "ran"}

\* runner looks its job up again after fn, without having held the lock: the
\* entry is still there, and no entry says "running" without a worker on it.
RunningIffExecuting == \A j \in Jobs : (status[j] = "running") <=> (future[j] = "executing")

\* _QUEUE_MAX is checked in one critical section and used in another; what the
\* code guarantees is the limit plus the other request threads in between.
QueueBounded == Cardinality(Active \cup InFlight) < QueueMax + MaxCallers

\* The poll endpoint's protocol (JobContract), with "unknown" before the id is
\* registered and "gone" after its result was collected.
PhaseOf(j) == IF j \in Active THEN status[j]
              ELSE IF Finished(j) THEN "finished"
              ELSE IF call[j] = "returned" THEN "gone" ELSE "unknown"

Contract == INSTANCE JobContract
              WITH phase   <- [j \in Jobs |-> PhaseOf(j)],
                   Workers <- MaxWorkers,
                   Limit   <- QueueMax + MaxCallers - 1

ImplementsContract == Contract!Spec

\* A result stays for one more poll: whatever left the registry had expired.
ResultKept == [][\A j \in Jobs : status[j] # "absent" /\ status'[j] = "absent"
                                   => Finished(j) /\ j \in expired]_vars

\* A job that was registered before its worker looked for it gets an outcome.
RegisteredJobFinishes ==
  \A j \in Jobs : (status[j] = "queued" /\ future[j] \in {"pending", "taken"})
                    ~> (status[j] \in {"done", "error"})

\* What enqueue's docstring says of every job ("transitions to 'running' when a
\* worker picks it up, then 'done' or 'error'"): refuted, a worker that is faster
\* than the second critical section leaves the job queued for ever.
EveryJobFinishes ==
  \A j \in Jobs : (call[j] = "returned") ~> (status[j] \in {"done", "error", "absent"})
=============================================================================
