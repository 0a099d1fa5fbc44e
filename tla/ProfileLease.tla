---------------------------- MODULE ProfileLease ----------------------------
(***************************************************************************)
(* What the dashboard's RunnerPool promises to whoever launches a run: a   *)
(* profile is leased to at most one run of this dashboard at a time, at    *)
(* most Cap leases are out, and a run id is never leased twice.  Leases    *)
(* end one by one, or all at once when the dashboard goes away.            *)
(***************************************************************************)
EXTENDS Naturals, FiniteSets

CONSTANTS Profiles, Runs, Cap

VARIABLES lease,  \* set of <<run, profile>>
          spent   \* run ids that were ever handed out

Init == lease = {} /\ spent = {}

Grant(r, p) == /\ r \notin spent
               /\ \A l \in lease : l[2] # p
               /\ Cardinality(lease) < Cap
               /\ lease' = lease \cup {<<r, p>>}
               /\ spent' = spent \cup {r}

Release(S) == /\ lease' = lease \ S
              /\ UNCHANGED spent

\* A run that the scheduler launches by itself only uses up an id.
Elsewhere(r) == /\ r \notin spent
                /\ spent' = spent \cup {r}
                /\ UNCHANGED lease

Next == \/ \E r \in Runs, p \in Profiles : Grant(r, p)
        \/ \E S \in SUBSET lease : Release(S)
        \/ \E r \in Runs : Elsewhere(r)

Spec == Init /\ [][Next]_<<lease, spent>>
=============================================================================
