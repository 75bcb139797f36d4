---------------------------- MODULE JobLifecycle ----------------------------
(***************************************************************************)
(* What the service promises about an upstream asynchronous job it has      *)
(* tracked: the record follows the upstream to the state it ended in, and   *)
(* is settled once.                                                         *)
(***************************************************************************)
CONSTANTS Jobs, Untracked

Terminal == {"completed", "failed", "cancelled"}
Open == {"pending", "running"}

VARIABLES
    upstream,   \* what the provider says of each job; Untracked before it exists
    record      \* the state column of provider_async_jobs; Untracked if no row

vars == <<upstream, record>>

\* Some of the jobs may be known from before.
Init ==
    /\ upstream \in [Jobs -> {Untracked, "running"} \cup Terminal]
    /\ record \in [Jobs -> {Untracked} \cup Open \cup Terminal]
    /\ \A j \in Jobs : \/ record[j] = Untracked
                       \/ record[j] \in Open /\ upstream[j] # Untracked
                       \/ record[j] = upstream[j]

\* The provider accepts a job, or brings it to its end.
Upstream(j) ==
    /\ \/ upstream[j] = Untracked /\ upstream' = [upstream EXCEPT ![j] = "running"]
       \/ upstream[j] = "running"
          /\ \E t \in Terminal : upstream' = [upstream EXCEPT ![j] = t]
    /\ UNCHANGED record

\* A job the provider has accepted is recorded.
Track(j) ==
    /\ upstream[j] # Untracked /\ record[j] = Untracked
    /\ record' = [record EXCEPT ![j] = "pending"]
    /\ UNCHANGED upstream

\* While the record is open it may move between its two open states.
Progress(j) ==
    /\ record[j] \in Open
    /\ \E s \in Open : record' = [record EXCEPT ![j] = s]
    /\ UNCHANGED upstream

Settle(j) ==
    /\ record[j] \in Open /\ upstream[j] \in Terminal
    /\ record' = [record EXCEPT ![j] = upstream[j]]
    /\ UNCHANGED upstream

Next == \E j \in Jobs : Upstream(j) \/ Track(j) \/ Progress(j) \/ Settle(j)

Spec == Init /\ [][Next]_vars

=============================================================================
