------------------------------ MODULE Admission ------------------------------
(***************************************************************************)
(* What platform API keys promise their issuer: admission of a request is   *)
(* one indivisible decision on the key as it is at that instant.            *)
(***************************************************************************)
EXTENDS Naturals

CONSTANTS Keys, Quotas

VARIABLES issued, revoked, quota, count

vars == <<issued, revoked, quota, count>>

Valid(k) == k \in issued \ revoked

\* Quota 0 stands for no limit.
WithinQuota(k) == quota[k] = 0 \/ count[k] < quota[k]

Init ==
    /\ issued = {} /\ revoked = {}
    /\ quota = [k \in Keys |-> 0] /\ count = [k \in Keys |-> 0]

Issue(k, q) ==
    /\ k \notin issued
    /\ issued' = issued \cup {k} /\ quota' = [quota EXCEPT ![k] = q]
    /\ UNCHANGED <<revoked, count>>

Admit(k) ==
    /\ Valid(k) /\ WithinQuota(k)
    /\ count' = [count EXCEPT ![k] = @ + 1]
    /\ UNCHANGED <<issued, revoked, quota>>

SetQuota(k, q) ==
    /\ Valid(k)
    /\ quota' = [quota EXCEPT ![k] = q]
    /\ UNCHANGED <<issued, revoked, count>>

Revoke(k) ==
    /\ Valid(k)
    /\ revoked' = revoked \cup {k}
    /\ UNCHANGED <<issued, quota, count>>

Next == \E k \in Keys : \/ Admit(k) \/ Revoke(k)
                        \/ \E q \in Quotas : Issue(k, q) \/ SetQuota(k, q)

Spec == Init /\ [][Next]_vars

=============================================================================
