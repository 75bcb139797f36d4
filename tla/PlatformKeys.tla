---------------------------- MODULE PlatformKeys ----------------------------
(***************************************************************************)
(* Platform API keys: the gateway's authorize looks a key up by the hash of *)
(* the presented token and then counts the request against it, in two       *)
(* statements; the console creates, updates and revokes keys in between.    *)
(* Updating is itself a read followed by a write.                           *)
(***************************************************************************)
EXTENDS Naturals, FiniteSets

CONSTANTS
    Keys, Requests,
    Quotas,         \* quotas an operator may ask for; 0 is unlimited
    MaxUpdates      \* bound: how many key updates the console starts

ASSUME PlatformKeysAssumption ==
    /\ Quotas \subseteq Nat /\ MaxUpdates \in Nat /\ IsFiniteSet(Requests)

VARIABLES
    issued,     \* keys that have a row in platform_api_keys
    revoked,    \* those whose revoked_at is set
    quota, count,   \* the columns quota and request_count
    call,       \* each request's authorize: where it is and for which key
    update,     \* console updates that have read the key and not yet written
    updates,    \* number of updates started
    ceiling     \* history: the largest limit each key ever had; 0 once unlimited

vars == <<issued, revoked, quota, count, call, update, updates, ceiling>>

Call == [pc : {"arrived", "found", "admitted", "invalid", "quota_exceeded"},
         keys : SUBSET Keys]
Update == [id : Nat, key : Keys, quota : Nat]

Valid(k) == k \in issued \ revoked

\* Mutant: the last unit of a quota is given out twice.
WithinQuotaInclusive(k) == quota[k] = 0 \/ count[k] <= quota[k]

WithinQuota(k) == quota[k] = 0 \/ count[k] < quota[k]

Init ==
    /\ issued = {} /\ revoked = {}
    /\ quota = [k \in Keys |-> 0] /\ count = [k \in Keys |-> 0]
    /\ call = [r \in Requests |-> [pc |-> "arrived", keys |-> {}]]
    /\ update = {} /\ updates = 0 /\ ceiling = [k \in Keys |-> 0]

\* find_platform_api_key_by_hash: revoked keys are not found.
FindKey(r, k) ==
    /\ call[r].pc = "arrived"
    /\ call' = [call EXCEPT ![r] = IF Valid(k) THEN [pc |-> "found", keys |-> {k}]
                                   ELSE [pc |-> "invalid", keys |-> {}]]
    /\ UNCHANGED <<issued, revoked, quota, count, update, updates, ceiling>>

\* Mutant: a refused request is charged as well.
IncrementAlways(r) ==
    /\ call[r].pc = "found"
    /\ \E k \in call[r].keys :
         /\ count' = [count EXCEPT ![k] = @ + 1]
         /\ call' = [call EXCEPT ![r].pc = IF Valid(k) /\ WithinQuota(k) THEN "admitted"
                                           ELSE "quota_exceeded"]
    /\ UNCHANGED <<issued, revoked, quota, update, updates, ceiling>>

\* increment_platform_api_key_counter: checks and counts in one statement; no
\* row affected is reported as an exceeded quota, whichever condition failed.
Increment(r) ==
    /\ call[r].pc = "found"
    /\ \E k \in call[r].keys :
         IF Valid(k) /\ WithinQuota(k)
         THEN /\ count' = [count EXCEPT ![k] = @ + 1]
              /\ call' = [call EXCEPT ![r].pc = "admitted"]
         ELSE /\ call' = [call EXCEPT ![r].pc = "quota_exceeded"]
              /\ UNCHANGED count
    /\ UNCHANGED <<issued, revoked, quota, update, updates, ceiling>>

\* The limit a key has had at most, when q comes into force after c.
Raised(c, q) == IF c = 0 \/ q = 0 THEN 0 ELSE IF q > c THEN q ELSE c

CreateKey(k, q) ==
    /\ k \notin issued
    /\ issued' = issued \cup {k}
    /\ quota' = [quota EXCEPT ![k] = q] /\ ceiling' = [ceiling EXCEPT ![k] = q]
    /\ UNCHANGED <<revoked, count, call, update, updates>>

\* The update handler takes the missing fields from a listing of the keys ...
ReadKey(k, q, keep) ==
    /\ Valid(k) /\ updates < MaxUpdates
    /\ update' = update \cup {[id |-> updates, key |-> k,
                               quota |-> IF keep THEN quota[k] ELSE q]}
    /\ updates' = updates + 1
    /\ UNCHANGED <<issued, revoked, quota, count, call, ceiling>>

\* Mutant: a revoked key is updated too.
WriteKeyUnguarded(u) ==
    /\ u \in update /\ update' = update \ {u}
    /\ quota' = [quota EXCEPT ![u.key] = u.quota]
    /\ ceiling' = [ceiling EXCEPT ![u.key] = Raised(@, u.quota)]
    /\ UNCHANGED <<issued, revoked, count, call, updates>>

\* ... and writes name and quota unless the key has been revoked since.
WriteKey(u) ==
    /\ u \in update /\ update' = update \ {u}
    /\ IF Valid(u.key)
       THEN /\ quota' = [quota EXCEPT ![u.key] = u.quota]
            /\ ceiling' = [ceiling EXCEPT ![u.key] = Raised(@, u.quota)]
       ELSE UNCHANGED <<quota, ceiling>>
    /\ UNCHANGED <<issued, revoked, count, call, updates>>

\* Mutant: revokes without finding the key.
RevokeAnything(k) ==
    /\ revoked' = revoked \cup {k}
    /\ UNCHANGED <<issued, quota, count, call, update, updates, ceiling>>

RevokeKey(k) ==
    /\ Valid(k)
    /\ revoked' = revoked \cup {k}
    /\ UNCHANGED <<issued, quota, count, call, update, updates, ceiling>>

\* Every request is decided; the service idles.
Idle == (\A r \in Requests : call[r].pc \notin {"arrived", "found"}) /\ UNCHANGED vars

Next ==
    \/ \E r \in Requests : (\E k \in Keys : FindKey(r, k)) \/ Increment(r)
    \/ \E k \in Keys, q \in Quotas :
         CreateKey(k, q) \/ ReadKey(k, q, TRUE) \/ ReadKey(k, q, FALSE)
    \/ \E k \in Keys : RevokeKey(k)
    \/ \E u \in update : WriteKey(u)
    \/ Idle

Spec == Init /\ [][Next]_vars

-----------------------------------------------------------------------------
(* Properties.                                                             *)

\* Shapes of the rows and of the calls' local state.
TypeOK ==
    /\ issued \subseteq Keys /\ revoked \subseteq issued
    /\ quota \in [Keys -> Nat] /\ count \in [Keys -> Nat] /\ ceiling \in [Keys -> Nat]
    /\ call \in [Requests -> Call]
    /\ update \subseteq Update /\ updates \in Nat

\* Requests racing for the last unit of a quota never overrun it: the counter
\* of a key that always had a limit stays within the largest limit it had.
QuotaNeverOverrun == \A k \in Keys : ceiling[k] # 0 => count[k] <= ceiling[k]

Admitted(k) == {r \in Requests : call[r].pc = "admitted" /\ k \in call[r].keys}

\* The counter is exact: what a key was charged for is the requests that were
\* admitted with it, each once, and refused ones cost nothing.
ChargedOnce == \A k \in Keys : count[k] = Cardinality(Admitted(k))

\* The two statements of authorize, with whatever happens between them, amount
\* to one atomic admission: in particular nothing is admitted after a revoke.
Atomic == INSTANCE Admission
AdmissionIsAtomic == Atomic!Spec

=============================================================================
