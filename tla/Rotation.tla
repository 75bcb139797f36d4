------------------------------ MODULE Rotation ------------------------------
(***************************************************************************)
(* How the scheduler takes turns among accounts with equal scores. Two       *)
(* mechanisms act at once: the accounts are listed by the second in which    *)
(* they were last used, oldest first, and the list is then rotated by a      *)
(* cursor that all requests share. Listing, choosing and recording the use   *)
(* are separate steps, so that requests overlap.                             *)
(***************************************************************************)
EXTENDS Integers, FiniteSets

CONSTANTS
    N,              \* number of accounts; they are numbered in the order that
                    \* settles equal seconds, by name and id
    Requests,       \* request tasks, each serving one request after another
    LongestWait     \* bound: selections are counted up to this number

ASSUME RotationAssumption == N \in Nat \ {0} /\ IsFiniteSet(Requests) /\ LongestWait \in Nat

VARIABLES
    used,       \* last_used_at: the number of accounts used in earlier seconds
    current,    \* whether the last of these seconds is still running
    cursor,     \* account_cursors
    req,        \* each request's list, as the place of every account in it,
                \* and the account it has chosen
    waited      \* history: selections since each account was last chosen

vars == <<used, current, cursor, req, waited>>

Accounts == 1 .. N
NoRequest == [pc |-> "idle", list |-> [a \in Accounts |-> 0], account |-> {}]

Init ==
    /\ used = [a \in Accounts |-> 0] /\ current = FALSE /\ cursor = 0
    /\ req = [r \in Requests |-> NoRequest]
    /\ waited = [a \in Accounts |-> 0]

\* order by coalesce(last_used_at, created_at), name, id
Before(b, a) == used[b] < used[a] \/ (used[b] = used[a] /\ b < a)
Place(a) == Cardinality({b \in Accounts : Before(b, a)})

List(r) ==
    /\ req[r].pc = "idle"
    /\ req' = [req EXCEPT ![r] = [pc |-> "listed", list |-> [a \in Accounts |-> Place(a)],
                                  account |-> {}]]
    /\ UNCHANGED <<used, current, cursor, waited>>

\* Mutant: a cursor that counts from one.
AfterSkippingFirst(c, n) == IF c + 1 < n THEN c + 1 ELSE 1

\* Mutant: a cursor that stays at the end.
AfterStuck(c, n) == IF c + 1 < n THEN c + 1 ELSE c

After(c, n) == (c + 1) % n

\* rotate_left by the cursor, and take the first.
Choose(r) ==
    /\ req[r].pc = "listed"
    /\ \E a \in Accounts :
         /\ req[r].list[a] = cursor % N
         /\ req' = [req EXCEPT ![r].pc = "chosen", ![r].account = {a}]
         /\ waited' = [b \in Accounts |->
                          IF b = a THEN 0
                          ELSE IF waited[b] < LongestWait THEN waited[b] + 1 ELSE LongestWait]
    /\ cursor' = IF N > 1 THEN After(cursor, N) ELSE cursor
    /\ UNCHANGED <<used, current>>

\* The seconds accounts were last used in, without those in which none was.
Ranked(second) ==
    [a \in Accounts |-> Cardinality({b \in Accounts : second[b] < second[a]})]

\* record_provider_account_selection
Record(r) ==
    /\ req[r].pc = "chosen"
    /\ \E now \in 0 .. N :
         /\ \A a \in Accounts : IF current THEN used[a] =< now ELSE used[a] < now
         /\ current => \E a \in Accounts : used[a] = now
         /\ used' = Ranked([a \in Accounts |-> IF a \in req[r].account THEN now ELSE used[a]])
    /\ current' = TRUE
    /\ req' = [req EXCEPT ![r] = NoRequest]
    /\ UNCHANGED <<cursor, waited>>

NextSecond ==
    /\ current
    /\ current' = FALSE
    /\ UNCHANGED <<used, cursor, req, waited>>

Next ==
    \/ \E r \in Requests : List(r) \/ Choose(r) \/ Record(r)
    \/ NextSecond

Spec == Init /\ [][Next]_vars

\* Requests keep coming, and each is served.
FairSpec == Spec /\ \A r \in Requests : WF_vars(List(r) \/ Choose(r) \/ Record(r))

-----------------------------------------------------------------------------
\* However requests overlap, every account has its turn again and again.
EveryoneHasATurn ==
    \A a \in Accounts : []<>(\E r \in Requests : req[r].account = {a})

\* The two mechanisms work against each other, but not without limit.
WaitIsBounded == \A a \in Accounts : waited[a] < LongestWait

=============================================================================
