----------------------------- MODULE LogKeeping -----------------------------
(***************************************************************************)
(* What the service promises about its request log: an entry that has been  *)
(* written stays until retention takes it, and once it is on stable storage *)
(* not even a power failure takes it.                                       *)
(***************************************************************************)
CONSTANT Logs

VARIABLES
    present,    \* entries that can be found somewhere
    safe        \* those of them that would survive a power failure now

vars == <<present, safe>>

Init == present = {} /\ safe = {}

Write(l) ==
    /\ present' = present \cup {l}
    /\ UNCHANGED safe

\* Data reaches stable storage.
Secure ==
    /\ safe' \in SUBSET present /\ safe \subseteq safe'
    /\ UNCHANGED present

Retire(S) ==
    /\ present' = present \ S
    /\ safe' = safe \ S

PowerFailure ==
    /\ present' \in SUBSET present /\ safe \subseteq present'
    /\ safe' = present'

Next ==
    \/ \E l \in Logs : Write(l)
    \/ Secure
    \/ \E S \in SUBSET Logs : Retire(S)
    \/ PowerFailure

Spec == Init /\ [][Next]_vars

=============================================================================
