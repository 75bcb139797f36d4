---------------------------- MODULE MCForwarding ----------------------------
(* Two requests with two attempts each, for TLC.                            *)
EXTENDS Forwarding, TLC

CONSTANTS r1, r2, a1, a2

\* Requests are alike, and so are the accounts with a key.
Alike == Permutations({r1, r2}) \cup Permutations({a1, a2})

=============================================================================
