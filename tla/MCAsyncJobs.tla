----------------------------- MODULE MCAsyncJobs -----------------------------
(* The instance of AsyncJobs for TLC.                                      *)
EXTENDS AsyncJobs

CONSTANTS s1, s2, s3, j1, j2, j3

\* Either two submissions are still to be made and the one before them is
\* settled; or all three were made in an earlier run and none is settled.  Then
\* more jobs wait to be polled than a batch takes: one that has no account any
\* more and is deferred for ever, one whose poll always fails, and the third.
Beginnings ==
    {[made |-> [s \in Submissions |-> IF s = s3 THEN {j3} ELSE {}],
      open |-> {}, orphaned |-> {}],
     [made |-> [s \in Submissions |-> CASE s = s1 -> {j1} [] s = s2 -> {j2} [] s = s3 -> {j3}],
      open |-> {j1, j2, j3}, orphaned |-> {j1}]}

=============================================================================
