------------------------------ MODULE MCArchive -----------------------------
(* The archive beside the calendar its files are dropped by, one era of it. *)
EXTENDS RequestLogArchive, CutoffMonth

FourCenturies == 1970 .. 2369

\* From the start of the clock on archive_cutoff_month yields the calendar's month,
\* across leap years and centuries: no archive is dropped a month early or kept a
\* month too long.
CutoffIsTheMonth == \A n \in Misplaced : n < now

=============================================================================
