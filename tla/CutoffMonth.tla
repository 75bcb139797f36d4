----------------------------- MODULE CutoffMonth ----------------------------
(***************************************************************************)
(* Which archives have expired: archive_cutoff_month turns a number of days  *)
(* since 1970-01-01 into a year and a month with integer arithmetic on eras  *)
(* of 400 years that begin on the first of March.                            *)
(***************************************************************************)
EXTENDS Integers, FiniteSets

CONSTANT Years      \* the years for which it is compared with the calendar

ASSUME CutoffAssumption == \A y \in Years : y \in Nat /\ y >= 1970

\* Days since the first of March of year 0, cut into eras of 146 097 days.
Era(n) == (n + 719468) \div 146097
DayOfEra(n) == (n + 719468) - Era(n) * 146097

YearOfEra(doe) == (doe - doe \div 1460 + doe \div 36524 - doe \div 146096) \div 365

MonthIn(doe) ==
    LET yoe == YearOfEra(doe)
        doy == doe - (365 * yoe + yoe \div 4 - yoe \div 100)
        mp == (5 * doy + 2) \div 153
    IN  IF mp < 10 THEN mp + 3 ELSE mp - 9

\* Mutant: the year is taken to begin in March.
CutoffInMarchYear(n) ==
    [year |-> YearOfEra(DayOfEra(n)) + Era(n) * 400, month |-> MonthIn(DayOfEra(n))]

\* n is never negative, so of the two ways to round an era only one is needed.
Cutoff(n) ==
    LET doe == DayOfEra(n)
    IN  [year |-> (YearOfEra(doe) + Era(n) * 400) + (IF MonthIn(doe) =< 2 THEN 1 ELSE 0),
         month |-> MonthIn(doe)]

(***************************************************************************)
(* The calendar                                                            *)
(***************************************************************************)
Leap(y) == y % 4 = 0 /\ (y % 100 # 0 \/ y % 400 = 0)

DaysIn(y, m) == CASE m \in {4, 6, 9, 11} -> 30
                  [] m = 2 -> IF Leap(y) THEN 29 ELSE 28
                  [] OTHER -> 31

\* Days from 1970-01-01 to the first of January of a year, and of a month.
NewYear(y) == 365 * (y - 1970) + Cardinality({z \in 1970 .. (y - 1) : Leap(z)})
FirstOf(y, m) ==
    NewYear(y) + Cardinality({date \in (1 .. (m - 1)) \X (1 .. 31) : date[2] =< DaysIn(y, date[1])})

-----------------------------------------------------------------------------
\* The days of Years for which the arithmetic yields another month than the calendar.
Misplaced ==
    UNION {LET first == FirstOf(y, m) IN
           {n \in first .. (first + DaysIn(y, m) - 1) : Cutoff(n) # [year |-> y, month |-> m]} :
           y \in Years, m \in 1 .. 12}

=============================================================================
