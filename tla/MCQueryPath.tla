---------------------------- MODULE MCQueryPath ----------------------------
(***************************************************************************)
(* Small instances of QueryPath.  Names are covered or not by a rule; the  *)
(* clock leaves some windows and stays in others.                          *)
(***************************************************************************)
EXTENDS QueryPath, TLC

CONSTANTS n1, u1

\* 22:00:00 and 23:59:59 on 29 February 2024: another hour of the same day.
LeapDay == 1709164800
MCInstants == [t \in 0..MaxClock |-> LeapDay + <<22 * Hour, Day - 1>>[t + 1]]

\* The calendar from tables: the days on which the months of 1999 to 2027 begin.
DaysBefore == <<0, 31, 59, 90, 120, 151, 181, 212, 243, 273, 304, 334>>
MonthStarts ==
    {365 * (y - 1970) + (y - 1969) \div 4 + DaysBefore[m] + (IF y % 4 = 0 /\ m > 2 THEN 1 ELSE 0) :
        y \in 1999..2027, m \in 1..12}

\* A window begins on the hour, at midnight, on a Monday (1970-01-05 was one)
\* or on the first of a month.
Begins(t, window) ==
    /\ t % 3600 = 0
    /\ window # "hour"  => t % 86400 = 0
    /\ window = "week"  => (t \div 86400) % 7 = 4
    /\ window = "month" => t \div 86400 \in MonthStarts

\* At each instant a new window begins or that of the second before goes on:
\* the start of 2000 and the years 2022 to 2026.
ASSUME WindowsAreCalendar ==
    \A d \in 10950..11100 \cup 18990..20500, s \in {0, 1, 3599, 3600, 86399}, w \in Windows :
        LET t == 86400 * d + s
        IN  window_start(t, w) = IF Begins(t, w) THEN t ELSE window_start(t - 1, w)

ABody(act, count, window) ==
    [action |-> act, covers |-> {n1}, limit_count |-> count,
     limit_window |-> window, enabled |-> TRUE]

Once   == ABody("limit", 1, "hour")
Twice  == ABody("limit", 2, "day")
Never  == ABody("limit", None, None)
Deny   == ABody("deny", None, None)
Off    == [Deny EXCEPT !.enabled = FALSE]

BudgetLists == {<<Off, Twice>>, <<Once, Deny>>}
MixedLists == {<< >>, <<Deny>>, <<Never>>, <<Once>>}
NoLists    == {}
OneUpstream == {<<u1>>, << >>}

QuerySymmetry == Permutations(Queries)
=============================================================================
