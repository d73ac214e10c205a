---------------------------- MODULE QuotaWindows ----------------------------
(***************************************************************************)
(* The windows of limit rules on the calendar (quota.rs).  An instant is   *)
(* its Unix timestamp; of the chrono crate, what window_start takes from a *)
(* date.                                                                   *)
(***************************************************************************)
EXTENDS Integers

Hour == 3600
Day  == 24 * Hour

\* Days since 1970-01-01, a Thursday, and hours since midnight, UTC.
day(t)  == t \div Day
hour(t) == (t % Day) \div Hour
num_days_from_monday(t) == (day(t) + 3) % 7

\* The day of the month, counted from 1: in the Gregorian calendar's 400 years
\* of 146097 days, with years that begin in March.
day_of_month(t) ==
    LET n     == (day(t) + 719468) % 146097
        year  == (n - n \div 1460 + n \div 36524 - n \div 146096) \div 365
        yday  == n - (365 * year + year \div 4 - year \div 100)
        month == (5 * yday + 2) \div 153
    IN  yday - (153 * month + 2) \div 5 + 1

start_of_day(t) == Day * day(t)

\* The start of the window that t falls in.
window_start(t, window) ==
    CASE window = "hour" -> start_of_day(t) + Hour * hour(t)
      [] window = "day"  -> start_of_day(t)
      [] window = "week" -> start_of_day(t - Day * num_days_from_monday(t))
      [] OTHER           -> start_of_day(t - Day * (day_of_month(t) - 1))
=============================================================================
