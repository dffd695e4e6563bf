---------------------------- MODULE CalendarDays ----------------------------
(***************************************************************************)
(* The dates of the code against the Gregorian calendar: the calendar is   *)
(* walked day by day from 1 January 1970, and on every day what RTC_Get,   *)
(* RTC_GetWeek and RTC_Set compute is compared with it.  MCClock takes     *)
(* these steps while the station is off.                                   *)
(***************************************************************************)
EXTENDS Gregorian

CONSTANT LastDay   \* bound: the last day walked to

VARIABLES day,     \* the days since 1 January 1970
          today    \* the date of that day

DaysInit == day = 0 /\ today = Date(1970, 1, 1)

DaysNext ==
  /\ day < LastDay
  /\ day' = day + 1
  /\ today' = Tomorrow(today)
-----------------------------------------------------------------------------
LastOfLeapYear == Leap(today.year) /\ today.month = 12 /\ today.date = 31

\* RTC_Get computes the date of the day (HMIrtc.c:149-187).  It does not on
\* the last day of a leap year, of which it counts the year but not the days:
\* there it stores the first day of month 13 of the next year.
WrongOnlyOnLastOfLeapYear == DateOf(day) /= today => LastOfLeapYear

\* RTC_GetWeek computes the day of the week: 1 January 1970 was a Thursday.
WeekIsRight ==
  RTC_GetWeek(today.year, today.month, today.date) = {(day + 4) % 7}

\* RTC_Set counts the days up to a date.
SetIsRight == Settable(today.year) => DayOf(today) = day
=============================================================================
