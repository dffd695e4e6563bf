----------------------------- MODULE Gregorian -----------------------------
(***************************************************************************)
(* The Gregorian calendar, that the dates of the code are compared with.   *)
(***************************************************************************)
EXTENDS Calendar

Leap(year) == (year % 4 = 0 /\ year % 100 /= 0) \/ year % 400 = 0
Length(year, month) == CASE month = 2 -> IF Leap(year) THEN 29 ELSE 28
                         [] month \in {4, 6, 9, 11} -> 30
                         [] OTHER -> 31

Tomorrow(d) ==
  IF d.date < Length(d.year, d.month) THEN [d EXCEPT !.date = @ + 1]
  ELSE IF d.month < 12 THEN Date(d.year, d.month + 1, 1)
  ELSE Date(d.year + 1, 1, 1)

\* d is the date of day n since 1 January 1970.  RTC_Set counts the days of a
\* date right (SetIsRight, in CalendarDays).
IsDateOf(d, n) ==
  d.month \in 1 .. 12 /\ d.date \in 1 .. Length(d.year, d.month) /\ DayOf(d) = n
=============================================================================
