----------------------------- MODULE ClockToday -----------------------------
(***************************************************************************)
(* What HMIrtc.c says of the date in the calendar.                         *)
(***************************************************************************)
EXTENDS RtcClock, Gregorian

\* Two seconds before midnight.
Evening(year, month, date) ==
  [day |-> DayOf(Date(year, month, date)), second |-> 86398]

TodayStarts == {Evening(2020, 6, 30)}
TodayNtpTimes == {Evening(2024, 12, 31)}

\* RTC_Get, that the interrupt calls, "gets the current time", "the month" and
\* "the date" (HMIrtc.c:132, 186, 187): after it the calendar shows the date of
\* the day, when the thread is not storing one.
ShowsToday ==
  [][RTC_IRQHandler /\ ~Storing => IsDateOf(calendar'.date, counter.day)]_vars
=============================================================================
