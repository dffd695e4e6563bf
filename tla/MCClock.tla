------------------------------ MODULE MCClock ------------------------------
(***************************************************************************)
(* The clock over the years.  While the station is off the RTC counts on   *)
(* from its battery: the days from 1970 to 2099 pass, and CalendarDays     *)
(* walks the Gregorian calendar beside it.  In the evening of each of the  *)
(* days of SwitchOns, two seconds before midnight, the station is switched *)
(* on, and RtcClock begins.  The network moves the clock to the last       *)
(* evening of August 2020.                                                 *)
(***************************************************************************)
EXTENDS RtcClock, CalendarDays

CONSTANT SwitchOns    \* bound: the counters at which the station is switched on

VARIABLES on,
          disturbed,  \* an interrupt came since the thread has read the counter
          torn        \* the date was stored over that of another day

Evening(year, month, date) ==
  [day |-> DayOf(Date(year, month, date)), second |-> 86398]

MCNtpTimes == {Evening(2020, 8, 31)}
FirstEvening == Evening(1970, 1, 1)
MCStarts == {FirstEvening}
MCSwitchOns == {Evening(2020, 6, 30), Evening(2021, 12, 31), Evening(2024, 12, 31)}

mcVars == <<vars, day, today, on, disturbed, torn>>

MCInit == /\ Init /\ counter = FirstEvening /\ DaysInit
          /\ on = FALSE /\ disturbed = FALSE /\ torn = FALSE

Off ==
  /\ ~on
  /\ DaysNext
  /\ counter' = [counter EXCEPT !.day = day']
  /\ UNCHANGED <<pending, daycnt, calendar, local, inGet, ticks, on, disturbed, torn>>

SwitchOn ==
  /\ ~on /\ counter \in SwitchOns
  /\ on' = TRUE
  /\ UNCHANGED <<vars, day, today, disturbed, torn>>

Interrupt == pending /\ ~pending'
Reads == pc = "read" /\ pc' = "compare"
Compares == pc = "compare" /\ pc' /= "compare"

\* The interrupt computes the date of another day while the thread has
\* remembered its day and not stored it: the thread will store over it.  The
\* next date that is computed is right again.
TornNext ==
  torn' = CASE Interrupt /\ Storing  -> counter.day /= rtc_count.day
            [] Interrupt /\ ~Storing -> torn /\ counter.day = daycnt
            [] Compares              -> torn /\ rtc_count.day = daycnt
            [] OTHER                 -> torn

On ==
  /\ on /\ Next
  /\ disturbed' = IF Reads THEN FALSE ELSE disturbed \/ Interrupt
  /\ TornNext
  /\ UNCHANGED <<day, today, on>>

MCNext == Off \/ SwitchOn \/ On
MCSpec == MCInit /\ [][MCNext]_mcVars

\* The date in the calendar is the date of the day it was computed for, so that
\* the next new day corrects it (RTC_Get computes a date only for a day that
\* differs from daycnt), also when the interrupt has run RTC_Get within the
\* RTC_Get of the thread; only between Compare and StoreDate it must not have
\* found another day than the thread.
DateOfDaycnt == ~Storing /\ ~torn /\ daycnt /= 0 => calendar.date = DateOf(daycnt)

\* The interrupt brings the date "up to date" (HMIrtc.c:298): after it the
\* calendar shows the date of the counter's day, unless the thread is storing
\* one or has stored the one of another day over it.  Day 0, for which daycnt is
\* taken at the start, is in no RTC that RTC_Init has set.
ShowsTheDay ==
  [][RTC_IRQHandler /\ ~Storing /\ ~torn' /\ counter.day /= 0
       => calendar'.date = DateOf(counter.day)]_mcVars

\* The setting of an hour, a minute or a second changes this field of the
\* counter that RTC_Get has read and nothing else (HMI.c:546-572), unless an
\* interrupt falls between this reading and RTC_Set, the date was stored over
\* that of another day, or it is the one of month 13 or past 2099, the last
\* year RTC_Set takes.
SetsOneFieldAlone ==
  [][RTC_Set /\ ~disturbed /\ ~torn /\ calendar.date.month \in 1 .. 12
       /\ Settable(calendar.date.year) => counter' = WithField(rtc_count)]_mcVars
=============================================================================
