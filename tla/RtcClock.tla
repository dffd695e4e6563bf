------------------------------ MODULE RtcClock ------------------------------
(***************************************************************************)
(* The clock: the RTC counter, the calendar calendar_t derived from it and *)
(* the three that work on them without a lock (HMIrtc.c, HMI.c:546-572,    *)
(* NtpExample.c:99).  The interrupt of every second runs RTC_Get as one    *)
(* step; the thread HMIRePrecess runs it statement by statement when the   *)
(* user sets the hour, the minute or the second, and the interrupt may     *)
(* come between any two of them; the time from the network is set by the   *)
(* thread that fetched it.                                                 *)
(***************************************************************************)
EXTENDS Calendar

CONSTANTS
  Starts,      \* bound: the counters at power on
  NtpTimes,    \* bound: the times the network gives, {} if it gives none
  Values,      \* bound: what the user sets an hour, minute or second to
  MaxTicks,    \* bound: the seconds that pass
  MaxSets,     \* bound: how often the user sets the time
  MaxInGet     \* bound: the interrupts during one RTC_Get of the thread

ASSUME RtcClockAssumption ==
  /\ Starts \union NtpTimes \subseteq [day : Nat, second : 0 .. DaySeconds - 1]
  /\ MaxInGet \in Nat
  /\ Values \subseteq 0 .. 59

VARIABLES
  counter,    \* the RTC counter
  pending,    \* the interrupt of the second is pending
  daycnt,     \* the day the date in calendar_t was computed for
  calendar,   \* calendar_t: date, hour, min, sec
  pc,         \* the next statement of the thread
  unit, value,   \* what the user sets, and to what
  rtc_count,  \* its copy of the counter
  arg,        \* the arguments of RTC_Set read so far
  inGet,      \* interrupts within its RTC_Get
  ticks, sets

vars == <<counter, pending, daycnt, calendar, pc, unit, value, rtc_count, arg,
          inGet, ticks, sets>>
shared == <<counter, pending, daycnt, calendar>>
local == <<pc, unit, value, rtc_count, arg, sets>>

NoDate == Date(0, 0, 0)
NoArg == [date |-> NoDate, time |-> <<>>]

\* After power on calendar_t and daycnt are zero; the RTC has kept counting.
Init ==
  /\ counter \in Starts /\ pending = FALSE
  /\ daycnt = 0
  /\ calendar = [date |-> NoDate, hour |-> 0, min |-> 0, sec |-> 0]
  /\ pc = "idle" /\ unit = "hour" /\ value = 0
  /\ rtc_count = counter /\ arg = NoArg
  /\ inGet = 0 /\ ticks = 0 /\ sets = 0

Hour(c) == c.second \div 3600
Minute(c) == (c.second % 3600) \div 60
Sec(c) == (c.second % 3600) % 60
-----------------------------------------------------------------------------
(***************************************************************************)
(* The hardware and the interrupt.                                         *)
(***************************************************************************)
Tick ==
  /\ ticks < MaxTicks /\ ~pending
  /\ ticks' = ticks + 1
  /\ counter' = IF counter.second + 1 < DaySeconds
                  THEN [counter EXCEPT !.second = @ + 1]
                  ELSE [day |-> counter.day + 1, second |-> 0]
  /\ pending' = TRUE
  /\ UNCHANGED <<daycnt, calendar, local, inGet>>

\* The date is computed when the day is a new one, the time always.
Calendared(c) ==
  [date |-> IF c.day /= daycnt THEN DateOf(c.day) ELSE calendar.date,
   hour |-> Hour(c), min |-> Minute(c), sec |-> Sec(c)]

InGet == pc \in {"compare", "year", "date", "time"}

\* Mutant of RTC_IRQHandler: the date is only computed at midnight.
IrqAtMidnight ==
  /\ pending
  /\ InGet => inGet < MaxInGet
  /\ inGet' = IF InGet THEN inGet + 1 ELSE inGet
  /\ calendar' = IF counter.second = 0 THEN Calendared(counter) ELSE calendar
  /\ daycnt' = counter.day
  /\ pending' = FALSE
  /\ UNCHANGED <<counter, local, ticks>>

\* RTC_IRQHandler updates the calendar, whatever the thread is doing.
RTC_IRQHandler ==
  /\ pending
  /\ InGet => inGet < MaxInGet
  /\ inGet' = IF InGet THEN inGet + 1 ELSE inGet
  /\ calendar' = Calendared(counter)
  /\ daycnt' = counter.day
  /\ pending' = FALSE
  /\ UNCHANGED <<counter, local, ticks>>

\* GetNtp sets the clock.
NtpSet ==
  /\ \E c \in NtpTimes : c /= counter /\ counter' = c
  /\ UNCHANGED <<pending, daycnt, calendar, local, inGet, ticks>>
-----------------------------------------------------------------------------
(***************************************************************************)
(* HMI_RePrecess sets the time: RTC_Get, then RTC_Set with one field of    *)
(* the calendar replaced.                                                  *)
(***************************************************************************)
SetTime ==
  /\ pc = "idle" /\ sets < MaxSets
  /\ daycnt /= 0    \* bound: not before the first second has been shown
  /\ sets' = sets + 1
  /\ unit' \in {"hour", "min", "sec"}
  /\ value' \in {v \in Values : unit' = "hour" => v < 24}
  /\ pc' = "read"
  /\ UNCHANGED <<shared, rtc_count, arg, inGet, ticks>>

Read ==
  /\ pc = "read" /\ pc' = "compare"
  /\ rtc_count' = counter
  /\ UNCHANGED <<shared, unit, value, arg, inGet, ticks, sets>>

\* Mutant of Compare: the day is not remembered.
CompareForgets ==
  /\ pc = "compare"
  /\ pc' = IF daycnt /= rtc_count.day THEN "year" ELSE "time"
  /\ UNCHANGED <<shared, unit, value, rtc_count, arg, inGet, ticks, sets>>

\* A new day is remembered before its date is stored.
Compare ==
  /\ pc = "compare"
  /\ daycnt' = rtc_count.day
  /\ pc' = IF daycnt /= rtc_count.day THEN "year" ELSE "time"
  /\ UNCHANGED <<counter, pending, calendar, unit, value, rtc_count, arg,
                 inGet, ticks, sets>>

StoreYear ==
  /\ pc = "year" /\ pc' = "date"
  /\ calendar' = [calendar EXCEPT
       !.date = Date(YearOf(rtc_count.day).year, @.month, @.date)]
  /\ UNCHANGED <<counter, pending, daycnt, unit, value, rtc_count, arg, inGet,
                 ticks, sets>>

\* The months are counted in the year that is in the calendar by then.
StoreDate ==
  /\ pc = "date" /\ pc' = "time"
  /\ calendar' = [calendar EXCEPT
       !.date = DateIn(YearOf(rtc_count.day).day, @.year)]
  /\ UNCHANGED <<counter, pending, daycnt, unit, value, rtc_count, arg, inGet,
                 ticks, sets>>

\* Mutant of StoreTime: the seconds are left to the interrupt.
StoreTimeWithoutSec ==
  /\ pc = "time" /\ pc' = "args"
  /\ calendar' = [calendar EXCEPT !.hour = Hour(rtc_count), !.min = Minute(rtc_count)]
  /\ inGet' = 0
  /\ UNCHANGED <<counter, pending, daycnt, unit, value, rtc_count, arg,
                 ticks, sets>>

StoreTime ==
  /\ pc = "time" /\ pc' = "args"
  /\ calendar' = [calendar EXCEPT !.hour = Hour(rtc_count),
                    !.min = Minute(rtc_count), !.sec = Sec(rtc_count)]
  /\ inGet' = 0
  /\ UNCHANGED <<counter, pending, daycnt, unit, value, rtc_count, arg,
                 ticks, sets>>

\* The arguments are read from the calendar in an order C does not fix.
ReadDate ==
  /\ pc = "args" /\ arg.date = NoDate
  /\ arg' = [arg EXCEPT !.date = calendar.date]
  /\ UNCHANGED <<shared, pc, unit, value, rtc_count, inGet, ticks, sets>>

ReadTime ==
  /\ pc = "args" /\ arg.time = <<>>
  /\ arg' = [arg EXCEPT !.time = <<calendar.hour, calendar.min, calendar.sec>>]
  /\ UNCHANGED <<shared, pc, unit, value, rtc_count, inGet, ticks, sets>>

Field == CASE unit = "hour" -> 1 [] unit = "min" -> 2 [] unit = "sec" -> 3

\* RTC_Set writes the counter, or nothing for a year it does not take.
RTC_Set ==
  /\ pc = "args" /\ arg.date /= NoDate /\ arg.time /= <<>>
  /\ pc' = "idle"
  /\ LET t == [arg.time EXCEPT ![Field] = value]
     IN  counter' = IF Settable(arg.date.year)
                      THEN Counter(arg.date, SecondOf(t[1], t[2], t[3]))
                      ELSE counter
  /\ arg' = NoArg
  /\ UNCHANGED <<pending, daycnt, calendar, unit, value, rtc_count, inGet,
                 ticks, sets>>

Thread == SetTime \/ Read \/ Compare \/ StoreYear \/ StoreDate \/ StoreTime
            \/ ReadDate \/ ReadTime \/ RTC_Set

Next == Tick \/ RTC_IRQHandler \/ NtpSet \/ Thread

Spec == Init /\ [][Next]_vars
-----------------------------------------------------------------------------
\* The date is stored, but not yet the one of the day that is remembered.
Storing == pc \in {"year", "date"}

\* c with the field the user sets replaced
WithField(c) ==
  [c EXCEPT !.second = CASE unit = "hour" -> 3600 * value + (@ % 3600)
                         [] unit = "min"  -> @ - 60 * Minute(c) + 60 * value
                         [] unit = "sec"  -> @ - Sec(c) + value]
=============================================================================
