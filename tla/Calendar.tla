------------------------------ MODULE Calendar ------------------------------
(***************************************************************************)
(* The calendar arithmetic of Dev/HMIrtc.c: from the RTC counter to a date *)
(* and back.  The counter, seconds since 1970, is split into its days and  *)
(* the seconds of its day, as RTC_Get does at once; 32 bits hold every     *)
(* second up to the end of 2099, the last year RTC_Set takes.              *)
(***************************************************************************)
EXTENDS Integers, Sequences

Date(year, month, day) == [year |-> year, month |-> month, date |-> day]

\* Mutant of IsLeapYear: no century is leap.
IsLeapYearNoCentury(year) == year % 4 = 0 /\ year % 100 /= 0

IsLeapYear(year) == year % 4 = 0 /\ (year % 100 = 0 => year % 400 = 0)

mon_table == <<31, 28, 31, 30, 31, 30, 31, 31, 30, 31, 30, 31>>
table_week == <<0, 3, 3, 6, 1, 4, 6, 2, 5, 0, 3, 5>>

\* The length of a month, counted from 1, with the leap day in February.
MonthDays(year, month) ==
  mon_table[month] + (IF IsLeapYear(year) /\ month = 2 THEN 1 ELSE 0)

YearDays(year) == IF IsLeapYear(year) THEN 366 ELSE 365
-----------------------------------------------------------------------------
(***************************************************************************)
(* RTC_Get: the years are counted off while at least 365 days are left.    *)
(* The last day of a leap year, the 366th, is counted off as well, but not *)
(* its days.  Then the months are counted off while 28 days are left.      *)
(***************************************************************************)
Counts == [year : Nat, day : Nat]                 \* year, day_num
Marks == [year : Nat, month : Nat, date : Nat]    \* w_year, the month, day_num

CountYears[c \in Counts] ==
  IF c.day < 365 THEN c
  ELSE IF c.day < YearDays(c.year) THEN [year |-> c.year + 1, day |-> c.day]
  ELSE CountYears[[year |-> c.year + 1, day |-> c.day - YearDays(c.year)]]

\* For a month that the table does not have the code would read past it: no
\* date comes of that here.
PastTheTable == Date(0, 14, 0)

CountMonths[d \in Marks] ==
  IF d.date < 28 THEN Date(d.year, d.month, d.date + 1)
  ELSE IF d.month \notin 1 .. 12 THEN PastTheTable
  ELSE IF d.date < MonthDays(d.year, d.month) THEN Date(d.year, d.month, d.date + 1)
  ELSE CountMonths[Date(d.year, d.month + 1, d.date - MonthDays(d.year, d.month))]

\* The year of a day since 1 January 1970, with the days that are left of it
\* when the years have been counted off, and the date of such a day in a year.
YearOf(day_num) == CountYears[[year |-> 1970, day |-> day_num]]
DateIn(day_num, year) == CountMonths[Date(year, 1, day_num)]

\* The date RTC_Get stores for a day since 1 January 1970.
DateOf(day_num) == DateIn(YearOf(day_num).day, YearOf(day_num).year)
-----------------------------------------------------------------------------
(***************************************************************************)
(* RTC_GetWeek, 0 for Sunday.  For a month that the table does not have    *)
(* the code reads past the table: the result may be any day.               *)
(***************************************************************************)

\* Mutant of RTC_GetWeek: the leap day is counted from January on.
RTC_GetWeekLeap(year, month, day) ==
  IF month \notin 1 .. 12 THEN 0 .. 6
  ELSE LET low == (year % 100) + (IF year \div 100 > 19 THEN 100 ELSE 0)
           week  == ((low + low \div 4) % 7) + day + table_week[month]
       IN  {week % 7}

RTC_GetWeek(year, month, day) ==
  IF month \notin 1 .. 12 THEN 0 .. 6
  ELSE LET low == (year % 100) + (IF year \div 100 > 19 THEN 100 ELSE 0)
           week  == ((low + low \div 4) % 7) + day + table_week[month]
           leap  == IF low % 4 = 0 /\ month < 3 THEN 1 ELSE 0
       IN  {(week - leap) % 7}
-----------------------------------------------------------------------------
(***************************************************************************)
(* RTC_Set: the days of the years, of the months and of the month.         *)
(***************************************************************************)
DaysToYear[year \in Nat] ==
  IF year <= 1970 THEN 0 ELSE DaysToYear[year - 1] + YearDays(year - 1)

\* Mutant of DaysToMonth: the month that is set is counted too.
DaysPastMonth(year, month) ==
  LET days[m \in 0 .. 12] == IF m = 0 THEN 0 ELSE days[m - 1] + MonthDays(year, m)
  IN  days[month]

DaysToMonth(year, month) ==
  LET days[m \in 0 .. 12] == IF m = 0 THEN 0 ELSE days[m - 1] + MonthDays(year, m)
  IN  days[month - 1]

Settable(year) == year \in 1970 .. 2099

DayOf(date) ==
  DaysToYear[date.year] + DaysToMonth(date.year, date.month) + date.date - 1

DaySeconds == 86400
SecondOf(hour, min, sec) == hour * 3600 + min * 60 + sec

\* The counter RTC_Set writes; an hour past 23 goes on into the next day.
Counter(date, second) == [day    |-> DayOf(date) + second \div DaySeconds,
                          second |-> second % DaySeconds]
=============================================================================
