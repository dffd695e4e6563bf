--------------------------- MODULE RtcClock_proofs ---------------------------
(***************************************************************************)
(* The clock, for every time it is switched on at, set to or counts to,    *)
(* and every number of interrupts within the RTC_Get of the thread.  First *)
(* the loops of RTC_Get and RTC_Set and the week day, on every day of the  *)
(* calendar.  Then the date in calendar_t: unless the interrupt and the    *)
(* thread have stored the dates of two days over each other it is the date *)
(* of the day it is kept for, every interrupt shows the date of the day,   *)
(* and setting one field of the time changes that field alone.             *)
(***************************************************************************)
EXTENDS MCClock, WellFoundedInduction, TLAPS
-----------------------------------------------------------------------------
(***************************************************************************)
(* The years of the calendar, and the loop of RTC_Get that counts them.    *)
(***************************************************************************)

\* Induction over the natural numbers, for a set of them.
LEMMA SetInduction ==
  ASSUME NEW S, 0 \in S, \A n \in Nat : n \in S => n + 1 \in S
  PROVE  \A n \in Nat : n \in S
  <1> DEFINE R == OpToRel(<, Nat)
             T == Nat \ S
  <1>1. \A x, y \in Nat : x < y => <<x, y>> \in R
    BY DEF OpToRel
  <1>2. IsWellFoundedOn(R, Nat)
    BY NatLessThanWellFounded
  <1> HIDE DEF R
  <1>3. ASSUME T # {} PROVE FALSE
    <2>1. PICK x \in T : \A y \in T : ~ (<<y, x>> \in R)
      BY <1>2, <1>3, WFMin
    <2>2. x \in Nat /\ x # 0
      BY <2>1
    <2>3. x - 1 \in Nat /\ x - 1 < x /\ (x - 1) + 1 = x
      BY <2>2
    <2>4. x - 1 \notin T
      BY <1>1, <2>1, <2>2, <2>3
    <2> QED BY <2>1, <2>3, <2>4
  <1> QED BY <1>3

\* The days of the Gregorian calendar before a year.
DaysBefore(year) ==
  365 * year + (year + 3) \div 4 - (year + 99) \div 100 + (year + 399) \div 400

LEMMA LeapDays ==
  ASSUME NEW y \in Nat
  PROVE  /\ (y + 4) \div 4 = (y + 3) \div 4 + (IF y % 4 = 0 THEN 1 ELSE 0)
         /\ (y + 100) \div 100 = (y + 99) \div 100 + (IF y % 100 = 0 THEN 1 ELSE 0)
         /\ (y + 400) \div 400 = (y + 399) \div 400 + (IF y % 400 = 0 THEN 1 ELSE 0)
  OBVIOUS

LEMMA Centuries ==
  ASSUME NEW y \in Nat
  PROVE  /\ y % 400 = 0 => y % 100 = 0
         /\ y % 100 = 0 => y % 4 = 0
  OBVIOUS

LEMMA NextYear ==
  ASSUME NEW y \in Nat
  PROVE  /\ DaysBefore(y) \in Nat
         /\ DaysBefore(y + 1) = DaysBefore(y) + YearDays(y)
         /\ YearDays(y) \in {365, 366}
  <1>1. YearDays(y) \in {365, 366}
    BY DEF YearDays
  <1>2. DaysBefore(y) \in Nat
    BY DEF DaysBefore
  <1>3. DaysBefore(y + 1) = DaysBefore(y) + YearDays(y)
    <2> DEFINE a == (y + 3) \div 4
               b == (y + 99) \div 100
               c == (y + 399) \div 400
    <2>1. a \in Int /\ b \in Int /\ c \in Int
      OBVIOUS
    <2>2. DaysBefore(y) = 365 * y + a - b + c
      BY DEF DaysBefore
    <2>3. DaysBefore(y + 1) = 365 * (y + 1) + (y + 4) \div 4 - (y + 100) \div 100
                                + (y + 400) \div 400
      BY DEF DaysBefore
    <2>4. DaysBefore(y + 1) = 365 * y + 365 + (a + (IF y % 4 = 0 THEN 1 ELSE 0))
                                - (b + (IF y % 100 = 0 THEN 1 ELSE 0))
                                + (c + (IF y % 400 = 0 THEN 1 ELSE 0))
      BY <2>3, LeapDays
    <2> HIDE DEF a, b, c
    <2> QED BY <2>1, <2>2, <2>4, Centuries DEF YearDays, IsLeapYear
  <1> QED BY <1>1, <1>2, <1>3

LEMMA LaterYear ==
  ASSUME NEW j \in Nat, NEW k \in Nat, j <= k
  PROVE  DaysBefore(j) <= DaysBefore(k)
  BY DEF DaysBefore

-----------------------------------------------------------------------------
\* The day t, counted from the beginning of the calendar, lies in the year k.
InYear(t, k) == DaysBefore(k) <= t /\ t < DaysBefore(k + 1)

LEMMA YearThere ==
  \A t \in Nat : \E k \in Nat : InYear(t, k)
  <1> DEFINE S == {t \in Nat : \E k \in Nat : InYear(t, k)}
  <1>1. 0 \in S
    BY NextYear, 0 \in Nat, InYear(0, 0) DEF InYear, DaysBefore
  <1>2. ASSUME NEW n \in Nat, n \in S PROVE n + 1 \in S
    <2>1. PICK k \in Nat : InYear(n, k)
      BY <1>2
    <2> DEFINE a == DaysBefore(k)
               b == DaysBefore(k + 1)
               d == DaysBefore((k + 1) + 1)
    <2>2. a \in Nat /\ b \in Nat /\ d \in Nat /\ b < d
      BY NextYear, k + 1 \in Nat
    <2>3. a <= n /\ n < b
      BY <2>1 DEF InYear
    <2>4. n + 1 < b => InYear(n + 1, k)
      BY <2>2, <2>3 DEF InYear
    <2>5. ~(n + 1 < b) => InYear(n + 1, k + 1)
      <3> HIDE DEF a
      <3>1. ~(n + 1 < b) => b <= n + 1 /\ n + 1 < d
        <4> HIDE DEF b, d
        <4> QED BY <2>2, <2>3
      <3> QED BY <3>1 DEF InYear
    <2>6. k + 1 \in Nat /\ n + 1 \in Nat
      OBVIOUS
    <2> QED BY <2>4, <2>5, <2>6
  <1> HIDE DEF S
  <1>3. \A n \in Nat : n \in S
    BY <1>1, <1>2, SetInduction
  <1> QED BY <1>3 DEF S

LEMMA YearUnique ==
  ASSUME NEW t \in Nat, NEW j \in Nat, NEW k \in Nat, InYear(t, j), InYear(t, k)
  PROVE  j = k
  <1>1. ASSUME NEW x \in Nat, NEW y \in Nat, InYear(t, x), InYear(t, y), x < y
        PROVE  FALSE
    <2>1. DaysBefore(x + 1) <= DaysBefore(y)
      BY <1>1, LaterYear, x + 1 \in Nat, x + 1 <= y
    <2>2. DaysBefore(x + 1) \in Nat /\ DaysBefore(y) \in Nat
      BY NextYear, x + 1 \in Nat
    <2> QED BY <1>1, <2>1, <2>2 DEF InYear
  <1> QED BY <1>1

YearAt(t) == CHOOSE k \in Nat : InYear(t, k)

LEMMA YearAtIs ==
  ASSUME NEW t \in Nat
  PROVE  /\ YearAt(t) \in Nat /\ InYear(t, YearAt(t))
         /\ \A k \in Nat : InYear(t, k) => YearAt(t) = k
  <1>1. \E k \in Nat : InYear(t, k)
    BY YearThere
  <1>2. YearAt(t) \in Nat /\ InYear(t, YearAt(t))
    BY <1>1 DEF YearAt
  <1> QED BY <1>2, YearUnique
-----------------------------------------------------------------------------
(***************************************************************************)
(* What the loop over the years computes: the year of the day and the day  *)
(* in this year; for the 366th day of a year, the next year.               *)
(***************************************************************************)

Instant(c) == DaysBefore(c.year) + c.day

Counted(t) ==
  LET r == t - DaysBefore(YearAt(t))
  IN  [year |-> IF r < 365 THEN YearAt(t) ELSE YearAt(t) + 1, day |-> r]

YearsStep(f, c) ==
  IF c.day < 365 THEN c
  ELSE IF c.day < YearDays(c.year) THEN [year |-> c.year + 1, day |-> c.day]
  ELSE f[[year |-> c.year + 1, day |-> c.day - YearDays(c.year)]]

LEMMA CountedStep ==
  ASSUME NEW c \in Counts
  PROVE  /\ Instant(c) \in Nat
         /\ c.day < 365 => Counted(Instant(c)) = c
         /\ c.day >= 365 /\ c.day < YearDays(c.year)
              => Counted(Instant(c)) = [year |-> c.year + 1, day |-> c.day]
         /\ c.day >= YearDays(c.year)
              => LET e == [year |-> c.year + 1, day |-> c.day - YearDays(c.year)]
                 IN  e \in Counts /\ Instant(e) = Instant(c)
  <1> DEFINE y == c.year
             d == c.day
             t == Instant(c)
  <1>1. y \in Nat /\ d \in Nat /\ c = [year |-> y, day |-> d]
    BY DEF Counts
  <1> DEFINE a == DaysBefore(y)
             b == DaysBefore(y + 1)
             w == YearDays(y)
  <1>2. a \in Nat /\ b = a + w /\ w \in {365, 366}
    BY <1>1, NextYear
  <1>3. t = a + d
    BY DEF Instant
  <1>4. t \in Nat
    BY <1>1, <1>2, <1>3
  <1>5. ASSUME d < w PROVE YearAt(t) = y
    <2>1. a <= t /\ t < b
      <3> HIDE DEF a, b, w, d, t
      <3> QED BY <1>1, <1>2, <1>3, <1>5
    <2>2. InYear(t, y)
      BY <2>1 DEF InYear
    <2> HIDE DEF t
    <2> QED BY <1>1, <1>4, <2>2, YearAtIs
  <1>6. ASSUME d < w
        PROVE  Counted(t) = [year |-> IF d < 365 THEN y ELSE y + 1, day |-> d]
    <2>1. t - DaysBefore(YearAt(t)) = d
      <3>1. DaysBefore(YearAt(t)) = a
        BY <1>5, <1>6
      <3> HIDE DEF a, d, t
      <3> QED BY <1>1, <1>2, <1>3, <3>1
    <2> HIDE DEF d, t
    <2> QED BY <1>5, <1>6, <2>1 DEF Counted
  <1>7. d < 365 => Counted(t) = c
    <2> SUFFICES ASSUME d < 365 PROVE Counted(t) = c
      OBVIOUS
    <2>1. d < w
      <3> HIDE DEF d, w
      <3> QED BY <1>1, <1>2
    <2>2. Counted(t) = [year |-> y, day |-> d]
      BY <1>6, <2>1
    <2> QED BY <1>1, <2>2
  <1>8. d >= 365 /\ d < w => Counted(t) = [year |-> y + 1, day |-> d]
    <2> SUFFICES ASSUME d >= 365, d < w PROVE Counted(t) = [year |-> y + 1, day |-> d]
      OBVIOUS
    <2>1. ~(d < 365)
      <3> HIDE DEF d, w
      <3> QED BY <1>1
    <2> QED BY <1>6, <2>1
  <1>9. ASSUME d >= w
        PROVE  LET e == [year |-> y + 1, day |-> d - w]
               IN  e \in Counts /\ Instant(e) = t
    <2> DEFINE e == [year |-> y + 1, day |-> d - w]
    <2>1. y + 1 \in Nat /\ d - w \in Nat
      <3> HIDE DEF y, d, w
      <3> QED BY <1>1, <1>2, <1>9
    <2>2. Instant(e) = b + (d - w)
      BY DEF Instant
    <2>3. Instant(e) = t
      <3> HIDE DEF a, b, d, w, t, e
      <3> QED BY <1>1, <1>2, <1>3, <2>2
    <2>4. e \in Counts
      <3> HIDE DEF y, d, w
      <3> QED BY <2>1 DEF Counts
    <2> QED BY <2>3, <2>4
  <1> QED BY <1>4, <1>7, <1>8, <1>9

LEMMA CountedLastStep ==
  ASSUME NEW c \in Counts, c.day < YearDays(c.year), NEW f
  PROVE  YearsStep(f, c) = Counted(Instant(c))
  <1>1. c.day \in Nat
    BY DEF Counts
  <1>2. CASE c.day < 365
    <2>1. Counted(Instant(c)) = c
      BY <1>2, CountedStep
    <2> QED BY <1>2, <2>1 DEF YearsStep
  <1>3. CASE ~(c.day < 365)
    <2>1. c.day >= 365
      BY <1>1, <1>3
    <2>2. Counted(Instant(c)) = [year |-> c.year + 1, day |-> c.day]
      BY <2>1, CountedStep
    <2> QED BY <1>3, <2>2 DEF YearsStep
  <1> QED BY <1>2, <1>3

\* The definition of CountYears has a solution, and is one.
LEMMA CountYearsIs ==
  CountYears = [c \in Counts |-> YearsStep(CountYears, c)]
  <1> DEFINE g == [c \in Counts |-> Counted(Instant(c))]
  <1>1. ASSUME NEW c \in Counts PROVE g[c] = YearsStep(g, c)
    <2>1. c.day \in Nat /\ YearDays(c.year) \in {365, 366}
      BY NextYear DEF Counts
    <2>2. CASE c.day < YearDays(c.year)
      <3>1. YearsStep(g, c) = Counted(Instant(c))
        <4> HIDE DEF g
        <4> QED BY <2>2, CountedLastStep
      <3> QED BY <3>1
    <2>3. CASE ~(c.day < YearDays(c.year))
      <3> DEFINE e == [year |-> c.year + 1, day |-> c.day - YearDays(c.year)]
      <3>1. c.day >= YearDays(c.year) /\ ~(c.day < 365)
        BY <2>1, <2>3
      <3>2. e \in Counts /\ Instant(e) = Instant(c)
        BY <3>1, CountedStep
      <3>3. g[e] = g[c]
        <4> HIDE DEF e
        <4> QED BY <3>2
      <3>4. YearsStep(g, c) = g[e]
        BY <2>3, <3>1 DEF YearsStep
      <3> QED BY <3>3, <3>4
    <2> QED BY <2>2, <2>3
  <1>2. g = [c \in Counts |-> YearsStep(g, c)]
    <2> HIDE DEF g
    <2>1. g = [c \in Counts |-> g[c]]
      BY DEF g
    <2> QED BY <1>1, <2>1
  <1> DEFINE Sol(f) == f = [c \in Counts |-> YearsStep(f, c)]
  <1>3. \E f : Sol(f)
    BY <1>2
  <1>4. Sol(CHOOSE f : Sol(f))
    <2> HIDE DEF Sol
    <2> QED BY <1>3
  <1>5. CountYears = CHOOSE f : Sol(f)
    BY DEF CountYears, Counts, YearsStep
  <1> QED BY <1>4, <1>5

\* The loop ends with the year of the day.
LEMMA CountYearsCounts ==
  ASSUME NEW c \in Counts
  PROVE  CountYears[c] = Counted(Instant(c))
  <1> DEFINE S == {n \in Nat : \A x \in Counts :
                      x.day <= n => CountYears[x] = Counted(Instant(x))}
  <1>1. ASSUME NEW x \in Counts
        PROVE  CountYears[x] = YearsStep(CountYears, x)
    BY CountYearsIs
  <1>2. ASSUME NEW x \in Counts, x.day < YearDays(x.year)
        PROVE  CountYears[x] = Counted(Instant(x))
    <2>1. YearsStep(CountYears, x) = Counted(Instant(x))
      BY <1>2, CountedLastStep
    <2> QED BY <1>1, <2>1
  <1>3. 0 \in S
    <2> SUFFICES ASSUME NEW x \in Counts, x.day <= 0
                 PROVE  CountYears[x] = Counted(Instant(x))
      BY 0 \in Nat
    <2>1. x.day \in Nat /\ YearDays(x.year) \in {365, 366}
      BY NextYear DEF Counts
    <2> QED BY <1>2, <2>1
  <1>4. ASSUME NEW n \in Nat, n \in S PROVE n + 1 \in S
    <2> SUFFICES ASSUME NEW x \in Counts, x.day <= n + 1
                 PROVE  CountYears[x] = Counted(Instant(x))
      OBVIOUS
    <2>1. x.day \in Nat /\ YearDays(x.year) \in {365, 366}
      BY NextYear DEF Counts
    <2>2. CASE x.day < YearDays(x.year)
      BY <1>2, <2>2
    <2>3. CASE ~(x.day < YearDays(x.year))
      <3> DEFINE e == [year |-> x.year + 1, day |-> x.day - YearDays(x.year)]
      <3>1. x.day >= YearDays(x.year) /\ ~(x.day < 365)
        BY <2>1, <2>3
      <3>2. e \in Counts /\ Instant(e) = Instant(x)
        BY <3>1, CountedStep
      <3>3. e.day <= n
        BY <2>1, <3>1
      <3>4. CountYears[x] = CountYears[e]
        BY <1>1, <2>3, <3>1 DEF YearsStep
      <3>5. CountYears[e] = Counted(Instant(e))
        <4> HIDE DEF e
        <4> QED BY <1>4, <3>2, <3>3
      <3> QED BY <3>2, <3>4, <3>5
    <2> QED BY <2>2, <2>3
  <1> HIDE DEF S
  <1>5. \A n \in Nat : n \in S
    BY <1>3, <1>4, SetInduction
  <1>6. c.day \in Nat
    BY DEF Counts
  <1> QED BY <1>5, <1>6 DEF S
-----------------------------------------------------------------------------
(***************************************************************************)
(* The months of a year.                                                   *)
(***************************************************************************)

\* The days of a year before a month, for month 13 the days of the year.
MonthsBefore(year, month) ==
  (367 * month - 362) \div 12
    - (IF month <= 2 THEN 0 ELSE IF IsLeapYear(year) THEN 1 ELSE 2)

LEMMA MonthTable ==
  ASSUME NEW y \in Nat, NEW m \in 1 .. 12
  PROVE  /\ MonthsBefore(y, m) \in Nat
         /\ MonthsBefore(y, m + 1) = MonthsBefore(y, m) + MonthDays(y, m)
         /\ MonthDays(y, m) \in 28 .. 31
         /\ MonthsBefore(y, 1) = 0
         /\ MonthsBefore(y, 13) = YearDays(y)
  <1>1. /\ mon_table[1] = 31 /\ mon_table[2] = 28 /\ mon_table[3] = 31
        /\ mon_table[4] = 30 /\ mon_table[5] = 31 /\ mon_table[6] = 30
        /\ mon_table[7] = 31 /\ mon_table[8] = 31 /\ mon_table[9] = 30
        /\ mon_table[10] = 31 /\ mon_table[11] = 30 /\ mon_table[12] = 31
    BY DEF mon_table
  <1>2. MonthsBefore(y, 1) = 0 /\ MonthsBefore(y, 13) = YearDays(y)
    BY DEF MonthsBefore, YearDays
  <1>3. CASE m \in 1 .. 4
    BY <1>1, <1>2, <1>3 DEF MonthDays, MonthsBefore
  <1>4. CASE m \in 5 .. 8
    BY <1>1, <1>2, <1>4 DEF MonthDays, MonthsBefore
  <1>5. CASE m \in 9 .. 12
    BY <1>1, <1>2, <1>5 DEF MonthDays, MonthsBefore
  <1> QED BY <1>3, <1>4, <1>5

LEMMA LaterMonth ==
  ASSUME NEW y \in Nat, NEW m \in 1 .. 13, NEW n \in 1 .. 13, m <= n
  PROVE  MonthsBefore(y, m) \in Nat /\ MonthsBefore(y, m) <= MonthsBefore(y, n)
  BY DEF MonthsBefore

\* The day t of a year, counted from 0, lies in a month.
InMonth(y, t, m) == MonthsBefore(y, m) <= t /\ t < MonthsBefore(y, m + 1)

LEMMA MonthUnique ==
  ASSUME NEW y \in Nat, NEW t \in Nat, NEW m \in 1 .. 12, NEW n \in 1 .. 12,
         InMonth(y, t, m), InMonth(y, t, n)
  PROVE  m = n
  <1>1. ASSUME NEW a \in 1 .. 12, NEW b \in 1 .. 12, InMonth(y, t, a), InMonth(y, t, b),
               a < b
        PROVE  FALSE
    <2>1. a + 1 \in 1 .. 13 /\ b \in 1 .. 13 /\ a + 1 <= b
      BY <1>1
    <2>2. MonthsBefore(y, a + 1) \in Nat /\ MonthsBefore(y, a + 1) <= MonthsBefore(y, b)
      BY <2>1, LaterMonth
    <2>3. MonthsBefore(y, b) \in Nat
      BY <2>1, LaterMonth, b <= b
    <2> QED BY <1>1, <2>2, <2>3 DEF InMonth
  <1> QED BY <1>1

LEMMA MonthThere ==
  ASSUME NEW y \in Nat, NEW t \in Nat, t < YearDays(y)
  PROVE  \E m \in 1 .. 12 : InMonth(y, t, m)
  <1>1. MonthsBefore(y, 1) = 0 /\ MonthsBefore(y, 13) = YearDays(y)
    BY DEF MonthsBefore, YearDays
  <1>2. \A m \in 1 .. 13 : MonthsBefore(y, m) \in Nat
    BY LaterMonth, \A m \in 1 .. 13 : m <= m
  <1>3. SUFFICES ASSUME \A m \in 1 .. 12 : ~InMonth(y, t, m) PROVE FALSE
    OBVIOUS
  <1>4. \A m \in 1 .. 12 : MonthsBefore(y, m) <= t => MonthsBefore(y, m + 1) <= t
    BY <1>2, <1>3 DEF InMonth
  <1> DEFINE S == {n \in Nat : n + 1 \in 1 .. 13 => MonthsBefore(y, n + 1) <= t}
  <1>5. 0 \in S
    BY <1>1
  <1>6. ASSUME NEW n \in Nat, n \in S PROVE n + 1 \in S
    BY <1>4, <1>6
  <1> HIDE DEF S
  <1>7. 12 \in S
    BY <1>5, <1>6, SetInduction
  <1>8. MonthsBefore(y, 12 + 1) <= t
    BY <1>7 DEF S
  <1>9. YearDays(y) \in Nat
    BY DEF YearDays
  <1> QED BY <1>1, <1>8, <1>9

MonthAt(y, t) == CHOOSE m \in 1 .. 12 : InMonth(y, t, m)

LEMMA MonthAtIs ==
  ASSUME NEW y \in Nat, NEW t \in Nat, t < YearDays(y)
  PROVE  /\ MonthAt(y, t) \in 1 .. 12 /\ InMonth(y, t, MonthAt(y, t))
         /\ \A m \in 1 .. 12 : InMonth(y, t, m) => MonthAt(y, t) = m
  <1>1. \E m \in 1 .. 12 : InMonth(y, t, m)
    BY MonthThere
  <1>2. MonthAt(y, t) \in 1 .. 12 /\ InMonth(y, t, MonthAt(y, t))
    BY <1>1 DEF MonthAt
  <1> QED BY <1>2, MonthUnique
-----------------------------------------------------------------------------
(***************************************************************************)
(* What the loop over the months computes: the month of the day and the    *)
(* day in this month; the 366th day of a year of 365 is the first day of   *)
(* month 13.                                                               *)
(***************************************************************************)

DayInYear(d) == MonthsBefore(d.year, d.month) + d.date

InTable(y, t) == Date(y, MonthAt(y, t), t - MonthsBefore(y, MonthAt(y, t)) + 1)

Beyond(y, m, r) == IF r < 28 THEN Date(y, m, r + 1) ELSE PastTheTable

Marked(y, t) == IF t < YearDays(y) THEN InTable(y, t)
                ELSE Beyond(y, 13, t - YearDays(y))

MarkedFrom(d) == IF d.month \in 1 .. 12 THEN Marked(d.year, DayInYear(d))
                 ELSE Beyond(d.year, d.month, d.date)

MonthsStep(f, d) ==
  IF d.date < 28 THEN Date(d.year, d.month, d.date + 1)
  ELSE IF d.month \notin 1 .. 12 THEN PastTheTable
  ELSE IF d.date < MonthDays(d.year, d.month) THEN Date(d.year, d.month, d.date + 1)
  ELSE f[Date(d.year, d.month + 1, d.date - MonthDays(d.year, d.month))]

\* A step that ends the loop.
LEMMA MarkedLastStep ==
  ASSUME NEW d \in Marks, NEW f,
         d.month \in 1 .. 12 => d.date < MonthDays(d.year, d.month)
  PROVE  MonthsStep(f, d) = MarkedFrom(d)
  <1> DEFINE y == d.year
             m == d.month
             r == d.date
  <1>1. y \in Nat /\ m \in Nat /\ r \in Nat
    BY DEF Marks
  <1>2. CASE m \notin 1 .. 12
    BY <1>2 DEF MonthsStep, MarkedFrom, Beyond
  <1>3. CASE m \in 1 .. 12
    <2> DEFINE a == MonthsBefore(y, m)
               b == MonthsBefore(y, m + 1)
               w == MonthDays(y, m)
               t == DayInYear(d)
    <2>1. a \in Nat /\ b = a + w /\ w \in 28 .. 31 /\ MonthsBefore(y, 13) = YearDays(y)
      BY <1>1, <1>3, MonthTable
    <2>2. r < w /\ t = a + r
      BY <1>3 DEF DayInYear
    <2>3. b <= YearDays(y)
      <3>1. m + 1 \in 1 .. 13 /\ 13 \in 1 .. 13 /\ m + 1 <= 13
        BY <1>3
      <3>2. b <= MonthsBefore(y, 13)
        BY <1>1, <3>1, LaterMonth
      <3> QED BY <2>1, <3>2
    <2>4. YearDays(y) \in Nat
      BY DEF YearDays
    <2>5. t \in Nat /\ a <= t /\ t < b /\ t < YearDays(y) /\ t - a = r
      <3> HIDE DEF y, m, a, b, w, t, r
      <3> QED BY <1>1, <2>1, <2>2, <2>3, <2>4
    <2>6. InMonth(y, t, m)
      BY <2>5 DEF InMonth
    <2>7. MonthAt(y, t) = m
      <3> HIDE DEF y, m, t
      <3> QED BY <1>1, <1>3, <2>5, <2>6, MonthAtIs
    <2>8. Marked(y, t) = Date(y, m, r + 1)
      <3>1. t - MonthsBefore(y, MonthAt(y, t)) = r
        BY <2>5, <2>7
      <3> HIDE DEF t, r
      <3> QED BY <2>5, <2>7, <3>1 DEF Marked, InTable
    <2>9. MonthsStep(f, d) = Date(y, m, r + 1)
      BY <1>3, <2>2 DEF MonthsStep
    <2> QED BY <1>3, <2>8, <2>9 DEF MarkedFrom
  <1> QED BY <1>2, <1>3

\* A step that goes on to the next month.
LEMMA MarkedNextStep ==
  ASSUME NEW d \in Marks, NEW f, d.month \in 1 .. 12,
         ~(d.date < MonthDays(d.year, d.month))
  PROVE  LET e == Date(d.year, d.month + 1, d.date - MonthDays(d.year, d.month))
         IN  /\ e \in Marks /\ e.date < d.date
             /\ MarkedFrom(e) = MarkedFrom(d)
             /\ MonthsStep(f, d) = f[e]
  <1> DEFINE y == d.year
             m == d.month
             r == d.date
             a == MonthsBefore(y, m)
             b == MonthsBefore(y, m + 1)
             w == MonthDays(y, m)
             e == Date(y, m + 1, r - w)
  <1>1. y \in Nat /\ m \in Nat /\ r \in Nat
    BY DEF Marks
  <1>2. a \in Nat /\ b = a + w /\ w \in 28 .. 31 /\ MonthsBefore(y, 13) = YearDays(y)
    BY <1>1, MonthTable
  <1>3. r >= w /\ ~(r < 28) /\ r - w \in Nat /\ r - w < r
    <2>1. ~(r < w)
      OBVIOUS
    <2> HIDE DEF r, w
    <2> QED BY <1>1, <1>2, <2>1
  <1>4. e \in Marks /\ e.date < r /\ e.year = y /\ e.month = m + 1 /\ e.date = r - w
    <2>1. e.year = y /\ e.month = m + 1 /\ e.date = r - w
      BY DEF Date
    <2>2. m + 1 \in Nat
      BY <1>1
    <2>3. e \in Marks
      <3> HIDE DEF r, w, m, y
      <3> QED BY <1>1, <1>3, <2>2 DEF Date, Marks
    <2> QED BY <1>3, <2>1, <2>3
  <1>5. MonthsStep(f, d) = f[e]
    BY <1>3 DEF MonthsStep
  <1>6. DayInYear(e) = DayInYear(d)
    <2>1. DayInYear(e) = b + (r - w) /\ DayInYear(d) = a + r
      BY <1>4 DEF DayInYear
    <2> HIDE DEF a, b, r, w, e
    <2> QED BY <1>1, <1>2, <2>1
  <1>7. MarkedFrom(e) = MarkedFrom(d)
    <2>1. MarkedFrom(d) = Marked(y, DayInYear(d))
      BY DEF MarkedFrom
    <2>2. CASE m < 12
      <3>1. m + 1 \in 1 .. 12
        BY <2>2
      <3>2. MarkedFrom(e) = Marked(y, DayInYear(e))
        BY <1>4, <3>1 DEF MarkedFrom
      <3> QED BY <1>6, <2>1, <3>2
    <2>3. CASE ~(m < 12)
      <3>1. m + 1 = 13 /\ m + 1 \notin 1 .. 12
        BY <2>3
      <3>2. MarkedFrom(e) = Beyond(y, 13, r - w)
        <4> HIDE DEF e, r, w
        <4> QED BY <1>4, <3>1 DEF MarkedFrom
      <3>3. b = YearDays(y) /\ DayInYear(d) = b + (r - w)
        <4>1. b = YearDays(y)
          BY <1>2, <3>1
        <4>2. DayInYear(d) = a + r
          BY DEF DayInYear
        <4> HIDE DEF a, b, r, w
        <4> QED BY <1>1, <1>2, <4>1, <4>2
      <3>4. ~(DayInYear(d) < YearDays(y)) /\ DayInYear(d) - YearDays(y) = r - w
        <4>1. b \in Int
          <5> HIDE DEF a, b, w
          <5> QED BY <1>2
        <4> HIDE DEF b, r, w
        <4> QED BY <1>3, <3>3, <4>1
      <3>5. MarkedFrom(d) = Beyond(y, 13, r - w)
        <4> HIDE DEF r, w, y
        <4> QED BY <2>1, <3>4 DEF Marked
      <3> QED BY <3>2, <3>5
    <2> QED BY <2>2, <2>3
  <1> QED BY <1>4, <1>5, <1>7

LEMMA CountMonthsIs ==
  CountMonths = [d \in Marks |-> MonthsStep(CountMonths, d)]
  <1> DEFINE g == [d \in Marks |-> MarkedFrom(d)]
  <1>1. ASSUME NEW d \in Marks PROVE g[d] = MonthsStep(g, d)
    <2>1. CASE d.month \in 1 .. 12 => d.date < MonthDays(d.year, d.month)
      <3>1. MonthsStep(g, d) = MarkedFrom(d)
        <4> HIDE DEF g
        <4> QED BY <2>1, MarkedLastStep
      <3> QED BY <3>1
    <2>2. CASE d.month \in 1 .. 12 /\ ~(d.date < MonthDays(d.year, d.month))
      <3> DEFINE e == Date(d.year, d.month + 1, d.date - MonthDays(d.year, d.month))
      <3>1. e \in Marks /\ MarkedFrom(e) = MarkedFrom(d) /\ MonthsStep(g, d) = g[e]
        <4> HIDE DEF g
        <4> QED BY <2>2, MarkedNextStep
      <3>2. g[e] = g[d]
        <4> HIDE DEF e
        <4> QED BY <3>1
      <3> QED BY <3>1, <3>2
    <2> QED BY <2>1, <2>2
  <1>2. g = [d \in Marks |-> MonthsStep(g, d)]
    <2> HIDE DEF g
    <2>1. g = [d \in Marks |-> g[d]]
      BY DEF g
    <2> QED BY <1>1, <2>1
  <1> DEFINE Sol(f) == f = [d \in Marks |-> MonthsStep(f, d)]
  <1>3. \E f : Sol(f)
    BY <1>2
  <1>4. Sol(CHOOSE f : Sol(f))
    <2> HIDE DEF Sol
    <2> QED BY <1>3
  <1>5. CountMonths = CHOOSE f : Sol(f)
    BY DEF CountMonths, Marks, MonthsStep
  <1> QED BY <1>4, <1>5

LEMMA CountMonthsMarks ==
  ASSUME NEW d \in Marks
  PROVE  CountMonths[d] = MarkedFrom(d)
  <1> DEFINE S == {n \in Nat : \A x \in Marks : x.date < n => CountMonths[x] = MarkedFrom(x)}
  <1>1. ASSUME NEW x \in Marks
        PROVE  CountMonths[x] = MonthsStep(CountMonths, x)
    BY CountMonthsIs
  <1>2. \A x \in Marks : x.date \in Nat
    BY DEF Marks
  <1>3. 0 \in S
    BY <1>2
  <1>4. ASSUME NEW n \in Nat, n \in S PROVE n + 1 \in S
    <2> SUFFICES ASSUME NEW x \in Marks, x.date < n + 1
                 PROVE  CountMonths[x] = MarkedFrom(x)
      OBVIOUS
    <2>1. CASE x.month \in 1 .. 12 => x.date < MonthDays(x.year, x.month)
      <3>1. MonthsStep(CountMonths, x) = MarkedFrom(x)
        BY <2>1, MarkedLastStep
      <3> QED BY <1>1, <3>1
    <2>2. CASE x.month \in 1 .. 12 /\ ~(x.date < MonthDays(x.year, x.month))
      <3> DEFINE e == Date(x.year, x.month + 1, x.date - MonthDays(x.year, x.month))
      <3>1. /\ e \in Marks /\ e.date < x.date
            /\ MarkedFrom(e) = MarkedFrom(x)
            /\ MonthsStep(CountMonths, x) = CountMonths[e]
        BY <2>2, MarkedNextStep
      <3>2. CountMonths[e] = MarkedFrom(e)
        <4> HIDE DEF e
        <4>1. e.date < n
          BY <1>2, <3>1
        <4> QED BY <1>4, <3>1, <4>1
      <3> QED BY <1>1, <3>1, <3>2
    <2> QED BY <2>1, <2>2
  <1> HIDE DEF S
  <1>5. \A n \in Nat : n \in S
    BY <1>3, <1>4, SetInduction
  <1>6. d.date + 1 \in Nat /\ d.date < d.date + 1
    BY <1>2
  <1>7. d.date + 1 \in S
    BY <1>5, <1>6
  <1> QED BY <1>6, <1>7 DEF S
-----------------------------------------------------------------------------
(***************************************************************************)
(* RTC_Get and RTC_Set on a day of the calendar.                           *)
(***************************************************************************)

\* The day since 1 January 1970 of the day q, from 0, of a month.
DayNumber(y, m, q) == DaysBefore(y) - DaysBefore(1970) + MonthsBefore(y, m) + q

\* The years the counter can reach.
SinceEpoch(y) == y >= 1970

\* The 366th day of a year is in a leap year, and the next year is not one.
LEMMA AfterLeapYear ==
  ASSUME NEW y \in Nat, YearDays(y) = 366
  PROVE  IsLeapYear(y) /\ YearDays(y + 1) = 365
  <1>1. y % 4 = 0
    BY DEF YearDays, IsLeapYear
  <1>2. (y + 1) % 4 /= 0
    BY <1>1
  <1> QED BY <1>2 DEF YearDays, IsLeapYear

LEMMA MonthEnd ==
  ASSUME NEW y \in Nat, NEW m \in 1 .. 12
  PROVE  /\ MonthsBefore(y, m) \in Nat /\ MonthDays(y, m) \in 28 .. 31
         /\ MonthsBefore(y, m + 1) = MonthsBefore(y, m) + MonthDays(y, m)
         /\ MonthsBefore(y, m + 1) <= YearDays(y)
         /\ m /= 12 => MonthsBefore(y, m + 1) <= MonthsBefore(y, 12)
  <1>1. /\ MonthsBefore(y, m) \in Nat /\ MonthDays(y, m) \in 28 .. 31
        /\ MonthsBefore(y, m + 1) = MonthsBefore(y, m) + MonthDays(y, m)
        /\ MonthsBefore(y, 13) = YearDays(y)
    BY MonthTable
  <1>2. m + 1 \in 1 .. 13 /\ 13 \in 1 .. 13 /\ 12 \in 1 .. 13 /\ m + 1 <= 13
    OBVIOUS
  <1>3. MonthsBefore(y, m + 1) <= MonthsBefore(y, 13)
    BY <1>2, LaterMonth
  <1>4. ASSUME m /= 12 PROVE MonthsBefore(y, m + 1) <= MonthsBefore(y, 12)
    <2>1. m + 1 <= 12
      BY <1>4
    <2> QED BY <1>2, <2>1, LaterMonth
  <1> QED BY <1>1, <1>3, <1>4

\* The months of a day of a year are those of the table.
LEMMA DateInMarks ==
  ASSUME NEW r \in Nat, NEW z \in Nat
  PROVE  DateIn(r, z) = Marked(z, r)
  <1> DEFINE d == Date(z, 1, r)
  <1>1. d \in Marks /\ d.year = z /\ d.month = 1 /\ d.date = r
    BY DEF Marks, Date
  <1>2. MonthsBefore(z, 1) = 0
    BY DEF MonthsBefore
  <1>3. DayInYear(d) = r
    <2> HIDE DEF d
    <2> QED BY <1>1, <1>2 DEF DayInYear
  <1>4. CountMonths[d] = MarkedFrom(d)
    <2> HIDE DEF d
    <2> QED BY <1>1, CountMonthsMarks
  <1>5. MarkedFrom(d) = Marked(z, r)
    <2> HIDE DEF d
    <2> QED BY <1>1, <1>3 DEF MarkedFrom
  <1> QED BY <1>4, <1>5 DEF DateIn

LEMMA DateOfDay ==
  ASSUME NEW y \in Nat, SinceEpoch(y), NEW m \in 1 .. 12, NEW q \in Nat, q < MonthDays(y, m)
  PROVE  /\ DayNumber(y, m, q) \in Nat
         /\ DateOf(DayNumber(y, m, q)) =
              IF IsLeapYear(y) /\ m = 12 /\ q = 30 THEN Date(y + 1, 13, 1)
              ELSE Date(y, m, q + 1)
  <1> DEFINE e == DaysBefore(1970)
             s == DaysBefore(y)
             a == MonthsBefore(y, m)
             b == MonthsBefore(y, m + 1)
             w == MonthDays(y, m)
             n == DayNumber(y, m, q)
             t == e + n
             r == a + q
  <1>1. /\ e \in Nat /\ s \in Nat /\ e <= s
        /\ DaysBefore(y + 1) = s + YearDays(y) /\ YearDays(y) \in {365, 366}
    <2>1. ASSUME NEW x \in Nat, x <= y PROVE DaysBefore(x) \in Nat /\ DaysBefore(x) <= s
      BY <2>1, NextYear, LaterYear
    <2>2. e \in Nat /\ s \in Nat /\ e <= s
      <3>1. 1970 \in Nat /\ 1970 <= y /\ y <= y
        BY DEF SinceEpoch
      <3> QED BY <2>1, <3>1
    <2>3. DaysBefore(y + 1) = s + YearDays(y) /\ YearDays(y) \in {365, 366}
      BY NextYear
    <2> QED BY <2>2, <2>3
  <1>2. a \in Nat /\ b = a + w /\ w \in 28 .. 31
    BY MonthEnd
  <1>3. b <= YearDays(y) /\ (m /= 12 => b <= MonthsBefore(y, 12))
    BY MonthEnd
  <1>4. n = s - e + a + q
    BY DEF DayNumber
  <1>5. /\ n \in Nat /\ t \in Nat /\ t = s + r /\ r \in Nat /\ t - s = r
        /\ s <= t /\ t < s + YearDays(y) /\ r < YearDays(y)
    <2>1. q < w
      OBVIOUS
    <2> HIDE DEF e, s, a, b, w, n
    <2> QED BY <1>1, <1>2, <1>3, <1>4, <2>1
  <1>6. YearAt(t) = y
    <2>1. InYear(t, y)
      BY <1>1, <1>5 DEF InYear
    <2> HIDE DEF t
    <2> QED BY <1>5, <2>1, YearAtIs
  <1>7. YearOf(n) = [year |-> IF r < 365 THEN y ELSE y + 1, day |-> r]
    <2> DEFINE c == [year |-> 1970, day |-> n]
    <2>1. c \in Counts /\ Instant(c) = t
      BY <1>5 DEF Counts, Instant
    <2>2. CountYears[c] = Counted(t)
      <3> HIDE DEF c, t
      <3> QED BY <2>1, CountYearsCounts
    <2>3. Counted(t) = [year |-> IF r < 365 THEN y ELSE y + 1, day |-> r]
      <3> HIDE DEF t, r
      <3> QED BY <1>5, <1>6 DEF Counted
    <2> QED BY <2>2, <2>3 DEF YearOf
  <1>8. ASSUME NEW z \in Nat PROVE DateIn(r, z) = Marked(z, r)
    <2> HIDE DEF r
    <2> QED BY <1>5, DateInMarks
  <1>9. CASE r < 365
    <2>1. DateOf(n) = Marked(y, r)
      <3>1. YearOf(n) = [year |-> y, day |-> r]
        BY <1>7, <1>9
      <3>2. YearOf(n).year = y /\ YearOf(n).day = r
        BY <3>1
      <3> QED BY <1>8, <3>2 DEF DateOf
    <2>2. MonthAt(y, r) = m
      <3>1. InMonth(y, r, m)
        <4>1. a <= r /\ r < b
          <5>1. q < w
            OBVIOUS
          <5> HIDE DEF a, b, w
          <5> QED BY <1>2, <5>1
        <4> QED BY <4>1 DEF InMonth
      <3> HIDE DEF r
      <3> QED BY <1>5, <3>1, MonthAtIs
    <2>3. r - MonthsBefore(y, MonthAt(y, r)) = q
      <3>1. MonthsBefore(y, MonthAt(y, r)) = a
        BY <2>2
      <3>2. r - a = q
        <4> HIDE DEF a
        <4> QED BY <1>2
      <3> QED BY <3>1, <3>2
    <2>4. Marked(y, r) = Date(y, m, q + 1)
      <3> HIDE DEF r
      <3> QED BY <1>5, <2>2, <2>3 DEF Marked, InTable
    <2>5. ~(IsLeapYear(y) /\ m = 12 /\ q = 30)
      <3> SUFFICES ASSUME IsLeapYear(y), m = 12, q = 30 PROVE FALSE
        OBVIOUS
      <3>1. a = 335
        BY DEF MonthsBefore
      <3> QED BY <1>9, <3>1
    <2> QED BY <1>5, <2>1, <2>4, <2>5
  <1>10. CASE ~(r < 365)
    <2>1. r = 365 /\ YearDays(y) = 366
      <3> HIDE DEF r
      <3> QED BY <1>1, <1>5, <1>10
    <2>2. IsLeapYear(y) /\ YearDays(y + 1) = 365 /\ y + 1 \in Nat
      BY <2>1, AfterLeapYear
    <2>3. m = 12 /\ q = 30
      <3>1. CASE m = 12
        <4>1. a = 335
          BY <2>2, <3>1 DEF MonthsBefore
        <4>2. 335 + q = 365
          BY <2>1, <4>1
        <4> QED BY <3>1, <4>2
      <3>2. CASE m /= 12
        <4>2. b <= MonthsBefore(y, 12)
          BY <1>3, <3>2
        <4>3. MonthsBefore(y, 12) = 335
          BY <2>2 DEF MonthsBefore
        <4>4. r < b
          <5>1. q < w
            OBVIOUS
          <5> HIDE DEF a, b, w
          <5> QED BY <1>2, <5>1
        <4>5. b \in Int
          <5> HIDE DEF a, b, w
          <5> QED BY <1>2
        <4> HIDE DEF b, r
        <4> QED BY <2>1, <4>2, <4>3, <4>4, <4>5
      <3> QED BY <3>1, <3>2
    <2>4. DateOf(n) = Marked(y + 1, r)
      <3>1. YearOf(n) = [year |-> y + 1, day |-> r]
        BY <1>7, <1>10
      <3>2. YearOf(n).year = y + 1 /\ YearOf(n).day = r
        BY <3>1
      <3> QED BY <1>8, <2>2, <3>2 DEF DateOf
    <2>5. Marked(y + 1, r) = Date(y + 1, 13, 1)
      <3> HIDE DEF r
      <3> QED BY <2>1, <2>2 DEF Marked, Beyond
    <2> QED BY <1>5, <2>2, <2>3, <2>4, <2>5
  <1> QED BY <1>9, <1>10

\* The days that RTC_Get is left with in a year make a date in this year.
LEMMA DayInYearDated ==
  ASSUME NEW r \in 0 .. 365, NEW z \in Nat
  PROVE  \E m \in 1 .. 13, q \in Nat : DateIn(r, z) = Date(z, m, q + 1)
  <1>1. DateIn(r, z) = Marked(z, r) /\ YearDays(z) \in {365, 366}
    <2>1. r \in Nat
      OBVIOUS
    <2> QED BY <2>1, DateInMarks, NextYear
  <1>2. CASE r < YearDays(z)
    <2> DEFINE m == MonthAt(z, r)
               q == r - MonthsBefore(z, m)
    <2>1. m \in 1 .. 12 /\ InMonth(z, r, m)
      BY <1>2, MonthAtIs
    <2>2. MonthsBefore(z, m) \in Nat /\ MonthsBefore(z, m) <= r
      <3> HIDE DEF m
      <3> QED BY <2>1, MonthEnd DEF InMonth
    <2>3. q \in Nat /\ m \in 1 .. 13
      <3> HIDE DEF m
      <3> QED BY <2>1, <2>2
    <2>4. DateIn(r, z) = Date(z, m, q + 1)
      BY <1>1, <1>2 DEF Marked, InTable
    <2> HIDE DEF m, q
    <2> QED BY <2>3, <2>4
  <1>3. CASE ~(r < YearDays(z))
    <2>1. r - YearDays(z) = 0
      BY <1>1, <1>3
    <2>2. DateIn(r, z) = Date(z, 13, 0 + 1)
      BY <1>1, <1>3, <2>1 DEF Marked, Beyond
    <2> QED BY <2>2, 13 \in 1 .. 13, 0 \in Nat
  <1> QED BY <1>2, <1>3

\* What the loop over the years leaves of a day.
LEMMA YearOfDay ==
  ASSUME NEW n \in Nat
  PROVE  YearOf(n).year \in Nat /\ SinceEpoch(YearOf(n).year) /\ YearOf(n).day \in 0 .. 365
  <1> DEFINE e == DaysBefore(1970)
             c == [year |-> 1970, day |-> n]
             t == e + n
             y == YearAt(t)
             r == t - DaysBefore(y)
  <1>1. e \in Nat /\ t \in Nat /\ e <= t
    <2>1. e \in Nat
      BY NextYear, 1970 \in Nat
    <2> HIDE DEF e
    <2> QED BY <2>1
  <1>2. y \in Nat /\ DaysBefore(y) <= t /\ t < DaysBefore(y + 1)
    <2>1. y \in Nat /\ InYear(t, y)
      <3> HIDE DEF t
      <3> QED BY <1>1, YearAtIs
    <2> HIDE DEF t, y
    <2> QED BY <2>1 DEF InYear
  <1>3. DaysBefore(y) \in Nat /\ DaysBefore(y + 1) = DaysBefore(y) + YearDays(y)
        /\ YearDays(y) \in {365, 366}
    <2> HIDE DEF y
    <2> QED BY <1>2, NextYear
  <1>4. r \in 0 .. 365
    <2> HIDE DEF t, y
    <2> QED BY <1>1, <1>2, <1>3
  <1>5. 1970 <= y
    <2> SUFFICES ASSUME ~(1970 <= y) PROVE FALSE
      OBVIOUS
    <2>1. y + 1 \in Nat /\ y + 1 <= 1970
      <3> HIDE DEF y
      <3> QED BY <1>2
    <2>2. DaysBefore(y + 1) <= e
      <3> HIDE DEF y
      <3> QED BY <2>1, LaterYear, 1970 \in Nat
    <2>3. DaysBefore(y + 1) \in Nat
      <3> HIDE DEF y
      <3> QED BY <1>3
    <2> HIDE DEF e, t, y
    <2> QED BY <1>1, <1>2, <2>2, <2>3
  <1>6. YearOf(n) = [year |-> IF r < 365 THEN y ELSE y + 1, day |-> r]
    <2>1. c \in Counts /\ Instant(c) = t
      BY DEF Counts, Instant
    <2>2. CountYears[c] = Counted(t)
      <3> HIDE DEF c, t
      <3> QED BY <2>1, CountYearsCounts
    <2> QED BY <2>2 DEF YearOf, Counted
  <1> HIDE DEF r, y
  <1>7. YearOf(n).day = r /\ YearOf(n).year \in {y, y + 1}
    BY <1>6
  <1>8. \A z \in {y, y + 1} : z \in Nat /\ SinceEpoch(z)
    BY <1>2, <1>5 DEF SinceEpoch
  <1> QED BY <1>4, <1>7, <1>8

\* A date of a month and a year that RTC_Get counts to.
Dated(d) ==
  \E y \in Nat, m \in 1 .. 13, q \in Nat : SinceEpoch(y) /\ d = Date(y, m, q + 1)

LEMMA DateDated ==
  ASSUME NEW n \in Nat
  PROVE  Dated(DateOf(n)) /\ DateOf(n).year = YearOf(n).year
  <1>1. PICK z : z = YearOf(n).year
    OBVIOUS
  <1>2. z \in Nat /\ SinceEpoch(z) /\ YearOf(n).day \in 0 .. 365
    BY <1>1, YearOfDay
  <1>3. PICK m \in 1 .. 13, q \in Nat : DateIn(YearOf(n).day, z) = Date(z, m, q + 1)
    BY <1>2, DayInYearDated
  <1>4. DateOf(n) = Date(z, m, q + 1)
    BY <1>1, <1>3 DEF DateOf
  <1>5. DateOf(n).year = z
    BY <1>4 DEF Date
  <1> QED BY <1>1, <1>2, <1>4, <1>5 DEF Dated

LEMMA DaysToYearIs ==
  DaysToYear = [y \in Nat |-> IF y <= 1970 THEN 0 ELSE DaysToYear[y - 1] + YearDays(y - 1)]
  <1> DEFINE e == DaysBefore(1970)
             g == [y \in Nat |-> IF y <= 1970 THEN 0 ELSE DaysBefore(y) - e]
  <1>1. ASSUME NEW y \in Nat
        PROVE  g[y] = IF y <= 1970 THEN 0 ELSE g[y - 1] + YearDays(y - 1)
    <2>1. CASE y <= 1970
      BY <2>1
    <2>2. CASE ~(y <= 1970)
      <3>1. y - 1 \in Nat /\ (y - 1) + 1 = y /\ y - 1 >= 1970
        BY <2>2
      <3>2. /\ DaysBefore(y) = DaysBefore(y - 1) + YearDays(y - 1)
            /\ DaysBefore(y - 1) \in Nat /\ YearDays(y - 1) \in {365, 366}
        BY <3>1, NextYear
      <3>3. e \in Nat
        BY NextYear, 1970 \in Nat
      <3>4. g[y - 1] = DaysBefore(y - 1) - e
        <4>1. CASE y - 1 = 1970
          <5>1. DaysBefore(y - 1) = e
            BY <4>1
          <5>2. DaysBefore(y - 1) - e = 0
            <6> HIDE DEF e
            <6> QED BY <3>3, <5>1
          <5> QED BY <3>1, <4>1, <5>2
        <4>2. CASE y - 1 /= 1970
          <5>1. ~(y - 1 <= 1970)
            BY <3>1, <4>2
          <5> HIDE DEF e
          <5> QED BY <3>1, <5>1
        <4> QED BY <4>1, <4>2
      <3>5. g[y] = DaysBefore(y) - e
        BY <2>2
      <3> HIDE DEF e, g
      <3> QED BY <2>2, <3>2, <3>3, <3>4, <3>5
    <2> QED BY <2>1, <2>2
  <1> DEFINE Sol(f) == f = [y \in Nat |-> IF y <= 1970 THEN 0 ELSE f[y - 1] + YearDays(y - 1)]
  <1>2. Sol(g)
    <2> HIDE DEF g
    <2>1. g = [y \in Nat |-> g[y]]
      BY DEF g
    <2> DEFINE rhs(y) == IF y <= 1970 THEN 0 ELSE g[y - 1] + YearDays(y - 1)
    <2>2. \A y \in Nat : g[y] = rhs(y)
      BY <1>1
    <2>3. g = [y \in Nat |-> rhs(y)]
      <3> HIDE DEF rhs
      <3> QED BY <2>1, <2>2
    <2> QED BY <2>3
  <1>3. \E f : Sol(f)
    BY <1>2
  <1>4. Sol(CHOOSE f : Sol(f))
    <2> HIDE DEF Sol
    <2> QED BY <1>3
  <1>5. DaysToYear = CHOOSE f : Sol(f)
    BY DEF DaysToYear
  <1> QED BY <1>4, <1>5

LEMMA DaysToYearCounts ==
  ASSUME NEW y \in Nat, y >= 1970
  PROVE  DaysToYear[y] = DaysBefore(y) - DaysBefore(1970)
  <1> DEFINE e == DaysBefore(1970)
             S == {n \in Nat : DaysToYear[1970 + n] = DaysBefore(1970 + n) - e}
  <1>1. e \in Nat
    BY NextYear, 1970 \in Nat
  <1>2. 0 \in S
    <2>1. DaysToYear[1970] = 0
      BY DaysToYearIs
    <2>2. e - e = 0
      <3> HIDE DEF e
      <3> QED BY <1>1
    <2>3. 1970 + 0 = 1970 /\ 0 \in Nat
      OBVIOUS
    <2>4. DaysToYear[1970 + 0] = DaysBefore(1970 + 0) - e
      BY <2>1, <2>2, <2>3
    <2> HIDE DEF e
    <2> QED BY <2>3, <2>4
  <1>3. ASSUME NEW n \in Nat, n \in S PROVE n + 1 \in S
    <2> DEFINE x == 1970 + n
    <2>1. x \in Nat /\ x + 1 \in Nat /\ (x + 1) - 1 = x /\ 1970 + (n + 1) = x + 1
          /\ ~(x + 1 <= 1970)
      OBVIOUS
    <2>2. DaysToYear[x] = DaysBefore(x) - e
      <3> HIDE DEF e
      <3> QED BY <1>3
    <2>3. DaysToYear[x + 1] = DaysToYear[x] + YearDays(x)
      <3> HIDE DEF x
      <3> QED BY <2>1, DaysToYearIs
    <2>4. /\ DaysBefore(x + 1) = DaysBefore(x) + YearDays(x)
          /\ DaysBefore(x) \in Nat /\ YearDays(x) \in {365, 366}
      <3> HIDE DEF x
      <3> QED BY <2>1, NextYear
    <2>5. DaysToYear[x + 1] = DaysBefore(x + 1) - e
      <3> HIDE DEF x, e
      <3> QED BY <1>1, <2>2, <2>3, <2>4
    <2> HIDE DEF e, x
    <2>6. DaysToYear[1970 + (n + 1)] = DaysBefore(1970 + (n + 1)) - e
      BY <2>1, <2>5
    <2> QED BY <2>6
  <1> HIDE DEF S
  <1>4. \A n \in Nat : n \in S
    BY <1>2, <1>3, SetInduction
  <1>5. y - 1970 \in Nat /\ 1970 + (y - 1970) = y
    OBVIOUS
  <1>6. y - 1970 \in S
    BY <1>4, <1>5
  <1>7. DaysToYear[1970 + (y - 1970)] = DaysBefore(1970 + (y - 1970)) - e
    <2> HIDE DEF e
    <2> QED BY <1>6 DEF S
  <1> QED BY <1>5, <1>7

LEMMA DaysToMonthCounts ==
  ASSUME NEW y \in Nat, NEW m \in 1 .. 13
  PROVE  DaysToMonth(y, m) = MonthsBefore(y, m)
  <1> DEFINE Sol(f) == f = [k \in 0 .. 12 |-> IF k = 0 THEN 0 ELSE f[k - 1] + MonthDays(y, k)]
             g == [k \in 0 .. 12 |-> MonthsBefore(y, k + 1)]
             days == CHOOSE f : Sol(f)
  <1>1. MonthsBefore(y, 1) = 0
    BY DEF MonthsBefore
  <1>2. ASSUME NEW k \in 1 .. 12
        PROVE  MonthsBefore(y, k + 1) = MonthsBefore(y, k) + MonthDays(y, k)
    BY MonthTable
  <1>3. ASSUME NEW k \in 0 .. 12
        PROVE  g[k] = IF k = 0 THEN 0 ELSE g[k - 1] + MonthDays(y, k)
    <2>1. CASE k = 0
      BY <1>1, <2>1
    <2>2. CASE k /= 0
      <3>1. k \in 1 .. 12 /\ k - 1 \in 0 .. 12 /\ (k - 1) + 1 = k
        BY <2>2
      <3> QED BY <1>2, <2>2, <3>1
    <2> QED BY <2>1, <2>2
  <1>4. Sol(g)
    <2> HIDE DEF g
    <2>1. g = [k \in 0 .. 12 |-> g[k]]
      BY DEF g
    <2> QED BY <1>3, <2>1
  <1>5. Sol(days)
    <2>1. \E f : Sol(f)
      BY <1>4
    <2> HIDE DEF Sol
    <2> QED BY <2>1
  <1>6. DaysToMonth(y, m) = days[m - 1]
    BY DEF DaysToMonth
  <1> HIDE DEF days
  <1>7. ASSUME NEW k \in 0 .. 12
        PROVE  days[k] = IF k = 0 THEN 0 ELSE days[k - 1] + MonthDays(y, k)
    BY <1>5
  <1> DEFINE S == {n \in Nat : n \in 0 .. 12 => days[n] = MonthsBefore(y, n + 1)}
  <1>8. 0 \in S
    BY <1>1, <1>7
  <1>9. ASSUME NEW n \in Nat, n \in S PROVE n + 1 \in S
    <2> SUFFICES ASSUME n + 1 \in 0 .. 12
                 PROVE  days[n + 1] = MonthsBefore(y, (n + 1) + 1)
      BY n + 1 \in Nat
    <2>1. n \in 0 .. 12 /\ n + 1 \in 1 .. 12 /\ n + 1 /= 0 /\ (n + 1) - 1 = n
      OBVIOUS
    <2>2. days[n] = MonthsBefore(y, n + 1)
      BY <1>9, <2>1
    <2>3. days[n + 1] = days[n] + MonthDays(y, n + 1)
      BY <1>7, <2>1
    <2> QED BY <1>2, <2>1, <2>2, <2>3
  <1> HIDE DEF S
  <1>10. m - 1 \in S
    <2>1. m - 1 \in Nat
      OBVIOUS
    <2> QED BY <1>8, <1>9, <2>1, SetInduction
  <1>11. m - 1 \in 0 .. 12 /\ (m - 1) + 1 = m
    OBVIOUS
  <1> QED BY <1>6, <1>10, <1>11 DEF S
-----------------------------------------------------------------------------
(***************************************************************************)
(* RTC_GetWeek on a day of the calendar up to 2099.                        *)
(***************************************************************************)
LEMMA SevenDays ==
  ASSUME NEW a \in Int, NEW b \in Int, NEW k \in Int, a = b + 7 * k
  PROVE  a % 7 = b % 7
  OBVIOUS

\* Up to 2099 every fourth year is leap.
LEMMA YearsTo2099 ==
  ASSUME NEW y \in Nat, Settable(y)
  PROVE  LET low == y - 1900
             p   == low \div 4
             z   == IF low % 4 = 0 THEN 0 ELSE 1
         IN  /\ (y % 100) + (IF y \div 100 > 19 THEN 100 ELSE 0) = low
             /\ IsLeapYear(y) <=> low % 4 = 0
             /\ DaysBefore(y) - DaysBefore(1970) = 365 * (low - 70) + p - 18 + z
  <1> DEFINE low == y - 1900
             p   == low \div 4
             z   == IF low % 4 = 0 THEN 0 ELSE 1
  <1> USE DEF Settable
  <1>1. (y % 100) + (IF y \div 100 > 19 THEN 100 ELSE 0) = low
    OBVIOUS
  <1>2. IsLeapYear(y) <=> low % 4 = 0
    <2>1. y % 4 = low % 4
      OBVIOUS
    <2>2. y % 100 = 0 => y = 2000
      OBVIOUS
    <2> QED BY <2>1, <2>2 DEF IsLeapYear
  <1>3. DaysBefore(y) - DaysBefore(1970) = 365 * (low - 70) + p - 18 + z
    <2>1. DaysBefore(1970) = 719528
      BY DEF DaysBefore
    <2>2. (y + 3) \div 4 = 475 + p + z
      OBVIOUS
    <2>3. (y + 399) \div 400 - (y + 99) \div 100 = 0 - 15
      <3>1. CASE y <= 2000
        <4>1. (y + 399) \div 400 = 5
          BY <3>1
        <4>2. (y + 99) \div 100 = 20
          BY <3>1
        <4> QED BY <4>1, <4>2
      <3>2. CASE ~(y <= 2000)
        <4>1. (y + 399) \div 400 = 6
          BY <3>2
        <4>2. (y + 99) \div 100 = 21
          BY <3>2
        <4> QED BY <4>1, <4>2
      <3> QED BY <3>1, <3>2
    <2>4. p \in Int /\ z \in Int /\ (y + 3) \div 4 \in Int /\ (y + 399) \div 400 \in Int
          /\ (y + 99) \div 100 \in Int
      OBVIOUS
    <2>5. DaysBefore(y) = 365 * y + (y + 3) \div 4 + ((y + 399) \div 400 - (y + 99) \div 100)
      BY <2>4 DEF DaysBefore
    <2>6. DaysBefore(y) = 365 * y + (475 + p + z) + (0 - 15)
      BY <2>2, <2>3, <2>5
    <2> HIDE DEF p, z
    <2> QED BY <2>1, <2>4, <2>6
  <1> QED BY <1>1, <1>2, <1>3

\* The week table is the days before the month in a year of 365, modulo 7.
LEMMA WeekTable ==
  ASSUME NEW y \in Nat, NEW m \in 1 .. 12
  PROVE  /\ table_week[m] \in Nat
         /\ \E j \in Nat : MonthsBefore(y, m) = table_week[m] + 7 * j
                             + (IF IsLeapYear(y) /\ ~(m < 3) THEN 1 ELSE 0)
  <1>1. /\ table_week[1] = 0 /\ table_week[2] = 3 /\ table_week[3] = 3
        /\ table_week[4] = 6 /\ table_week[5] = 1 /\ table_week[6] = 4
        /\ table_week[7] = 6 /\ table_week[8] = 2 /\ table_week[9] = 5
        /\ table_week[10] = 0 /\ table_week[11] = 3 /\ table_week[12] = 5
    BY DEF table_week
  <1> DEFINE tw == table_week[m]
             l == IF IsLeapYear(y) /\ ~(m < 3) THEN 1 ELSE 0
             d == MonthsBefore(y, m) - tw - l
  <1>2. tw \in Nat
    BY <1>1
  <1>3. d % 7 = 0 /\ d \in Nat
    <2>1. CASE m = 1
      BY <1>1, <2>1 DEF MonthsBefore
    <2>2. CASE m = 2
      BY <1>1, <2>2 DEF MonthsBefore
    <2>3. CASE m = 3
      BY <1>1, <2>3 DEF MonthsBefore
    <2>4. CASE m = 4
      BY <1>1, <2>4 DEF MonthsBefore
    <2>5. CASE m = 5
      BY <1>1, <2>5 DEF MonthsBefore
    <2>6. CASE m = 6
      BY <1>1, <2>6 DEF MonthsBefore
    <2>7. CASE m = 7
      BY <1>1, <2>7 DEF MonthsBefore
    <2>8. CASE m = 8
      BY <1>1, <2>8 DEF MonthsBefore
    <2>9. CASE m = 9
      BY <1>1, <2>9 DEF MonthsBefore
    <2>10. CASE m = 10
      BY <1>1, <2>10 DEF MonthsBefore
    <2>11. CASE m = 11
      BY <1>1, <2>11 DEF MonthsBefore
    <2>12. CASE m = 12
      BY <1>1, <2>12 DEF MonthsBefore
    <2> QED BY <2>1, <2>2, <2>3, <2>4, <2>5, <2>6, <2>7, <2>8, <2>9, <2>10, <2>11, <2>12
  <1>4. MonthsBefore(y, m) \in Nat
    BY MonthTable
  <1>5. d \div 7 \in Nat /\ d = 7 * (d \div 7)
    <2> HIDE DEF d
    <2> QED BY <1>3
  <1>6. MonthsBefore(y, m) = tw + 7 * (d \div 7) + l
    <2>1. l \in Nat
      OBVIOUS
    <2>2. MonthsBefore(y, m) = tw + d + l
      <3> HIDE DEF tw, l
      <3> QED BY <1>2, <1>4, <2>1
    <2> HIDE DEF tw, l, d
    <2> QED BY <1>5, <2>2
  <1> QED BY <1>2, <1>5, <1>6

LEMMA WeekOfDay ==
  ASSUME NEW y \in Nat, Settable(y), NEW m \in 1 .. 12, NEW q \in Nat
  PROVE  RTC_GetWeek(y, m, q + 1) = {(DayNumber(y, m, q) + 4) % 7}
  <1> DEFINE low == y - 1900
             p   == low \div 4
             z   == IF low % 4 = 0 THEN 0 ELSE 1
             tw  == table_week[m]
             l   == IF IsLeapYear(y) /\ ~(m < 3) THEN 1 ELSE 0
             f   == IF low % 4 = 0 /\ m < 3 THEN 1 ELSE 0
             w   == ((low + p) % 7) + (q + 1) + tw
  <1>1. /\ (y % 100) + (IF y \div 100 > 19 THEN 100 ELSE 0) = low
        /\ IsLeapYear(y) <=> low % 4 = 0
        /\ DaysBefore(y) - DaysBefore(1970) = 365 * (low - 70) + p - 18 + z
    BY YearsTo2099
  <1>3. tw \in Nat
    BY WeekTable
  <1>4. PICK j \in Nat : MonthsBefore(y, m) = tw + 7 * j + l
    BY WeekTable
  <1>5. z + l = 1 - f
    BY <1>1
  <1>6. low \in Nat /\ p \in Nat /\ z \in Nat /\ l \in Nat /\ f \in Nat
    BY DEF Settable
  <1>7. RTC_GetWeek(y, m, q + 1) = {(w - f) % 7}
    <2> DEFINE raw == (y % 100) + (IF y \div 100 > 19 THEN 100 ELSE 0)
    <2>1. RTC_GetWeek(y, m, q + 1)
            = {((((raw + raw \div 4) % 7) + (q + 1) + table_week[m])
                 - (IF raw % 4 = 0 /\ m < 3 THEN 1 ELSE 0)) % 7}
      <3>1. ~(m \notin 1 .. 12)
        OBVIOUS
      <3> QED BY <3>1, Zenon DEF RTC_GetWeek
    <2>2. raw = low
      BY <1>1
    <2> HIDE DEF raw, low
    <2> QED BY <2>1, <2>2
  <1> DEFINE x == low + p
             k == x \div 7
             d == DayNumber(y, m, q)
  <1>8. k \in Int /\ x % 7 = x - 7 * k
    <2> HIDE DEF low, p
    <2> QED BY <1>6
  <1>9. d = 365 * (low - 70) + p - 18 + z + (tw + 7 * j + l) + q
    BY <1>1, <1>4 DEF DayNumber
  <1>10. d \in Int /\ w - f \in Int
         /\ d + 4 = (w - f) + 7 * (k + 52 * low - 3652 + j)
    <2>1. w = (x - 7 * k) + (q + 1) + tw
      BY <1>8
    <2>2. x = low + p
      OBVIOUS
    <2> HIDE DEF low, p, z, tw, l, f, w, x, k, d
    <2> QED BY <1>3, <1>4, <1>5, <1>6, <1>8, <1>9, <2>1, <2>2
  <1>11. k + 52 * low - 3652 + j \in Int
    <2> HIDE DEF low, k
    <2> QED BY <1>4, <1>6, <1>8
  <1>12. (d + 4) % 7 = (w - f) % 7
    <2> HIDE DEF d, w, f, low, k
    <2>1. d + 4 \in Int
      BY <1>10
    <2> QED BY <1>10, <1>11, <2>1, SevenDays
  <1> QED BY <1>7, <1>12
-----------------------------------------------------------------------------
(***************************************************************************)
(* The walk through the calendar.                                          *)
(***************************************************************************)
LEMMA SameCalendar ==
  ASSUME NEW y \in Nat, NEW m \in 1 .. 12
  PROVE  (Leap(y) <=> IsLeapYear(y)) /\ Length(y, m) = MonthDays(y, m)
  <1>1. Leap(y) <=> IsLeapYear(y)
    BY Centuries DEF Leap, IsLeapYear
  <1>2. /\ mon_table[1] = 31 /\ mon_table[2] = 28 /\ mon_table[3] = 31
        /\ mon_table[4] = 30 /\ mon_table[5] = 31 /\ mon_table[6] = 30
        /\ mon_table[7] = 31 /\ mon_table[8] = 31 /\ mon_table[9] = 30
        /\ mon_table[10] = 31 /\ mon_table[11] = 30 /\ mon_table[12] = 31
    BY DEF mon_table
  <1>3. CASE m = 1
    BY <1>1, <1>2, <1>3 DEF Length, MonthDays
  <1>4. CASE m = 2
    BY <1>1, <1>2, <1>4 DEF Length, MonthDays
  <1>5. CASE m = 3
    BY <1>1, <1>2, <1>5 DEF Length, MonthDays
  <1>6. CASE m = 4
    BY <1>1, <1>2, <1>6 DEF Length, MonthDays
  <1>7. CASE m = 5
    BY <1>1, <1>2, <1>7 DEF Length, MonthDays
  <1>8. CASE m = 6
    BY <1>1, <1>2, <1>8 DEF Length, MonthDays
  <1>9. CASE m = 7
    BY <1>1, <1>2, <1>9 DEF Length, MonthDays
  <1>10. CASE m = 8
    BY <1>1, <1>2, <1>10 DEF Length, MonthDays
  <1>11. CASE m = 9
    BY <1>1, <1>2, <1>11 DEF Length, MonthDays
  <1>12. CASE m = 10
    BY <1>1, <1>2, <1>12 DEF Length, MonthDays
  <1>13. CASE m = 11
    BY <1>1, <1>2, <1>13 DEF Length, MonthDays
  <1>14. CASE m = 12
    BY <1>1, <1>2, <1>14 DEF Length, MonthDays
  <1> QED BY <1>1, <1>3, <1>4, <1>5, <1>6, <1>7, <1>8, <1>9, <1>10, <1>11, <1>12, <1>13, <1>14

IsDate(d, y, m, q) ==
  /\ y \in Nat /\ SinceEpoch(y) /\ m \in 1 .. 12 /\ q \in Nat /\ q < MonthDays(y, m)
  /\ d = Date(y, m, q + 1)

Walked(d, n) == \E y, m, q : IsDate(d, y, m, q) /\ n = DayNumber(y, m, q)

\* RTC_Set counts the days up to a date, the bogus month 13 included.
LEMMA DayOfDate ==
  ASSUME NEW y \in Nat, SinceEpoch(y), NEW m \in 1 .. 13, NEW q \in Nat
  PROVE  DayOf(Date(y, m, q + 1)) = DayNumber(y, m, q)
  <1>1. DaysToYear[y] = DaysBefore(y) - DaysBefore(1970)
    BY DaysToYearCounts DEF SinceEpoch
  <1>2. DaysToMonth(y, m) = MonthsBefore(y, m) /\ MonthsBefore(y, m) \in Nat
    BY DaysToMonthCounts, LaterMonth, m <= m
  <1>3. DaysBefore(y) \in Nat /\ DaysBefore(1970) \in Nat
    BY NextYear, 1970 \in Nat
  <1>4. DayOf(Date(y, m, q + 1))
          = (DaysBefore(y) - DaysBefore(1970)) + MonthsBefore(y, m) + (q + 1) - 1
    BY <1>1, <1>2 DEF DayOf, Date
  <1> QED BY <1>2, <1>3, <1>4 DEF DayNumber

LEMMA WalkStarts == Walked(Date(1970, 1, 1), 0)
  <1>1. DayNumber(1970, 1, 0) = 0
    BY NextYear, 1970 \in Nat DEF DayNumber, MonthsBefore
  <1>2. MonthDays(1970, 1) \in 28 .. 31
    BY MonthEnd, 1970 \in Nat, 1 \in 1 .. 12
  <1>3. IsDate(Date(1970, 1, 1), 1970, 1, 0)
    BY <1>2 DEF IsDate, SinceEpoch
  <1> QED BY <1>1, <1>3 DEF Walked

LEMMA WalkGoesOn ==
  ASSUME NEW d, NEW n, Walked(d, n)
  PROVE  n \in Nat /\ Walked(Tomorrow(d), n + 1)
  <1>1. PICK y, m, q : IsDate(d, y, m, q) /\ n = DayNumber(y, m, q)
    BY DEF Walked
  <1>2. y \in Nat /\ m \in 1 .. 12 /\ q \in Nat /\ q < MonthDays(y, m) /\ SinceEpoch(y)
    BY <1>1 DEF IsDate
  <1>3. d = Date(y, m, q + 1) /\ d.year = y /\ d.month = m /\ d.date = q + 1
    BY <1>1 DEF IsDate, Date
  <1> DEFINE w == MonthDays(y, m)
  <1>4. Length(y, m) = w
    BY <1>2, SameCalendar
  <1>5. /\ MonthsBefore(y, m) \in Nat /\ w \in 28 .. 31
        /\ MonthsBefore(y, m + 1) = MonthsBefore(y, m) + w
    BY <1>2, MonthEnd
  <1>6. /\ DaysBefore(1970) \in Nat /\ DaysBefore(y) \in Nat
        /\ DaysBefore(y + 1) = DaysBefore(y) + YearDays(y) /\ YearDays(y) \in {365, 366}
    BY <1>2, NextYear, 1970 \in Nat
  <1>7. n \in Nat
    BY <1>1, <1>2, DateOfDay
  <1>8. CASE q + 1 < w
    <2>1. Tomorrow(d) = Date(y, m, (q + 1) + 1)
      BY <1>3, <1>4, <1>8 DEF Tomorrow, Date
    <2>2. DayNumber(y, m, q + 1) = n + 1
      BY <1>1, <1>2, <1>5, <1>6 DEF DayNumber
    <2>3. IsDate(Tomorrow(d), y, m, q + 1)
      BY <1>2, <1>8, <2>1 DEF IsDate
    <2> QED BY <1>7, <2>2, <2>3 DEF Walked
  <1>9. CASE ~(q + 1 < w) /\ m < 12
    <2>1. Tomorrow(d) = Date(y, m + 1, 0 + 1)
      BY <1>3, <1>4, <1>9 DEF Tomorrow
    <2>2. DayNumber(y, m + 1, 0) = n + 1
      BY <1>1, <1>2, <1>5, <1>6, <1>9 DEF DayNumber
    <2>3. m + 1 \in 1 .. 12
      BY <1>2, <1>9
    <2>4. MonthDays(y, m + 1) \in 28 .. 31
      BY <1>2, <2>3, MonthEnd
    <2>5. IsDate(Tomorrow(d), y, m + 1, 0)
      BY <1>2, <2>1, <2>3, <2>4 DEF IsDate
    <2> QED BY <1>7, <2>2, <2>5 DEF Walked
  <1>10. CASE ~(q + 1 < w) /\ m = 12
    <2>1. Tomorrow(d) = Date(y + 1, 1, 0 + 1)
      BY <1>3, <1>4, <1>10 DEF Tomorrow
    <2>2. MonthsBefore(y, 13) = YearDays(y) /\ MonthsBefore(y + 1, 1) = 0
      BY DEF MonthsBefore, YearDays
    <2>3. DayNumber(y + 1, 1, 0) = n + 1
      <3>1. MonthsBefore(y, m + 1) = YearDays(y)
        BY <1>10, <2>2
      <3> QED BY <1>1, <1>2, <1>5, <1>6, <1>10, <2>2, <3>1 DEF DayNumber
    <2>4. y + 1 \in Nat /\ 1 \in 1 .. 12 /\ SinceEpoch(y + 1)
      BY <1>2 DEF SinceEpoch
    <2>5. MonthDays(y + 1, 1) \in 28 .. 31
      BY <2>4, MonthEnd
    <2>6. IsDate(Tomorrow(d), y + 1, 1, 0)
      BY <2>1, <2>4, <2>5 DEF IsDate
    <2> QED BY <1>7, <2>3, <2>6 DEF Walked
  <1>11. m < 12 \/ m = 12
    BY <1>2
  <1> QED BY <1>8, <1>9, <1>10, <1>11

WalkInv == Walked(today, day)

LEMMA WalkNext ==
  ASSUME WalkInv, [MCNext]_mcVars
  PROVE  WalkInv' /\ day \in Nat /\ (UNCHANGED day \/ (day < LastDay /\ day' = day + 1))
  <1>1. day \in Nat /\ Walked(Tomorrow(today), day + 1)
    BY WalkGoesOn DEF WalkInv
  <1>2. CASE Off
    BY <1>1, <1>2 DEF Off, DaysNext, WalkInv
  <1>3. CASE SwitchOn \/ On \/ UNCHANGED mcVars
    BY <1>1, <1>3 DEF SwitchOn, On, mcVars, WalkInv
  <1> QED BY <1>2, <1>3 DEF MCNext

LEMMA WalkDay == WalkInv => day \in Nat
  BY WalkGoesOn DEF WalkInv

LEMMA WalkInit == MCInit => WalkInv
  BY WalkStarts DEF MCInit, DaysInit, WalkInv

\* Of all the days since 1970 RTC_Get dates only the last ones of leap years
\* wrongly.
THEOREM ClockWrongOnlyOnLastOfLeapYear == MCSpec => []WrongOnlyOnLastOfLeapYear
  <1>1. WalkInv => WrongOnlyOnLastOfLeapYear
    <2> SUFFICES ASSUME WalkInv PROVE WrongOnlyOnLastOfLeapYear
      OBVIOUS
    <2>1. PICK y, m, q : IsDate(today, y, m, q) /\ day = DayNumber(y, m, q)
      BY DEF WalkInv, Walked
    <2>2. y \in Nat /\ m \in 1 .. 12 /\ q \in Nat /\ q < MonthDays(y, m) /\ SinceEpoch(y)
      BY <2>1 DEF IsDate
    <2>3. today = Date(y, m, q + 1) /\ today.year = y /\ today.month = m /\ today.date = q + 1
      BY <2>1 DEF IsDate, Date
    <2>4. DateOf(day) = IF IsLeapYear(y) /\ m = 12 /\ q = 30 THEN Date(y + 1, 13, 1)
                        ELSE Date(y, m, q + 1)
      BY <2>1, <2>2, DateOfDay
    <2>5. LastOfLeapYear <=> IsLeapYear(y) /\ m = 12 /\ q = 30
      BY <2>2, <2>3, SameCalendar DEF LastOfLeapYear
    <2> QED BY <2>3, <2>4, <2>5 DEF WrongOnlyOnLastOfLeapYear
  <1>2. WalkInv /\ [MCNext]_mcVars => WalkInv'
    BY WalkNext
  <1> QED BY <1>1, <1>2, WalkInit, PTL DEF MCSpec

\* RTC_Set counts the days of every date it takes.
THEOREM ClockSetIsRight == MCSpec => []SetIsRight
  <1>1. WalkInv => SetIsRight
    <2> SUFFICES ASSUME WalkInv PROVE SetIsRight
      OBVIOUS
    <2>1. PICK y, m, q : IsDate(today, y, m, q) /\ day = DayNumber(y, m, q)
      BY DEF WalkInv, Walked
    <2>2. y \in Nat /\ m \in 1 .. 12 /\ q \in Nat /\ q < MonthDays(y, m) /\ SinceEpoch(y)
      BY <2>1 DEF IsDate
    <2>3. today = Date(y, m, q + 1)
      BY <2>1 DEF IsDate
    <2>4. DayOf(today) = DayNumber(y, m, q)
      BY <2>2, <2>3, DayOfDate
    <2> QED BY <2>1, <2>4 DEF SetIsRight
  <1>2. WalkInv /\ [MCNext]_mcVars => WalkInv'
    BY WalkNext
  <1> QED BY <1>1, <1>2, WalkInit, PTL DEF MCSpec

LastOf2099 == 47481

LEMMA WeekOnDay ==
  ASSUME NEW d, NEW n, Walked(d, n)
  PROVE  n <= LastOf2099 => RTC_GetWeek(d.year, d.month, d.date) = {(n + 4) % 7}
  <1>1. PICK y, m, q : IsDate(d, y, m, q) /\ n = DayNumber(y, m, q)
    BY DEF Walked
  <1>2. y \in Nat /\ m \in 1 .. 12 /\ q \in Nat /\ q < MonthDays(y, m) /\ SinceEpoch(y)
    BY <1>1 DEF IsDate
  <1>3. d.year = y /\ d.month = m /\ d.date = q + 1
    BY <1>1 DEF IsDate, Date
  <1>4. MonthsBefore(y, m) \in Nat /\ DaysBefore(y) \in Nat
    BY <1>2, MonthEnd, NextYear
  <1>5. 2100 <= y => DaysBefore(2100) <= DaysBefore(y)
    BY <1>2, LaterYear, 2100 \in Nat
  <1>6. DaysBefore(2100) = 767010 /\ DaysBefore(1970) = 719528
    BY DEF DaysBefore
  <1>7. n = DaysBefore(y) - 719528 + MonthsBefore(y, m) + q
    BY <1>1, <1>6 DEF DayNumber
  <1>8. n <= LastOf2099 => Settable(y)
    <2>1. n <= LastOf2099 => ~(2100 <= y)
      BY <1>2, <1>4, <1>5, <1>6, <1>7 DEF LastOf2099
    <2> QED BY <1>2, <2>1 DEF Settable, SinceEpoch
  <1>9. Settable(y) => RTC_GetWeek(y, m, q + 1) = {(n + 4) % 7}
    BY <1>1, <1>2, WeekOfDay
  <1> QED BY <1>3, <1>8, <1>9

WalkedTo == WalkInv /\ day <= LastDay

LEMMA WalkedToNext ==
  ASSUME LastDay \in Nat, WalkedTo, [MCNext]_mcVars
  PROVE  WalkedTo'
  <1>1. WalkInv' /\ day \in Nat /\ (UNCHANGED day \/ (day < LastDay /\ day' = day + 1))
    BY WalkNext DEF WalkedTo
  <1>2. day' <= LastDay
    BY <1>1 DEF WalkedTo
  <1> QED BY <1>1, <1>2 DEF WalkedTo

\* RTC_GetWeek computes the day of the week up to the end of 2099, the last
\* day that the 32 bits of the counter and RTC_Set reach.
THEOREM ClockWeekIsRight ==
  ASSUME LastDay \in Nat, LastDay <= LastOf2099
  PROVE  MCSpec => []WeekIsRight
  <1>1. WalkedTo => WeekIsRight
    <2> SUFFICES ASSUME WalkedTo PROVE WeekIsRight
      OBVIOUS
    <2>1. day \in Nat /\ day <= LastDay
      BY WalkDay DEF WalkedTo
    <2>2. LastOf2099 \in Nat
      BY DEF LastOf2099
    <2>3. day <= LastOf2099
      BY <2>1, <2>2
    <2>4. day <= LastOf2099 => WeekIsRight
      BY WeekOnDay DEF WeekIsRight, WalkInv, WalkedTo
    <2> QED BY <2>3, <2>4
  <1>2. WalkedTo /\ [MCNext]_mcVars => WalkedTo'
    BY WalkedToNext
  <1>3. MCInit => WalkedTo
    BY WalkInit DEF MCInit, DaysInit, WalkedTo
  <1> QED BY <1>1, <1>2, <1>3, PTL DEF MCSpec
-----------------------------------------------------------------------------
(***************************************************************************)
(* The setting of one field.                                               *)
(***************************************************************************)
LEMMA EveryDay == \A n \in Nat : \E d : Walked(d, n)
  <1> DEFINE S == {n \in Nat : \E d : Walked(d, n)}
  <1>1. 0 \in S
    BY WalkStarts, 0 \in Nat
  <1>2. ASSUME NEW n \in Nat, n \in S PROVE n + 1 \in S
    <2>1. PICK d : Walked(d, n)
      BY <1>2
    <2>2. Walked(Tomorrow(d), n + 1) /\ n + 1 \in Nat
      BY <2>1, WalkGoesOn
    <2> QED BY <2>2
  <1> HIDE DEF S
  <1>3. \A n \in Nat : n \in S
    BY <1>1, <1>2, SetInduction
  <1> QED BY <1>3 DEF S

\* RTC_Set takes a date that RTC_Get has computed back to its day, unless it
\* is in month 13.
LEMMA ThereAndBack ==
  ASSUME NEW n \in Nat
  PROVE  /\ DayOf(DateOf(n)) \in Nat
         /\ DateOf(n).month \in 1 .. 12 => DayOf(DateOf(n)) = n
  <1>1. PICK d : Walked(d, n)
    BY EveryDay
  <1>2. PICK y, m, q : IsDate(d, y, m, q) /\ n = DayNumber(y, m, q)
    BY <1>1 DEF Walked
  <1>3. y \in Nat /\ m \in 1 .. 12 /\ q \in Nat /\ q < MonthDays(y, m) /\ SinceEpoch(y)
    BY <1>2 DEF IsDate
  <1>4. DateOf(n) = IF IsLeapYear(y) /\ m = 12 /\ q = 30 THEN Date(y + 1, 13, 1)
                    ELSE Date(y, m, q + 1)
    BY <1>2, <1>3, DateOfDay
  <1>5. CASE IsLeapYear(y) /\ m = 12 /\ q = 30
    <2>1. DateOf(n) = Date(y + 1, 13, 0 + 1)
      BY <1>4, <1>5
    <2>2. y + 1 \in Nat /\ SinceEpoch(y + 1) /\ 13 \in 1 .. 13
      BY <1>3 DEF SinceEpoch
    <2>3. DayOf(DateOf(n)) = DayNumber(y + 1, 13, 0)
      BY <2>1, <2>2, DayOfDate
    <2>4. DayNumber(y + 1, 13, 0) \in Nat
      <3>1. MonthsBefore(y + 1, 13) = YearDays(y + 1)
        BY DEF MonthsBefore, YearDays
      <3>2. /\ DaysBefore(1970) \in Nat /\ DaysBefore(y + 1) \in Nat
            /\ DaysBefore(1970) <= DaysBefore(y + 1) /\ YearDays(y + 1) \in {365, 366}
        BY <2>2, NextYear, LaterYear, 1970 \in Nat DEF SinceEpoch
      <3> QED BY <3>1, <3>2 DEF DayNumber
    <2>5. DateOf(n).month = 13
      BY <2>1 DEF Date
    <2>6. DateOf(n).month \notin 1 .. 12
      BY <2>5
    <2> QED BY <2>3, <2>4, <2>6
  <1>6. CASE ~(IsLeapYear(y) /\ m = 12 /\ q = 30)
    <2>1. DateOf(n) = Date(y, m, q + 1) /\ m \in 1 .. 13
      BY <1>3, <1>4, <1>6
    <2>2. DayOf(DateOf(n)) = n
      BY <1>2, <1>3, <2>1, DayOfDate
    <2> QED BY <2>2
  <1> QED BY <1>5, <1>6

Seconds == {s \in Nat : s < 86400}
Clock == [day : Nat, second : Seconds]
Times == [h : Nat, m : Nat, s : Nat]
Read3(t) == <<t.h, t.m, t.s>>

ClockOK == counter \in Clock /\ rtc_count \in Clock /\ daycnt \in Nat

UserOK ==
  /\ unit \in {"hour", "min", "sec"} /\ value \in 0 .. 59
  /\ unit = "hour" => value < 24

CalendarOK ==
  /\ DOMAIN calendar = {"date", "hour", "min", "sec"}
  /\ calendar.hour \in Nat /\ calendar.min \in Nat /\ calendar.sec \in Nat
  /\ pc \in {"idle", "read", "compare", "year", "date", "time", "args"}

\* What RTC_Get stores is a date, if not always the one of the day.
DatedOK ==
  /\ ~Storing => calendar.date = NoDate \/ Dated(calendar.date)
  /\ pc = "date" => calendar.date.year \in Nat /\ SinceEpoch(calendar.date.year)

ArgOK ==
  /\ DOMAIN arg = {"date", "time"}
  /\ pc /= "args" => arg = NoArg
  /\ arg.date /= NoDate => Dated(arg.date)
  /\ arg.time /= <<>> => \E t \in Times : arg.time = Read3(t)

\* The thread stores the date of the day that is remembered unless an interrupt
\* has found another; it counts the months in the year of this day.
StoringOK ==
  /\ Storing /\ ~torn => daycnt = rtc_count.day
  /\ pc = "date" /\ daycnt = rtc_count.day
       => calendar.date.year = YearOf(rtc_count.day).year

\* The calendar shows the day that is remembered; before the first new day, the
\* date of power on.
DateOK ==
  ~Storing /\ ~torn
    => calendar.date = DateOf(daycnt) \/ (daycnt = 0 /\ calendar.date = NoDate)

\* While no interrupt has come since the thread has read the counter, it works
\* on what it has read.
TakenOK ==
  ~disturbed =>
    /\ pc \in {"year", "date", "time", "args"} => daycnt = rtc_count.day
    /\ pc = "args" =>
         /\ calendar.hour = Hour(rtc_count) /\ calendar.min = Minute(rtc_count)
         /\ calendar.sec = Sec(rtc_count)
         /\ arg.date /= NoDate => arg.date = calendar.date
         /\ arg.time /= <<>> => arg.time = <<calendar.hour, calendar.min, calendar.sec>>

DateInv == ClockOK /\ UserOK /\ CalendarOK /\ DatedOK /\ ArgOK /\ StoringOK /\ DateOK /\ TakenOK


LEMMA HoursOf ==
  ASSUME NEW s \in Nat
  PROVE  /\ s = 3600 * (s \div 3600) + (s % 3600)
         /\ s % 3600 \in 0 .. 3599 /\ s \div 3600 \in Nat
         /\ s < 86400 => s \div 3600 \in 0 .. 23
  OBVIOUS

LEMMA MinutesOf ==
  ASSUME NEW s \in 0 .. 3599
  PROVE  /\ s = 60 * (s \div 60) + (s % 60)
         /\ s % 60 \in 0 .. 59 /\ s \div 60 \in 0 .. 59
  OBVIOUS

LEMMA TimeOfDay ==
  ASSUME NEW c \in Clock
  PROVE  /\ Hour(c) \in 0 .. 23 /\ Minute(c) \in 0 .. 59 /\ Sec(c) \in 0 .. 59
         /\ c.day \in Nat /\ c.second \in Nat /\ c.second < 86400
         /\ c.second = 3600 * Hour(c) + 60 * Minute(c) + Sec(c)
         /\ c.second % 3600 = 60 * Minute(c) + Sec(c)
  <1> DEFINE s == c.second
             r == s % 3600
  <1>1. c.day \in Nat /\ s \in Seconds
    BY DEF Clock
  <1>2. s \in Nat /\ s < 86400
    <2> HIDE DEF s
    <2> QED BY <1>1 DEF Seconds
  <1>3. s = 3600 * (s \div 3600) + r /\ r \in 0 .. 3599 /\ s \div 3600 \in 0 .. 23
    <2> HIDE DEF s
    <2> QED BY <1>2, HoursOf
  <1>4. r = 60 * (r \div 60) + (r % 60) /\ r % 60 \in 0 .. 59 /\ r \div 60 \in 0 .. 59
    <2>1. r \in 0 .. 3599
      <3> HIDE DEF r, s
      <3> QED BY <1>3
    <2> HIDE DEF r
    <2> QED BY <2>1, MinutesOf
  <1>5. s = 3600 * Hour(c) + 60 * Minute(c) + Sec(c)
    <2>1. s = 3600 * (s \div 3600) + 60 * (r \div 60) + (r % 60)
      <3>1. \A a, b, d, e \in Int : s = a + r /\ r = b + d => s = a + b + d
        BY <1>2, <1>3
      <3>2. 3600 * (s \div 3600) \in Int /\ 60 * (r \div 60) \in Int /\ r % 60 \in Int
        <4> HIDE DEF s, r
        <4> QED BY <1>3, <1>4
      <3> HIDE DEF s, r
      <3> QED BY <1>3, <1>4, <3>1, <3>2
    <2> QED BY <2>1 DEF Hour, Minute, Sec
  <1>6. /\ Hour(c) = s \div 3600 /\ Minute(c) = r \div 60 /\ Sec(c) = r % 60
    BY DEF Hour, Minute, Sec
  <1> HIDE DEF r, s
  <1>7. /\ Hour(c) \in 0 .. 23 /\ Minute(c) \in 0 .. 59 /\ Sec(c) \in 0 .. 59
        /\ r = 60 * Minute(c) + Sec(c)
    BY <1>3, <1>4, <1>6
  <1> QED BY <1>1, <1>2, <1>5, <1>7 DEF r, s

LEMMA TimeInSeconds ==
  ASSUME NEW h \in Nat, NEW m \in Nat, NEW s \in Nat, h < 24, m < 60, s < 60
  PROVE  SecondOf(h, m, s) \in Seconds
  <1>1. SecondOf(h, m, s) \in Nat /\ SecondOf(h, m, s) < 86400
    BY DEF SecondOf
  <1> QED BY <1>1 DEF Seconds

NewTime(h, m, s) ==
  LET t == [<<h, m, s>> EXCEPT ![Field] = value]  IN  SecondOf(t[1], t[2], t[3])

LEMMA NewTimeIs ==
  ASSUME UserOK, NEW h, NEW m, NEW s
  PROVE  /\ value \in Nat /\ value < 60
         /\ \/ unit = "hour" /\ value < 24 /\ NewTime(h, m, s) = SecondOf(value, m, s)
            \/ unit = "min" /\ NewTime(h, m, s) = SecondOf(h, value, s)
            \/ unit = "sec" /\ NewTime(h, m, s) = SecondOf(h, m, value)
  <1>1. value \in Nat /\ value < 60
    BY DEF UserOK
  <1>2. unit \in {"hour", "min", "sec"} /\ (unit = "hour" => value < 24)
    BY DEF UserOK
  <1>3. ASSUME unit = "hour" PROVE NewTime(h, m, s) = SecondOf(value, m, s)
    BY <1>3 DEF NewTime, Field
  <1>4. ASSUME unit = "min" PROVE NewTime(h, m, s) = SecondOf(h, value, s)
    BY <1>4 DEF NewTime, Field
  <1>5. ASSUME unit = "sec" PROVE NewTime(h, m, s) = SecondOf(h, m, value)
    BY <1>5 DEF NewTime, Field
  <1> QED BY <1>1, <1>2, <1>3, <1>4, <1>5

LEMMA FieldSeconds ==
  ASSUME NEW c \in Clock, UserOK
  PROVE  LET s == NewTime(Hour(c), Minute(c), Sec(c))
         IN  s \in Seconds /\ WithField(c) = [day |-> c.day, second |-> s]
  <1>1. PICK h, m, s : h = Hour(c) /\ m = Minute(c) /\ s = Sec(c)
    OBVIOUS
  <1> SUFFICES /\ NewTime(h, m, s) \in Seconds
               /\ WithField(c) = [day |-> c.day, second |-> NewTime(h, m, s)]
    BY <1>1
  <1>2. PICK a, r : a = c.second /\ r = c.second % 3600
    OBVIOUS
  <1>3. /\ h \in Nat /\ m \in Nat /\ s \in Nat /\ h < 24 /\ m < 60 /\ s < 60
        /\ a \in Nat /\ a = 3600 * h + 60 * m + s /\ r = 60 * m + s
    BY <1>1, <1>2, TimeOfDay
  <1>4. r \in Nat
    BY <1>3
  <1>5. \A x : [c EXCEPT !.second = x] = [day |-> c.day, second |-> x]
    BY DEF Clock
  <1>6. value \in Nat /\ value < 60
    BY NewTimeIs
  <1>7. /\ SecondOf(value, m, s) = 3600 * value + r
        /\ SecondOf(h, value, s) = a - 60 * m + 60 * value
        /\ SecondOf(h, m, value) = a - s + value
    BY <1>3, <1>4, <1>6 DEF SecondOf
  <1>8. CASE unit = "hour" /\ value < 24 /\ NewTime(h, m, s) = SecondOf(value, m, s)
    <2>1. NewTime(h, m, s) \in Seconds
      BY <1>3, <1>6, <1>8, TimeInSeconds
    <2>2. WithField(c) = [c EXCEPT !.second = 3600 * value + r]
      BY <1>2, <1>8 DEF WithField
    <2>3. WithField(c) = [day |-> c.day, second |-> 3600 * value + r]
      BY <1>5, <2>2
    <2>4. NewTime(h, m, s) = 3600 * value + r
      BY <1>7, <1>8
    <2> QED BY <2>1, <2>3, <2>4
  <1>9. CASE unit = "min" /\ NewTime(h, m, s) = SecondOf(h, value, s)
    <2>1. NewTime(h, m, s) \in Seconds
      BY <1>3, <1>6, <1>9, TimeInSeconds
    <2>2. WithField(c) = [c EXCEPT !.second = a - 60 * m + 60 * value]
      BY <1>1, <1>2, <1>9 DEF WithField
    <2>3. WithField(c) = [day |-> c.day, second |-> a - 60 * m + 60 * value]
      BY <1>5, <2>2
    <2>4. NewTime(h, m, s) = a - 60 * m + 60 * value
      BY <1>7, <1>9
    <2> QED BY <2>1, <2>3, <2>4
  <1>10. CASE unit = "sec" /\ NewTime(h, m, s) = SecondOf(h, m, value)
    <2>1. NewTime(h, m, s) \in Seconds
      BY <1>3, <1>6, <1>10, TimeInSeconds
    <2>2. WithField(c) = [c EXCEPT !.second = a - s + value]
      BY <1>1, <1>2, <1>10 DEF WithField
    <2>3. WithField(c) = [day |-> c.day, second |-> a - s + value]
      BY <1>5, <2>2
    <2>4. NewTime(h, m, s) = a - s + value
      BY <1>7, <1>10
    <2> QED BY <2>1, <2>3, <2>4
  <1> QED BY <1>8, <1>9, <1>10, NewTimeIs

LEMMA CounterIsClock ==
  ASSUME NEW d, DayOf(d) \in Nat, NEW s \in Nat
  PROVE  /\ Counter(d, s) \in Clock
         /\ s \in Seconds => Counter(d, s) = [day |-> DayOf(d), second |-> s]
  <1>1. /\ s \div 86400 \in Nat /\ s % 86400 \in Nat /\ s % 86400 < 86400
        /\ s < 86400 => s \div 86400 = 0 /\ s % 86400 = s
    OBVIOUS
  <1>2. Counter(d, s) = [day |-> DayOf(d) + s \div 86400, second |-> s % 86400]
    BY DEF Counter, DaySeconds
  <1>3. DayOf(d) + s \div 86400 \in Nat /\ s % 86400 \in Seconds
    BY <1>1 DEF Seconds
  <1>4. s \in Seconds => Counter(d, s) = [day |-> DayOf(d), second |-> s]
    <2>1. s \in Seconds => DayOf(d) + s \div 86400 = DayOf(d) /\ s % 86400 = s
      BY <1>1 DEF Seconds
    <2> QED BY <1>2, <2>1
  <1> QED BY <1>2, <1>3, <1>4 DEF Clock

LEMMA Below ==
  ASSUME NEW n \in Int, NEW s \in 0 .. n - 1
  PROVE  s \in Nat /\ s < n
  OBVIOUS

LEMMA DaySecondsInt == DaySeconds \in Int
  BY DEF DaySeconds

LEMMA InADay ==
  ASSUME NEW s \in Nat, s < DaySeconds
  PROVE  s \in Seconds
  BY DEF Seconds, DaySeconds

LEMMA SecondsOfDay ==
  ASSUME NEW s \in 0 .. DaySeconds - 1
  PROVE  s \in Seconds
  <1>1. s \in Nat /\ s < DaySeconds
    BY DaySecondsInt, Below
  <1> QED BY <1>1, InADay

LEMMA RealTimes ==
  ASSUME NEW c \in Starts \union NtpTimes
  PROVE  c \in Clock
  <1>1. c \in [day : Nat, second : 0 .. DaySeconds - 1]
    BY RtcClockAssumption DEF RtcClockAssumption
  <1>2. \A s \in 0 .. DaySeconds - 1 : s \in Seconds
    BY SecondsOfDay
  <1> QED BY <1>1, <1>2 DEF Clock

\* The counter that RTC_Set writes is one.
LEMMA SetClock ==
  ASSUME ClockOK, UserOK, ArgOK, RTC_Set
  PROVE  counter' \in Clock
  <1>1. CASE ~Settable(arg.date.year)
    BY <1>1 DEF RTC_Set, ClockOK
  <1>2. CASE Settable(arg.date.year)
    <2>1. PICK y \in Nat, m \in 1 .. 13, q \in Nat :
            SinceEpoch(y) /\ arg.date = Date(y, m, q + 1)
      BY DEF RTC_Set, ArgOK, Dated
    <2>2. PICK t \in Times : arg.time = Read3(t)
      BY DEF RTC_Set, ArgOK
    <2>3. t.h \in Nat /\ t.m \in Nat /\ t.s \in Nat
      BY DEF Times
    <2>4. NewTime(t.h, t.m, t.s) \in Nat
      BY <2>3, NewTimeIs DEF SecondOf
    <2>5. counter' = Counter(arg.date, NewTime(t.h, t.m, t.s))
      BY <1>2, <2>2 DEF RTC_Set, NewTime, Read3
    <2>6. DayOf(arg.date) \in Nat
      <3>1. DayOf(arg.date) = DayNumber(y, m, q)
        BY <2>1, DayOfDate
      <3>2. MonthsBefore(y, m) \in Nat
        BY LaterMonth, m <= m
      <3>3. DaysBefore(1970) \in Nat /\ DaysBefore(y) \in Nat
            /\ DaysBefore(1970) <= DaysBefore(y)
        BY <2>1, NextYear, LaterYear, 1970 \in Nat DEF SinceEpoch
      <3> QED BY <3>1, <3>2, <3>3 DEF DayNumber
    <2> QED BY <2>4, <2>5, <2>6, CounterIsClock
  <1> QED BY <1>1, <1>2

LEMMA ClockNext ==
  ASSUME ClockOK, UserOK, ArgOK, [Next]_vars
  PROVE  ClockOK'
  <1> USE DEF shared, local
  <1>1. /\ counter \in Clock /\ counter.day \in Nat /\ counter.second \in Nat
        /\ counter.second < 86400 /\ rtc_count \in Clock /\ rtc_count.day \in Nat
    BY TimeOfDay DEF ClockOK
  <1>2. CASE Tick
    <2>1. CASE counter.second + 1 < DaySeconds
      <3>1. counter' = [counter EXCEPT !.second = counter.second + 1]
        BY <1>2, <2>1 DEF Tick
      <3>2. counter.second + 1 \in Seconds
        BY <1>1, <2>1 DEF Seconds, DaySeconds
      <3> QED BY <1>1, <1>2, <3>1, <3>2 DEF Tick, ClockOK, Clock
    <2>2. CASE ~(counter.second + 1 < DaySeconds)
      <3>1. counter' = [day |-> counter.day + 1, second |-> 0]
        BY <1>2, <2>2 DEF Tick
      <3>2. counter.day + 1 \in Nat /\ 0 \in Seconds
        BY <1>1 DEF Seconds
      <3> QED BY <1>2, <3>1, <3>2 DEF Tick, ClockOK, Clock
    <2> QED BY <2>1, <2>2
  <1>3. CASE RTC_IRQHandler
    BY <1>1, <1>3 DEF RTC_IRQHandler, ClockOK
  <1>4. CASE NtpSet
    BY <1>4, RealTimes DEF NtpSet, ClockOK
  <1>5. CASE SetTime \/ StoreYear \/ StoreDate \/ StoreTime \/ ReadDate \/ ReadTime
             \/ UNCHANGED vars
    BY <1>5 DEF SetTime, StoreYear, StoreDate, StoreTime, ReadDate, ReadTime, vars, ClockOK
  <1>6. CASE Read \/ Compare
    BY <1>1, <1>6 DEF Read, Compare, ClockOK
  <1>7. CASE RTC_Set
    BY <1>7, SetClock DEF RTC_Set, ClockOK
  <1> QED BY <1>2, <1>3, <1>4, <1>5, <1>6, <1>7 DEF Next, Thread

LEMMA UserNext ==
  ASSUME UserOK, [Next]_vars
  PROVE  UserOK'
  <1> USE DEF shared, local
  <1>1. CASE SetTime
    <2>1. unit' \in {"hour", "min", "sec"} /\ value' \in Values
          /\ (unit' = "hour" => value' < 24)
      BY <1>1 DEF SetTime
    <2>2. value' \in 0 .. 59
      BY <2>1, RtcClockAssumption DEF RtcClockAssumption
    <2> QED BY <2>1, <2>2 DEF UserOK
  <1>2. CASE Tick \/ RTC_IRQHandler \/ NtpSet \/ UNCHANGED vars
    BY <1>2 DEF Tick, RTC_IRQHandler, NtpSet, vars, UserOK
  <1>3. CASE Read \/ Compare \/ StoreYear \/ StoreDate \/ StoreTime \/ ReadDate
             \/ ReadTime \/ RTC_Set
    BY <1>3 DEF Read, Compare, StoreYear, StoreDate, StoreTime, ReadDate, ReadTime,
                RTC_Set, UserOK
  <1> QED BY <1>1, <1>2, <1>3 DEF Next, Thread

LEMMA CalendarNext ==
  ASSUME CalendarOK, ClockOK, [Next]_vars
  PROVE  CalendarOK'
  <1> USE DEF shared, local
  <1>1. /\ Hour(counter) \in Nat /\ Minute(counter) \in Nat /\ Sec(counter) \in Nat
        /\ Hour(rtc_count) \in Nat /\ Minute(rtc_count) \in Nat /\ Sec(rtc_count) \in Nat
    BY TimeOfDay DEF ClockOK
  <1>2. DOMAIN calendar = {"date", "hour", "min", "sec"}
    BY DEF CalendarOK
  <1>3. CASE RTC_IRQHandler
    BY <1>1, <1>3 DEF RTC_IRQHandler, Calendared, CalendarOK
  <1>4. CASE StoreTime
    BY <1>1, <1>2, <1>4 DEF StoreTime, CalendarOK
  <1>5. CASE StoreYear \/ StoreDate
    BY <1>2, <1>5 DEF StoreYear, StoreDate, CalendarOK
  <1>6. CASE Tick \/ NtpSet \/ UNCHANGED vars
    BY <1>6 DEF Tick, NtpSet, vars, CalendarOK
  <1>7. CASE SetTime \/ Read \/ Compare \/ ReadDate \/ ReadTime \/ RTC_Set
    BY <1>7 DEF SetTime, Read, Compare, ReadDate, ReadTime, RTC_Set, CalendarOK
  <1> QED BY <1>3, <1>4, <1>5, <1>6, <1>7 DEF Next, Thread

-----------------------------------------------------------------------------
(***************************************************************************)
(* The two that store a date, and what is remembered of them.              *)
(***************************************************************************)
LEMMA TornIs ==
  ASSUME On
  PROVE  /\ RTC_IRQHandler /\ Storing => (torn' <=> counter.day /= rtc_count.day)
         /\ RTC_IRQHandler /\ ~Storing => (torn' <=> torn /\ counter.day = daycnt)
         /\ Compare => (torn' <=> torn /\ rtc_count.day = daycnt)
         /\ ~RTC_IRQHandler /\ ~Compare => (torn' <=> torn)
         /\ RTC_IRQHandler => disturbed'
         /\ ~RTC_IRQHandler /\ ~disturbed' => ~disturbed \/ Read
  <1>1. /\ Next /\ TornNext
        /\ disturbed' = IF Reads THEN FALSE ELSE disturbed \/ Interrupt
    BY DEF On
  <1>2. CASE RTC_IRQHandler
    <2>1. Interrupt /\ ~Reads /\ ~Compares /\ ~Compare
      BY <1>2 DEF RTC_IRQHandler, local, Interrupt, Reads, Compares, Compare
    <2> QED BY <1>1, <1>2, <2>1 DEF TornNext
  <1>3. CASE Compare
    <2>1. ~Interrupt /\ Compares /\ ~Reads
      BY <1>3 DEF Compare, Interrupt, Reads, Compares
    <2>2. ~RTC_IRQHandler
      BY <2>1 DEF RTC_IRQHandler, Interrupt
    <2> QED BY <1>1, <1>3, <2>1, <2>2 DEF TornNext
  <1>4. CASE ~RTC_IRQHandler /\ ~Compare
    <2>1. ~Interrupt /\ ~Compares /\ (Reads => Read)
      BY <1>1, <1>4 DEF Next, Thread, Tick, NtpSet, SetTime, Read, StoreYear, StoreDate, StoreTime,
                        ReadDate, ReadTime, RTC_Set, local, shared, Interrupt, Compares, Reads
    <2> QED BY <1>1, <1>4, <2>1 DEF TornNext
  <1> QED BY <1>2, <1>3, <1>4

\* The interrupt stores the date of the day it finds, or the day is not a new
\* one.
LEMMA DateInterrupt ==
  ASSUME DateInv, On, RTC_IRQHandler
  PROVE  DatedOK' /\ StoringOK' /\ DateOK' /\ TakenOK' /\ ArgOK'
  <1>1. /\ calendar'.date = IF counter.day /= daycnt THEN DateOf(counter.day)
                            ELSE calendar.date
        /\ daycnt' = counter.day
        /\ UNCHANGED <<pc, rtc_count, arg>>
    BY DEF RTC_IRQHandler, local, Calendared
  <1>2. Dated(DateOf(counter.day)) /\ DateOf(counter.day).year = YearOf(counter.day).year
        /\ YearOf(counter.day).year \in Nat /\ SinceEpoch(YearOf(counter.day).year)
    BY TimeOfDay, DateDated, YearOfDay DEF DateInv, ClockOK
  <1>3. DatedOK'
    BY <1>1, <1>2 DEF DateInv, DatedOK, Storing
  <1>4. StoringOK'
    BY <1>1, <1>2, TornIs DEF DateInv, StoringOK, Storing
  <1>5. DateOK'
    <2>1. Storing' <=> Storing
      BY <1>1 DEF Storing
    <2> QED BY <1>1, <2>1, TornIs DEF DateInv, DateOK
  <1>6. TakenOK'
    BY TornIs DEF TakenOK
  <1>7. ArgOK'
    BY <1>1 DEF DateInv, ArgOK
  <1> QED BY <1>3, <1>4, <1>5, <1>6, <1>7

\* The two statements that store the date, together, store DateOf(daycnt) if
\* the interrupt has not found another day between them.
LEMMA DateStored ==
  ASSUME DateInv, On, StoreYear \/ StoreDate
  PROVE  DatedOK' /\ StoringOK' /\ DateOK' /\ TakenOK' /\ ArgOK'
  <1>1. /\ (torn' <=> torn) /\ (~disturbed' => ~disturbed)
        /\ UNCHANGED <<daycnt, rtc_count, arg>>
    BY TornIs DEF StoreYear, StoreDate, RTC_IRQHandler, Compare, local, Read
  <1>2. ArgOK'
    BY <1>1 DEF DateInv, ArgOK, StoreYear, StoreDate
  <1>3. TakenOK'
    BY <1>1 DEF DateInv, TakenOK, StoreYear, StoreDate
  <1>4. YearOf(rtc_count.day).year \in Nat /\ SinceEpoch(YearOf(rtc_count.day).year)
        /\ YearOf(rtc_count.day).day \in 0 .. 365
    <2>1. rtc_count.day \in Nat
      BY TimeOfDay DEF DateInv, ClockOK
    <2> QED BY <2>1, YearOfDay
  <1>5. CASE StoreYear
    <2>1. calendar'.date.year = YearOf(rtc_count.day).year
      BY <1>5 DEF StoreYear, DateInv, CalendarOK, Date
    <2>2. pc = "year" /\ pc' = "date"
      BY <1>5 DEF StoreYear
    <2>3. DatedOK'
      BY <1>4, <2>1, <2>2 DEF DatedOK, Storing
    <2>4. StoringOK'
      BY <1>1, <2>1, <2>2 DEF DateInv, StoringOK, Storing
    <2>5. DateOK'
      BY <2>2 DEF DateOK, Storing
    <2> QED BY <1>2, <1>3, <2>3, <2>4, <2>5
  <1>6. CASE StoreDate
    <2>1. calendar'.date = DateIn(YearOf(rtc_count.day).day, calendar.date.year)
      BY <1>6 DEF StoreDate, DateInv, CalendarOK
    <2>2. pc = "date" /\ pc' = "time"
      BY <1>6 DEF StoreDate
    <2>3. DatedOK'
      <3>1. calendar.date.year \in Nat /\ SinceEpoch(calendar.date.year)
        BY <2>2 DEF DateInv, DatedOK
      <3>2. \E m \in 1 .. 13, q \in Nat : calendar'.date = Date(calendar.date.year, m, q + 1)
        <4>1. PICK r \in 0 .. 365, z \in Nat :
                r = YearOf(rtc_count.day).day /\ z = calendar.date.year
          BY <1>4, <3>1
        <4>2. \E m \in 1 .. 13, q \in Nat : DateIn(r, z) = Date(z, m, q + 1)
          BY DayInYearDated
        <4> QED BY <2>1, <4>1, <4>2
      <3> QED BY <2>2, <3>1, <3>2 DEF DatedOK, Dated
    <2>4. StoringOK'
      BY <2>2 DEF StoringOK, Storing
    <2>5. ASSUME ~torn PROVE calendar'.date = DateOf(rtc_count.day) /\ daycnt = rtc_count.day
      <3>1. daycnt = rtc_count.day
        BY <2>2, <2>5 DEF DateInv, StoringOK, Storing
      <3>2. calendar.date.year = YearOf(rtc_count.day).year
        BY <2>2, <3>1 DEF DateInv, StoringOK
      <3> QED BY <2>1, <3>1, <3>2 DEF DateOf
    <2>6. DateOK'
      BY <1>1, <2>2, <2>5 DEF DateOK
    <2> QED BY <1>2, <1>3, <2>3, <2>4, <2>6
  <1> QED BY <1>5, <1>6

\* The statements before and after them.
LEMMA DateCompared ==
  ASSUME DateInv, On, SetTime \/ Read \/ Compare
  PROVE  DatedOK' /\ StoringOK' /\ DateOK' /\ TakenOK' /\ ArgOK'
  <1> USE DEF DateInv, shared
  <1>1. calendar' = calendar /\ arg' = arg
    BY DEF SetTime, Read, Compare
  <1>2. ArgOK'
    BY <1>1 DEF ArgOK, SetTime, Read, Compare
  <1>3. CASE SetTime \/ Read
    <2>1. /\ (torn' <=> torn) /\ daycnt' = daycnt
          /\ pc \notin {"year", "date", "time", "args"} /\ pc' \notin {"year", "date", "time", "args"}
      BY <1>3, TornIs DEF SetTime, Read, RTC_IRQHandler, Compare, local
    <2> QED BY <1>1, <1>2, <2>1 DEF DatedOK, StoringOK, DateOK, TakenOK, Storing
  <1>4. CASE Compare
    <2>1. /\ daycnt' = rtc_count.day /\ rtc_count' = rtc_count /\ pc = "compare"
          /\ pc' = (IF daycnt /= rtc_count.day THEN "year" ELSE "time")
          /\ (torn' <=> torn /\ rtc_count.day = daycnt)
      BY <1>4, TornIs DEF Compare
    <2> QED BY <1>1, <1>2, <2>1 DEF DatedOK, StoringOK, DateOK, TakenOK, Storing
  <1> QED BY <1>3, <1>4

LEMMA DateTaken ==
  ASSUME DateInv, On, StoreTime \/ ReadDate \/ ReadTime \/ RTC_Set
  PROVE  DatedOK' /\ StoringOK' /\ DateOK' /\ TakenOK' /\ ArgOK'
  <1> USE DEF DateInv, shared
  <1>1. /\ (torn' <=> torn) /\ (~disturbed' => ~disturbed)
        /\ daycnt' = daycnt /\ rtc_count' = rtc_count /\ ~Storing /\ ~Storing'
    BY TornIs DEF StoreTime, ReadDate, ReadTime, RTC_Set, RTC_IRQHandler, Compare, local, Read,
                  Storing
  <1>2. /\ DOMAIN calendar = {"date", "hour", "min", "sec"} /\ DOMAIN arg = {"date", "time"}
    BY DEF CalendarOK, ArgOK
  <1>3. calendar'.date = calendar.date
    BY <1>2 DEF StoreTime, ReadDate, ReadTime, RTC_Set
  <1>4. DatedOK' /\ StoringOK' /\ DateOK'
    <2>1. pc' /= "date"
      BY <1>1 DEF Storing
    <2> QED BY <1>1, <1>3, <2>1 DEF DatedOK, StoringOK, DateOK
  <1>5. CASE StoreTime
    <2>1. /\ calendar'.hour = Hour(rtc_count) /\ calendar'.min = Minute(rtc_count)
          /\ calendar'.sec = Sec(rtc_count) /\ arg' = NoArg /\ pc = "time"
      BY <1>2, <1>5 DEF StoreTime, ArgOK
    <2>2. arg'.date = NoDate /\ arg'.time = <<>> /\ DOMAIN arg' = {"date", "time"}
      BY <2>1 DEF NoArg
    <2> QED BY <1>1, <1>4, <2>1, <2>2 DEF TakenOK, ArgOK, Hour, Minute, Sec
  <1>6. CASE ReadDate
    <2>1. /\ DOMAIN arg' = {"date", "time"} /\ arg'.date = calendar.date /\ arg'.time = arg.time
          /\ pc = "args" /\ calendar' = calendar
      BY <1>2, <1>6 DEF ReadDate
    <2>2. ArgOK'
      BY <1>1, <1>6, <2>1 DEF ReadDate, ArgOK, DatedOK
    <2> QED BY <1>1, <1>4, <2>1, <2>2 DEF TakenOK, Hour, Minute, Sec
  <1>7. CASE ReadTime
    <2> DEFINE t == [h |-> calendar.hour, m |-> calendar.min, s |-> calendar.sec]
    <2>1. t \in Times /\ Read3(t) = <<calendar.hour, calendar.min, calendar.sec>>
      BY DEF CalendarOK, Times, Read3
    <2>2. /\ DOMAIN arg' = {"date", "time"} /\ arg'.date = arg.date /\ arg'.time = Read3(t)
          /\ pc = "args" /\ pc' = "args" /\ calendar' = calendar
      <3> HIDE DEF t
      <3> QED BY <1>2, <1>7, <2>1 DEF ReadTime
    <2> HIDE DEF t
    <2>3. ArgOK'
      BY <2>1, <2>2 DEF ArgOK
    <2> QED BY <1>1, <1>4, <2>1, <2>2, <2>3 DEF TakenOK, Hour, Minute, Sec
  <1>8. CASE RTC_Set
    <2>1. pc' = "idle" /\ arg' = NoArg
      BY <1>8 DEF RTC_Set
    <2> QED BY <1>4, <2>1 DEF TakenOK, ArgOK, NoArg
  <1> QED BY <1>5, <1>6, <1>7, <1>8

LEMMA DateOn ==
  ASSUME DateInv, On
  PROVE  DateInv'
  <1>1. ClockOK' /\ UserOK' /\ CalendarOK'
    BY ClockNext, UserNext, CalendarNext DEF DateInv, On
  <1>2. CASE Tick \/ NtpSet
    <2>1. /\ UNCHANGED <<calendar, daycnt, pc, rtc_count, arg>>
          /\ (torn' <=> torn) /\ (~disturbed' => ~disturbed)
      <3>1. ~RTC_IRQHandler /\ ~Compare /\ ~Read
        BY <1>2 DEF Tick, NtpSet, RTC_IRQHandler, Compare, Read, local
      <3> QED BY <1>2, <3>1, TornIs DEF Tick, NtpSet, local
    <2>2. DatedOK' /\ StoringOK' /\ DateOK' /\ TakenOK' /\ ArgOK'
      BY <2>1 DEF DateInv, DatedOK, StoringOK, DateOK, TakenOK, ArgOK, Storing, Hour, Minute, Sec
    <2> QED BY <1>1, <2>2 DEF DateInv
  <1>3. CASE RTC_IRQHandler
    BY <1>1, <1>3, DateInterrupt DEF DateInv
  <1>4. CASE Thread
    <2>1. DatedOK' /\ StoringOK' /\ DateOK' /\ TakenOK' /\ ArgOK'
      BY <1>4, DateStored, DateCompared, DateTaken DEF Thread
    <2> QED BY <1>1, <2>1 DEF DateInv
  <1> QED BY <1>2, <1>3, <1>4 DEF On, Next

SetInv == WalkInv /\ DateInv

LEMMA SetInit ==
  ASSUME MCInit
  PROVE  SetInv
  <1>1. Init
    BY DEF MCInit
  <1>2. counter \in Clock
    BY <1>1, RealTimes DEF Init
  <1>3. ClockOK /\ UserOK /\ CalendarOK /\ ArgOK
    BY <1>1, <1>2 DEF Init, ClockOK, UserOK, CalendarOK, ArgOK, NoArg
  <1>4. DatedOK /\ StoringOK /\ DateOK /\ TakenOK
    BY <1>1 DEF Init, DatedOK, StoringOK, DateOK, TakenOK, Storing
  <1> QED BY <1>3, <1>4, WalkInit DEF SetInv, DateInv

\* What only the counter of days can change.
LEMMA DateKept ==
  ASSUME DateInv, counter' \in Clock,
         UNCHANGED <<daycnt, calendar, pc, unit, value, rtc_count, arg, disturbed, torn>>
  PROVE  DateInv'
  <1>1. ClockOK' /\ UserOK' /\ CalendarOK' /\ ArgOK'
    BY DEF DateInv, ClockOK, UserOK, CalendarOK, ArgOK
  <1>2. DatedOK' /\ StoringOK' /\ DateOK' /\ TakenOK'
    BY DEF DateInv, DatedOK, StoringOK, DateOK, TakenOK, Storing, Hour, Minute, Sec
  <1> QED BY <1>1, <1>2 DEF DateInv

LEMMA SetNext ==
  ASSUME SetInv, [MCNext]_mcVars
  PROVE  SetInv'
  <1>1. WalkInv' /\ day' \in Nat
    BY WalkNext, WalkGoesOn DEF SetInv, WalkInv
  <1>2. counter \in Clock
    BY DEF SetInv, DateInv, ClockOK
  <1>3. CASE Off
    <2>1. counter' = [counter EXCEPT !.day = day']
          /\ UNCHANGED <<daycnt, calendar, pc, unit, value, rtc_count, arg, disturbed, torn>>
      BY <1>3 DEF Off, local
    <2>2. counter' \in Clock
      BY <1>1, <1>2, <2>1 DEF Clock
    <2> QED BY <1>1, <2>1, <2>2, DateKept DEF SetInv
  <1>4. CASE SwitchOn \/ UNCHANGED mcVars
    <2>1. UNCHANGED <<counter, daycnt, calendar, pc, unit, value, rtc_count, arg, disturbed, torn>>
      BY <1>4 DEF SwitchOn, mcVars, vars
    <2> QED BY <1>1, <1>2, <2>1, DateKept DEF SetInv
  <1>5. CASE On
    BY <1>1, <1>5, DateOn DEF SetInv
  <1> QED BY <1>3, <1>4, <1>5 DEF MCNext

\* The date in calendar_t is the date of daycnt, whatever the interrupt, the
\* network and the user have done, unless a date was stored over another.
THEOREM ClockDateOfDaycnt == MCSpec => []DateOfDaycnt
  <1>1. SetInv => DateOfDaycnt
    BY DEF SetInv, DateInv, DateOK, DateOfDaycnt
  <1>2. SetInv /\ [MCNext]_mcVars => SetInv'
    BY SetNext
  <1>3. MCInit => SetInv
    BY SetInit
  <1> QED BY <1>1, <1>2, <1>3, PTL DEF MCSpec

\* Every interrupt leaves the date of the day the counter stands on, also the
\* one that comes within the RTC_Get of the thread, unless the thread is
\* storing a date or has stored one over that of another day.
THEOREM ClockShowsTheDay == MCSpec => ShowsTheDay
  <1>1. ASSUME SetInv, On, RTC_IRQHandler, ~Storing, ~torn', counter.day /= 0
        PROVE  calendar'.date = DateOf(counter.day)
    <2>1. calendar'.date = IF counter.day /= daycnt THEN DateOf(counter.day)
                           ELSE calendar.date
      BY <1>1 DEF RTC_IRQHandler, Calendared
    <2>2. torn' <=> torn /\ counter.day = daycnt
      BY <1>1, TornIs
    <2> QED BY <1>1, <2>1, <2>2 DEF SetInv, DateInv, DateOK
  <1>2. ASSUME SetInv, [MCNext]_mcVars
        PROVE  [RTC_IRQHandler /\ ~Storing /\ ~torn' /\ counter.day /= 0
                  => calendar'.date = DateOf(counter.day)]_mcVars
    <2>1. ~UNCHANGED mcVars /\ RTC_IRQHandler => On
      BY <1>2 DEF MCNext, Off, SwitchOn, RTC_IRQHandler, vars
    <2> QED BY <1>1, <1>2, <2>1
  <1>3. SetInv /\ [MCNext]_mcVars => SetInv'
    BY SetNext
  <1>4. MCInit => SetInv
    BY SetInit
  <1> QED BY <1>2, <1>3, <1>4, PTL DEF MCSpec, ShowsTheDay

\* The setting of the hour, the minute or the second changes this field alone
\* when nothing interrupts it, on every day that RTC_Get dates right.
THEOREM ClockSetsOneFieldAlone == MCSpec => SetsOneFieldAlone
  <1>1. ASSUME SetInv, RTC_Set, ~disturbed, ~torn, calendar.date.month \in 1 .. 12,
               Settable(calendar.date.year)
        PROVE  counter' = WithField(rtc_count)
    <2> DEFINE s == NewTime(Hour(rtc_count), Minute(rtc_count), Sec(rtc_count))
    <2>1. /\ pc = "args" /\ arg.date /= NoDate /\ arg.time /= <<>>
          /\ TakenOK /\ UserOK /\ DateOK /\ rtc_count \in Clock
      BY <1>1 DEF RTC_Set, SetInv, DateInv, ClockOK
    <2>2. /\ arg.date = calendar.date /\ daycnt = rtc_count.day
          /\ arg.time = <<Hour(rtc_count), Minute(rtc_count), Sec(rtc_count)>>
      BY <1>1, <2>1 DEF TakenOK
    <2>3. arg.date = DateOf(rtc_count.day)
      <3>1. ~Storing
        BY <2>1 DEF Storing
      <3> QED BY <1>1, <2>1, <2>2, <3>1 DEF DateOK
    <2>4. counter' = Counter(arg.date, s)
      BY <1>1, <2>2 DEF RTC_Set, NewTime
    <2>5. s \in Seconds /\ WithField(rtc_count) = [day |-> rtc_count.day, second |-> s]
      BY <2>1, FieldSeconds
    <2>6. rtc_count.day \in Nat
      BY <2>1, TimeOfDay
    <2>7. DayOf(arg.date) = rtc_count.day
      BY <1>1, <2>2, <2>3, <2>6, ThereAndBack
    <2>8. s \in Nat
      BY <2>5 DEF Seconds
    <2> HIDE DEF s
    <2> QED BY <2>4, <2>5, <2>6, <2>7, <2>8, CounterIsClock
  <1>2. SetInv /\ [MCNext]_mcVars => SetInv'
    BY SetNext
  <1>3. MCInit => SetInv
    BY SetInit
  <1>4. SetInv /\ [MCNext]_mcVars
          => [RTC_Set /\ ~disturbed /\ ~torn /\ calendar.date.month \in 1 .. 12
                /\ Settable(calendar.date.year) => counter' = WithField(rtc_count)]_mcVars
    BY <1>1
  <1> QED BY <1>2, <1>3, <1>4, PTL DEF MCSpec, SetsOneFieldAlone
=============================================================================
