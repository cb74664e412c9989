------------------------- MODULE CalculationsProofs -------------------------
(***************************************************************************)
(* Proofs about Calculations.  Due dates: for every schedule and every     *)
(* date the worker's arithmetic finds the nearest due date, the API's the  *)
(* last one passed, and the two agree on what is settled.  Balances: for   *)
(* every account the running totals of a series give what the lookup's     *)
(* query gives, the points of a monthly series are the month ends of its   *)
(* range, and what the discrepancy view leaves out can be left out.        *)
(* Statements: the dates the model read month first are put right.         *)
(* Backfill: corrections return to the rows they belong to, and returning  *)
(* them twice is the same as once.                                         *)
(***************************************************************************)
EXTENDS Calculations, FiniteSetTheorems, SequenceTheorems, WellFoundedInduction, TLAPS

----------------------------------------------------------------------------
(* Lengths of years and months                                             *)

Leap(y) == IF IsLeap(y) THEN 1 ELSE 0

LEMMA YearLength ==
  ASSUME NEW y \in Int
  PROVE  /\ DaysBeforeYear(y) \in Int
         /\ DaysBeforeYear(y + 1) = DaysBeforeYear(y) + 365 + Leap(y)
  <1>. DEFINE p == y - 1
  <1>1. y \div 4 = p \div 4 + (IF y % 4 = 0 THEN 1 ELSE 0)
    OBVIOUS
  <1>2. y \div 100 = p \div 100 + (IF y % 100 = 0 THEN 1 ELSE 0)
    OBVIOUS
  <1>3. y \div 400 = p \div 400 + (IF y % 400 = 0 THEN 1 ELSE 0)
    OBVIOUS
  <1>4. (y % 400 = 0 => y % 100 = 0) /\ (y % 100 = 0 => y % 4 = 0)
    OBVIOUS
  <1>. QED  BY <1>1, <1>2, <1>3, <1>4 DEF DaysBeforeYear, IsLeap, Leap

\* A later year begins later, by a year at least.
LEMMA YearsInOrder ==
  ASSUME NEW y \in Int, NEW z \in Int, y < z
  PROVE  DaysBeforeYear(z) >= DaysBeforeYear(y) + 365
  <1>. DEFINE p == y - 1
              q == z - 1
  <1>1. p \div 100 = (p \div 4) \div 25 /\ q \div 100 = (q \div 4) \div 25
    OBVIOUS
  <1>2. p \div 4 <= q \div 4 /\ p \div 400 <= q \div 400
    OBVIOUS
  <1>3. ASSUME NEW a \in Int, NEW b \in Int, a <= b
        PROVE  a - a \div 25 <= b - b \div 25
    BY <1>3
  <1>4. (p \div 4) - (p \div 100) <= (q \div 4) - (q \div 100)
    BY <1>1, <1>2, <1>3
  <1>. QED  BY <1>2, <1>4 DEF DaysBeforeYear

LEMMA MonthLength ==
  ASSUME NEW y \in Int, NEW m \in 1 .. 12
  PROVE  /\ DaysInMonth(y, m) \in 28 .. 31
         /\ DaysBeforeMonth(y, m) \in Int
         /\ DaysBeforeMonth(y, 1) = 0
         /\ m < 12 => DaysBeforeMonth(y, m + 1) = DaysBeforeMonth(y, m) + DaysInMonth(y, m)
         /\ DaysBeforeMonth(y, 12) + DaysInMonth(y, 12) = 365 + Leap(y)
  <1>1. m = 1 \/ m = 2 \/ m = 3 \/ m = 4 \/ m = 5 \/ m = 6 \/ m = 7 \/ m = 8 \/ m = 9 \/ m = 10 \/ m = 11 \/ m = 12
    OBVIOUS
  <1>2. /\ DaysBeforeMonth(y, 1) = 0 /\ DaysBeforeMonth(y, 2) = 31
        /\ DaysBeforeMonth(y, 3) = 59 + Leap(y) /\ DaysBeforeMonth(y, 4) = 90 + Leap(y)
        /\ DaysBeforeMonth(y, 5) = 120 + Leap(y) /\ DaysBeforeMonth(y, 6) = 151 + Leap(y)
        /\ DaysBeforeMonth(y, 7) = 181 + Leap(y) /\ DaysBeforeMonth(y, 8) = 212 + Leap(y)
        /\ DaysBeforeMonth(y, 9) = 243 + Leap(y) /\ DaysBeforeMonth(y, 10) = 273 + Leap(y)
        /\ DaysBeforeMonth(y, 11) = 304 + Leap(y) /\ DaysBeforeMonth(y, 12) = 334 + Leap(y)
    BY DEF DaysBeforeMonth, Leap
  <1>3. Leap(y) \in {0, 1} /\ DaysInMonth(y, 2) = 28 + Leap(y)
    BY DEF Leap, DaysInMonth
  <1>4. /\ DaysInMonth(y, 1) = 31 /\ DaysInMonth(y, 3) = 31 /\ DaysInMonth(y, 4) = 30 /\ DaysInMonth(y, 5) = 31
        /\ DaysInMonth(y, 6) = 30 /\ DaysInMonth(y, 7) = 31 /\ DaysInMonth(y, 8) = 31 /\ DaysInMonth(y, 9) = 30
        /\ DaysInMonth(y, 10) = 31 /\ DaysInMonth(y, 11) = 30 /\ DaysInMonth(y, 12) = 31
    BY DEF DaysInMonth
  <1>. QED  BY <1>1, <1>2, <1>3, <1>4

\* Months begin about thirty days apart, and so in order.
LEMMA MonthsInOrder ==
  ASSUME NEW y \in Int, NEW m \in 1 .. 12
  PROVE  /\ DaysBeforeMonth(y, m) \in 0 .. 335
         /\ 30 * (m - 1) - 1 <= DaysBeforeMonth(y, m) /\ DaysBeforeMonth(y, m) <= 30 * (m - 1) + 5
         /\ DaysBeforeMonth(y, m) + DaysInMonth(y, m) <= 365 + Leap(y)
         /\ \A k \in 1 .. 12 : m < k => DaysBeforeMonth(y, m) + DaysInMonth(y, m) <= DaysBeforeMonth(y, k)
  <1>1. m = 1 \/ m = 2 \/ m = 3 \/ m = 4 \/ m = 5 \/ m = 6 \/ m = 7 \/ m = 8 \/ m = 9 \/ m = 10 \/ m = 11 \/ m = 12
    OBVIOUS
  <1>2. ASSUME NEW k \in 1 .. 12
        PROVE  /\ DaysBeforeMonth(y, k) \in 0 .. 335
               /\ 30 * (k - 1) - 1 <= DaysBeforeMonth(y, k) /\ DaysBeforeMonth(y, k) <= 30 * (k - 1) + 5
    BY DEF DaysBeforeMonth
  <1>3. DaysBeforeMonth(y, m) + DaysInMonth(y, m) <= 365 + Leap(y)
    <2>1. Leap(y) \in {0, 1}
      BY DEF Leap
    <2>2. CASE m = 12
      <3>1. DaysBeforeMonth(y, 12) + DaysInMonth(y, 12) = 365 + Leap(y)
        BY MonthLength
      <3>. QED  BY <2>1, <2>2, <3>1
    <2>3. CASE m # 12
      <3>1. m + 1 \in 1 .. 12 /\ m < 12
        BY <2>3
      <3>2. DaysBeforeMonth(y, m + 1) = DaysBeforeMonth(y, m) + DaysInMonth(y, m)
        BY <3>1, MonthLength
      <3>3. DaysBeforeMonth(y, m + 1) \in 0 .. 335
        BY <1>2, <3>1
      <3>. QED  BY <2>1, <3>2, <3>3
    <2>. QED  BY <2>2, <2>3
  <1>4. ASSUME NEW k \in 1 .. 12, m < k
        PROVE  DaysBeforeMonth(y, m) + DaysInMonth(y, m) <= DaysBeforeMonth(y, k)
    <2>1. m + 1 \in 1 .. 12 /\ m < 12
      BY <1>4
    <2>2. DaysBeforeMonth(y, m + 1) = DaysBeforeMonth(y, m) + DaysInMonth(y, m)
      BY <2>1, MonthLength
    <2>3. DaysBeforeMonth(y, m + 1) \in Int /\ DaysBeforeMonth(y, k) \in Int
      BY <1>2, <2>1
    <2>4. CASE k = m + 1
      BY <2>2, <2>3, <2>4
    <2>5. CASE k > m + 1
      BY <1>2, <2>1, <2>2, <2>3, <2>5
    <2>. QED  BY <1>4, <2>4, <2>5
  <1>. QED  BY <1>2, <1>3, <1>4

----------------------------------------------------------------------------
(* The periods of a schedule: months counted from year 0, or years.        *)

Month(n) == [y |-> n \div 12, m |-> (n % 12) + 1]
PeriodOf(s, t) == IF s.frequency = "monthly" THEN 12 * t.y + t.m - 1 ELSE t.y
DueIn(s, n) == IF s.frequency = "monthly" THEN InstanceInMonth(s, Month(n)) ELSE InstanceInYear(s, n)
StartOf(s, n) ==
    IF s.frequency = "monthly" THEN DaysBeforeYear(n \div 12) + DaysBeforeMonth(n \div 12, (n % 12) + 1)
    ELSE DaysBeforeYear(n)

LEMMA MonthNumbers ==
  /\ \A n \in Int : n \div 12 \in Int /\ (n % 12) + 1 \in 1 .. 12 /\ n = 12 * (n \div 12) + (n % 12)
  /\ \A y \in Int, m \in 1 .. 12 : (12 * y + m - 1) \div 12 = y /\ (12 * y + m - 1) % 12 = m - 1
  OBVIOUS

\* Sums of the days before a year and before a month of it.
LEMMA SumsInOrder ==
  ASSUME NEW a \in Int, NEW b \in Int, NEW c \in 0 .. 335, NEW d \in 0 .. 335, b >= a + 365
  PROVE  a + c < b + d
  OBVIOUS

LEMMA SumsWithinYear ==
  ASSUME NEW a \in Int, NEW c \in 0 .. 335, NEW d \in 0 .. 335, NEW l \in 28 .. 31, c + l <= d
  PROVE  a + c < a + d
  OBVIOUS

LEMMA StartsInOrder ==
  ASSUME NEW s, NEW n \in Int
  PROVE  /\ StartOf(s, n) \in Int
         /\ \A k \in Int : n < k => StartOf(s, n) < StartOf(s, k)
  <1>1. CASE s.frequency = "monthly"
    <2>1. ASSUME NEW i \in Int
          PROVE  /\ StartOf(s, i) = DaysBeforeYear(i \div 12) + DaysBeforeMonth(i \div 12, (i % 12) + 1)
                 /\ i \div 12 \in Int /\ (i % 12) + 1 \in 1 .. 12
                 /\ DaysBeforeYear(i \div 12) \in Int
                 /\ DaysBeforeMonth(i \div 12, (i % 12) + 1) \in 0 .. 335
                 /\ StartOf(s, i) \in Int
      <3>1. i \div 12 \in Int /\ (i % 12) + 1 \in 1 .. 12
        BY MonthNumbers
      <3>2. StartOf(s, i) = DaysBeforeYear(i \div 12) + DaysBeforeMonth(i \div 12, (i % 12) + 1)
        BY <1>1 DEF StartOf
      <3>3. DaysBeforeYear(i \div 12) \in Int
        BY <3>1, YearLength
      <3>4. DaysBeforeMonth(i \div 12, (i % 12) + 1) \in 0 .. 335
        BY <3>1, MonthsInOrder
      <3>. QED  BY <3>1, <3>2, <3>3, <3>4
    <2>2. ASSUME NEW k \in Int, n < k
          PROVE  StartOf(s, n) < StartOf(s, k)
      <3>. DEFINE y == n \div 12
                  m == (n % 12) + 1
                  z == k \div 12
                  l == (k % 12) + 1
      <3>1. /\ StartOf(s, n) = DaysBeforeYear(y) + DaysBeforeMonth(y, m)
            /\ y \in Int /\ m \in 1 .. 12 /\ DaysBeforeYear(y) \in Int /\ DaysBeforeMonth(y, m) \in 0 .. 335
        BY <2>1
      <3>2. /\ StartOf(s, k) = DaysBeforeYear(z) + DaysBeforeMonth(z, l)
            /\ z \in Int /\ l \in 1 .. 12 /\ DaysBeforeYear(z) \in Int /\ DaysBeforeMonth(z, l) \in 0 .. 335
        BY <2>1
      <3>3. y < z \/ (y = z /\ m < l)
        BY <2>2
      <3>. HIDE DEF y, m, z, l
      <3>4. CASE y < z
        <4>1. DaysBeforeYear(z) >= DaysBeforeYear(y) + 365
          BY <3>1, <3>2, <3>4, YearsInOrder
        <4>2. DaysBeforeYear(y) + DaysBeforeMonth(y, m) < DaysBeforeYear(z) + DaysBeforeMonth(z, l)
            BY <3>1, <3>2, <4>1, SumsInOrder
          <4>. QED  BY <3>1, <3>2, <4>2
      <3>5. CASE y = z /\ m < l
        <4>1. DaysBeforeMonth(y, m) + DaysInMonth(y, m) <= DaysBeforeMonth(y, l)
          BY <3>1, <3>2, <3>5, MonthsInOrder
        <4>2. DaysInMonth(y, m) \in 28 .. 31
          BY <3>1, MonthLength
        <4>3. DaysBeforeMonth(y, l) \in 0 .. 335
            BY <3>1, <3>2, MonthsInOrder
          <4>4. DaysBeforeYear(y) + DaysBeforeMonth(y, m) < DaysBeforeYear(y) + DaysBeforeMonth(y, l)
            BY <3>1, <4>1, <4>2, <4>3, SumsWithinYear
          <4>5. DaysBeforeYear(z) + DaysBeforeMonth(z, l) = DaysBeforeYear(y) + DaysBeforeMonth(y, l)
            BY <3>5
          <4>. QED  BY <3>1, <3>2, <4>4, <4>5
      <3>. QED  BY <3>3, <3>4, <3>5
    <2>. QED  BY <2>1, <2>2
  <1>2. CASE s.frequency # "monthly"
    BY <1>2, YearLength, YearsInOrder DEF StartOf
  <1>. QED  BY <1>1, <1>2

\* A date lies in its period.
LEMMA DateInPeriod ==
  ASSUME NEW s, NEW t \in CalendarDate
  PROVE  /\ PeriodOf(s, t) \in Int /\ Ordinal(t) \in Int
         /\ StartOf(s, PeriodOf(s, t)) < Ordinal(t)
         /\ Ordinal(t) <= StartOf(s, PeriodOf(s, t) + 1)
  <1>1. t.y \in Int /\ t.m \in 1 .. 12 /\ t.d \in 1 .. 31 /\ t.d <= DaysInMonth(t.y, t.m)
    BY DEF CalendarDate
  <1>. DEFINE y == t.y
              m == t.m
              n == 12 * y + m - 1
  <1>2. /\ DaysBeforeYear(y) \in Int /\ DaysBeforeMonth(y, m) \in 0 .. 335 /\ DaysInMonth(y, m) \in 28 .. 31
        /\ DaysBeforeYear(y + 1) = DaysBeforeYear(y) + 365 + Leap(y)
        /\ DaysBeforeMonth(y, m) + DaysInMonth(y, m) <= 365 + Leap(y)
        /\ Leap(y) \in {0, 1}
    <2>1. Leap(y) \in {0, 1}
      BY DEF Leap
    <2>2. DaysBeforeYear(y) \in Int /\ DaysBeforeYear(y + 1) = DaysBeforeYear(y) + 365 + Leap(y)
      BY <1>1, YearLength
    <2>3. DaysInMonth(y, m) \in 28 .. 31
      BY <1>1, MonthLength
    <2>4. /\ DaysBeforeMonth(y, m) \in 0 .. 335
          /\ DaysBeforeMonth(y, m) + DaysInMonth(y, m) <= 365 + Leap(y)
      BY <1>1, MonthsInOrder
    <2>. QED  BY <2>1, <2>2, <2>3, <2>4
  <1>3. Ordinal(t) = DaysBeforeYear(y) + DaysBeforeMonth(y, m) + t.d
    BY DEF Ordinal
  <1>4. /\ Ordinal(t) \in Int
        /\ DaysBeforeYear(y) < Ordinal(t) /\ DaysBeforeYear(y) + DaysBeforeMonth(y, m) < Ordinal(t)
        /\ Ordinal(t) <= DaysBeforeYear(y) + DaysBeforeMonth(y, m) + DaysInMonth(y, m)
        /\ Ordinal(t) <= DaysBeforeYear(y + 1)
    <2>. DEFINE a == DaysBeforeYear(y)
                c == DaysBeforeMonth(y, m)
                l == DaysInMonth(y, m)
                e == Leap(y)
                d == t.d
    <2>1. /\ a \in Int /\ c \in 0 .. 335 /\ l \in 28 .. 31 /\ e \in {0, 1} /\ d \in 1 .. 31
          /\ d <= l /\ c + l <= 365 + e
      BY <1>1, <1>2
    <2>2. Ordinal(t) = a + c + d /\ DaysBeforeYear(y + 1) = a + 365 + e
      BY <1>2, <1>3
    <2>. HIDE DEF a, c, l, e, d
    <2>3. /\ a + c + d \in Int
          /\ a < a + c + d /\ a + c < a + c + d
          /\ a + c + d <= a + c + l /\ a + c + d <= a + 365 + e
      BY <2>1
    <2>4. /\ Ordinal(t) \in Int /\ a < Ordinal(t) /\ a + c < Ordinal(t)
          /\ Ordinal(t) <= a + c + l /\ Ordinal(t) <= DaysBeforeYear(y + 1)
      BY <2>2, <2>3
    <2>. QED  BY <2>4 DEF a, c, l
  <1>5. CASE s.frequency = "monthly"
    <2>1. PeriodOf(s, t) = n /\ n \in Int /\ n \div 12 = y /\ (n % 12) + 1 = m
      BY <1>1, <1>5, MonthNumbers DEF PeriodOf
    <2>2. StartOf(s, n) = DaysBeforeYear(y) + DaysBeforeMonth(y, m)
      BY <1>5, <2>1 DEF StartOf
    <2>3. StartOf(s, n + 1) = DaysBeforeYear(y) + DaysBeforeMonth(y, m) + DaysInMonth(y, m)
      <3>1. CASE m < 12
        <4>1. n + 1 = 12 * y + (m + 1) - 1 /\ m + 1 \in 1 .. 12
          BY <1>1, <3>1
        <4>2. (n + 1) \div 12 = y /\ ((n + 1) % 12) + 1 = m + 1
          BY <1>1, <4>1, MonthNumbers
        <4>3. DaysBeforeMonth(y, m + 1) = DaysBeforeMonth(y, m) + DaysInMonth(y, m)
          BY <1>1, <3>1, MonthLength
        <4>4. StartOf(s, n + 1) = DaysBeforeYear(y) + DaysBeforeMonth(y, m + 1)
          BY <1>5, <4>2 DEF StartOf
        <4>. QED  BY <1>2, <4>3, <4>4
      <3>2. CASE m = 12
        <4>1. n + 1 = 12 * (y + 1) + 1 - 1 /\ y + 1 \in Int /\ 1 \in 1 .. 12
          BY <1>1, <3>2
        <4>2. (n + 1) \div 12 = y + 1 /\ ((n + 1) % 12) + 1 = 1
          BY <4>1, MonthNumbers
        <4>3. DaysBeforeMonth(y + 1, 1) = 0
          <5>. DEFINE z == y + 1
          <5>1. z \in Int /\ m \in 1 .. 12
            BY <1>1
          <5>. HIDE DEF z
          <5>2. DaysBeforeMonth(z, 1) = 0
            BY <5>1, MonthLength
          <5>. QED  BY <5>2 DEF z
        <4>5. DaysBeforeMonth(y, m) + DaysInMonth(y, m) = 365 + Leap(y)
          <5>1. DaysBeforeMonth(y, 12) + DaysInMonth(y, 12) = 365 + Leap(y)
            BY <1>1, MonthLength
          <5>. QED  BY <3>2, <5>1
        <4>4. StartOf(s, n + 1) = DaysBeforeYear(y + 1) + DaysBeforeMonth(y + 1, 1)
          BY <1>5, <4>2 DEF StartOf
        <4>. QED  BY <1>2, <4>3, <4>4, <4>5
      <3>. QED  BY <1>1, <3>1, <3>2
    <2>. QED  BY <1>4, <2>1, <2>2, <2>3
  <1>6. CASE s.frequency # "monthly"
    <2>1. PeriodOf(s, t) = y /\ StartOf(s, y) = DaysBeforeYear(y) /\ StartOf(s, y + 1) = DaysBeforeYear(y + 1)
      BY <1>6 DEF PeriodOf, StartOf
    <2>. QED  BY <1>1, <1>4, <2>1
  <1>. QED  BY <1>5, <1>6

----------------------------------------------------------------------------
(* Due dates: one for each period, in the order of the periods             *)

LEMMA ScheduleFields ==
  ASSUME NEW s \in Schedule
  PROVE  /\ s.day \in 1 .. 31 /\ s.frequency \in {"monthly", "annual"}
         /\ s.frequency # "monthly" => s.month \in 1 .. 12
  <1>1. \/ \E day \in 1 .. 31 : s = Monthly(day)
        \/ \E month \in 1 .. 12, day \in 1 .. 31 : s = Annual(month, day)
    BY DEF Schedule
  <1>. QED  BY <1>1 DEF Monthly, Annual

LEMMA InstanceIsDate ==
  ASSUME NEW y \in Int, NEW m \in 1 .. 12, NEW day \in 1 .. 31
  PROVE  /\ InstanceIn(y, m, day) \in CalendarDate
         /\ InstanceIn(y, m, day).y = y /\ InstanceIn(y, m, day).m = m
         /\ InstanceIn(y, m, day).d <= day
         /\ InstanceIn(y, m, day).d = day \/ InstanceIn(y, m, day).d = DaysInMonth(y, m)
  <1>1. DaysInMonth(y, m) \in 28 .. 31
    BY MonthLength
  <1>. DEFINE d == IF day <= DaysInMonth(y, m) THEN day ELSE DaysInMonth(y, m)
  <1>2. d \in 1 .. 31 /\ d <= DaysInMonth(y, m) /\ d <= day /\ (d = day \/ d = DaysInMonth(y, m))
    BY <1>1
  <1>3. InstanceIn(y, m, day) = [y |-> y, m |-> m, d |-> d]
    BY DEF InstanceIn, DateOf
  <1>. HIDE DEF d
  <1>. QED  BY <1>2, <1>3 DEF CalendarDate

LEMMA DueIsDate ==
  ASSUME NEW s \in Schedule, NEW n \in Int
  PROVE  /\ DueIn(s, n) \in CalendarDate /\ Ordinal(DueIn(s, n)) \in Int
         /\ PeriodOf(s, DueIn(s, n)) = n
         /\ StartOf(s, n) < Ordinal(DueIn(s, n)) /\ Ordinal(DueIn(s, n)) <= StartOf(s, n + 1)
  <1>1. DueIn(s, n) \in CalendarDate /\ PeriodOf(s, DueIn(s, n)) = n
    <2>1. CASE s.frequency = "monthly"
      <3>1. DueIn(s, n) = InstanceIn(n \div 12, (n % 12) + 1, s.day)
        BY <2>1 DEF DueIn, InstanceInMonth, Month
      <3>2. PICK a \in Int, b \in 1 .. 12, day \in 1 .. 31 : a = n \div 12 /\ b = (n % 12) + 1 /\ day = s.day
        BY MonthNumbers, ScheduleFields
      <3>3. n = 12 * a + b - 1
        BY <3>2
      <3>4. InstanceIn(a, b, day) \in CalendarDate
        BY InstanceIsDate
      <3>5. InstanceIn(a, b, day).y = a /\ InstanceIn(a, b, day).m = b
        <4>1. InstanceIn(a, b, day).y = a
          BY InstanceIsDate
        <4>2. InstanceIn(a, b, day).m = b
          BY InstanceIsDate
        <4>. QED  BY <4>1, <4>2
      <3>6. PeriodOf(s, InstanceIn(a, b, day)) = 12 * a + b - 1
        BY <2>1, <3>5 DEF PeriodOf
      <3>7. DueIn(s, n) = InstanceIn(a, b, day)
        BY <3>1, <3>2
      <3>. QED  BY <3>3, <3>4, <3>6, <3>7
    <2>2. CASE s.frequency # "monthly"
      <3>1. DueIn(s, n) = InstanceIn(n, s.month, s.day)
        BY <2>2 DEF DueIn, InstanceInYear
      <3>2. DueIn(s, n) \in CalendarDate /\ DueIn(s, n).y = n
        <4>1. s.day \in 1 .. 31 /\ s.month \in 1 .. 12
          BY <2>2, ScheduleFields
        <4>2. /\ InstanceIn(n, s.month, s.day) \in CalendarDate
              /\ InstanceIn(n, s.month, s.day).y = n
          BY <4>1, InstanceIsDate
        <4>. QED  BY <3>1, <4>2
      <3>. QED  BY <2>2, <3>2 DEF PeriodOf
    <2>. QED  BY <2>1, <2>2
  <1>. QED  BY <1>1, DateInPeriod

LEMMA DueDatesInOrder ==
  ASSUME NEW s \in Schedule, NEW n \in Int, NEW k \in Int, n < k
  PROVE  Ordinal(DueIn(s, n)) < Ordinal(DueIn(s, k))
  <1>1. Ordinal(DueIn(s, n)) \in Int /\ Ordinal(DueIn(s, n)) <= StartOf(s, n + 1)
    BY DueIsDate
  <1>2. Ordinal(DueIn(s, k)) \in Int /\ StartOf(s, k) < Ordinal(DueIn(s, k))
    BY DueIsDate
  <1>3. n + 1 \in Int /\ (n + 1 = k \/ n + 1 < k)
    OBVIOUS
  <1>4. StartOf(s, n + 1) \in Int /\ StartOf(s, k) \in Int
    BY <1>3, StartsInOrder
  <1>5. n + 1 < k => StartOf(s, n + 1) < StartOf(s, k)
    BY <1>3, StartsInOrder
  <1>. QED  BY <1>1, <1>2, <1>3, <1>4, <1>5

\* Days are counted on through the months of a year, and through a month.
LEMMA OrderInYear ==
  ASSUME NEW a \in CalendarDate, NEW b \in CalendarDate, a.y = b.y
  PROVE  /\ a.m < b.m => Ordinal(a) <= Ordinal(b)
         /\ a.m = b.m /\ a.d <= b.d => Ordinal(a) <= Ordinal(b)
  <1>1. /\ a.y \in Int /\ a.m \in 1 .. 12 /\ a.d \in 1 .. 31 /\ a.d <= DaysInMonth(a.y, a.m)
        /\ b.m \in 1 .. 12 /\ b.d \in 1 .. 31
    BY DEF CalendarDate
  <1>. DEFINE y == a.y
              m == a.m
              l == b.m
              c == a.d
              d == b.d
  <1>2. /\ y \in Int /\ m \in 1 .. 12 /\ l \in 1 .. 12 /\ c \in 1 .. 31 /\ d \in 1 .. 31
        /\ c <= DaysInMonth(y, m)
    BY <1>1
  <1>3. /\ Ordinal(a) = DaysBeforeYear(y) + DaysBeforeMonth(y, m) + c
        /\ Ordinal(b) = DaysBeforeYear(y) + DaysBeforeMonth(y, l) + d
    BY DEF Ordinal
  <1>. SUFFICES /\ m < l => Ordinal(a) <= Ordinal(b)
                /\ m = l /\ c <= d => Ordinal(a) <= Ordinal(b)
    OBVIOUS
  <1>. HIDE DEF y, m, l, c, d
  <1>. DEFINE Y == DaysBeforeYear(y)
              M == DaysBeforeMonth(y, m)
              L == DaysBeforeMonth(y, l)
              D == DaysInMonth(y, m)
  <1>4. Y \in Int /\ M \in 0 .. 335 /\ L \in 0 .. 335 /\ D \in 28 .. 31
    <2>1. Y \in Int
      BY <1>2, YearLength
    <2>2. D \in 28 .. 31
      BY <1>2, MonthLength
    <2>3. M \in 0 .. 335 /\ L \in 0 .. 335
      BY <1>2, MonthsInOrder
    <2>. QED  BY <2>1, <2>2, <2>3
  <1>5. m < l => M + D <= L
    BY <1>2, MonthsInOrder
  <1>6. m = l => M = L
    OBVIOUS
  <1>7. Ordinal(a) = Y + M + c /\ Ordinal(b) = Y + L + d /\ c <= D
    BY <1>2, <1>3
  <1>. HIDE DEF Y, M, L, D
  <1>. QED  BY <1>2, <1>4, <1>5, <1>6, <1>7

----------------------------------------------------------------------------
(* What the worker and the API compute, as due dates of periods            *)

LEMMA MonthsLaterIsMonth ==
  ASSUME NEW t \in CalendarDate, NEW k \in Int
  PROVE  MonthsLater(t.y, t.m, k) = Month(12 * t.y + t.m - 1 + k)
  <1>1. t.y \in Int /\ t.m \in Int
    BY DEF CalendarDate
  <1>2. t.y * 12 + (t.m - 1) + k = 12 * t.y + t.m - 1 + k
    BY <1>1
  <1>. QED  BY <1>2 DEF MonthsLater, Month

LEMMA PeriodsLater ==
  ASSUME NEW s \in Schedule, NEW t \in CalendarDate, NEW k \in Int
  PROVE  /\ s.frequency = "monthly" => InstanceInMonth(s, MonthsLater(t.y, t.m, k)) = DueIn(s, PeriodOf(s, t) + k)
         /\ s.frequency # "monthly" => InstanceInYear(s, t.y + k) = DueIn(s, PeriodOf(s, t) + k)
  BY MonthsLaterIsMonth DEF DueIn, PeriodOf

LEMMA SamePeriodIsDue ==
  ASSUME NEW s \in Schedule, NEW t \in CalendarDate
  PROVE  SamePeriod(s, t) = DueIn(s, PeriodOf(s, t))
  <1>1. t.y \in Int /\ t.m \in 1 .. 12
    BY DEF CalendarDate
  <1>2. CASE s.frequency = "monthly"
    <2>1. Month(12 * t.y + t.m - 1) = [y |-> t.y, m |-> t.m]
      <3>1. (12 * t.y + t.m - 1) \div 12 = t.y /\ (12 * t.y + t.m - 1) % 12 = t.m - 1
        BY <1>1, MonthNumbers
      <3>2. (t.m - 1) + 1 = t.m
        BY <1>1
      <3>. QED  BY <3>1, <3>2 DEF Month
    <2>. QED  BY <1>2, <2>1 DEF SamePeriod, DueIn, PeriodOf
  <1>3. CASE s.frequency # "monthly"
    BY <1>3 DEF SamePeriod, DueIn, PeriodOf
  <1>. QED  BY <1>2, <1>3

\* The other candidate lies on the other side of the date.
LEMMA AdjacentIsDue ==
  ASSUME NEW s \in Schedule, NEW t \in CalendarDate
  PROVE  \/ Adjacent(s, t) = DueIn(s, PeriodOf(s, t) - 1) /\ Ordinal(t) <= Ordinal(SamePeriod(s, t))
         \/ Adjacent(s, t) = DueIn(s, PeriodOf(s, t) + 1) /\ Ordinal(SamePeriod(s, t)) <= Ordinal(t)
  <1>1. /\ t.y \in Int /\ t.m \in 1 .. 12 /\ t.d \in 1 .. 31 /\ t.d <= DaysInMonth(t.y, t.m)
        /\ s.day \in 1 .. 31 /\ (s.frequency # "monthly" => s.month \in 1 .. 12)
        /\ PeriodOf(s, t) \in Int
    BY ScheduleFields, DateInPeriod DEF CalendarDate
  <1>2. PeriodOf(s, t) + (-1) = PeriodOf(s, t) - 1 /\ t.y + (-1) = t.y - 1 /\ -1 \in Int /\ 1 \in Int
    BY <1>1
  <1>3. DaysInMonth(t.y, t.m) \in 28 .. 31
    BY <1>1, MonthLength
  <1>4. CASE s.frequency = "monthly"
    <2>. DEFINE i == InstanceIn(t.y, t.m, s.day)
    <2>1. SamePeriod(s, t) = i
      BY <1>4 DEF SamePeriod, InstanceInMonth
    <2>2. /\ i \in CalendarDate /\ i.y = t.y /\ i.m = t.m
          /\ i.d <= s.day /\ (i.d = s.day \/ i.d = DaysInMonth(t.y, t.m))
      <3>1. t.y \in Int /\ t.m \in 1 .. 12 /\ s.day \in 1 .. 31
        BY <1>1
      <3>2. InstanceIn(t.y, t.m, s.day) \in CalendarDate
        BY <3>1, InstanceIsDate
      <3>3. InstanceIn(t.y, t.m, s.day).y = t.y /\ InstanceIn(t.y, t.m, s.day).m = t.m
        BY <3>1, InstanceIsDate
      <3>4. /\ InstanceIn(t.y, t.m, s.day).d <= s.day
            /\ \/ InstanceIn(t.y, t.m, s.day).d = s.day
               \/ InstanceIn(t.y, t.m, s.day).d = DaysInMonth(t.y, t.m)
        BY <3>1, InstanceIsDate
      <3>. QED  BY <3>2, <3>3, <3>4
    <2>3. i.d \in Int
      BY <2>2 DEF CalendarDate
    <2>. HIDE DEF i
    <2>4. CASE t.d < s.day
      <3>1. t.d <= i.d
        BY <1>1, <2>2, <2>4
      <3>2. Ordinal(t) <= Ordinal(i)
        BY <2>2, <3>1, OrderInYear
      <3>3. Adjacent(s, t) = InstanceInMonth(s, MonthsLater(t.y, t.m, -1))
        BY <1>4, <2>4 DEF Adjacent
      <3>. QED  BY <1>2, <1>4, <2>1, <3>2, <3>3, PeriodsLater
    <2>5. CASE ~(t.d < s.day)
      <3>1. i.d <= t.d
        BY <1>1, <2>2, <2>3, <2>5
      <3>2. Ordinal(i) <= Ordinal(t)
        BY <2>2, <3>1, OrderInYear
      <3>3. Adjacent(s, t) = InstanceInMonth(s, MonthsLater(t.y, t.m, 1))
        BY <1>4, <2>5 DEF Adjacent
      <3>. QED  BY <1>2, <1>4, <2>1, <3>2, <3>3, PeriodsLater
    <2>. QED  BY <2>4, <2>5
  <1>5. CASE s.frequency # "monthly"
    <2>. DEFINE i == InstanceIn(t.y, s.month, s.day)
    <2>1. SamePeriod(s, t) = i
      BY <1>5 DEF SamePeriod, InstanceInYear
    <2>2. /\ i \in CalendarDate /\ i.y = t.y /\ i.m = s.month
          /\ i.d <= s.day /\ (i.d = s.day \/ i.d = DaysInMonth(t.y, s.month))
      <3>1. t.y \in Int /\ s.month \in 1 .. 12 /\ s.day \in 1 .. 31
        BY <1>1, <1>5
      <3>2. InstanceIn(t.y, s.month, s.day) \in CalendarDate
        BY <3>1, InstanceIsDate
      <3>3. InstanceIn(t.y, s.month, s.day).y = t.y /\ InstanceIn(t.y, s.month, s.day).m = s.month
        BY <3>1, InstanceIsDate
      <3>4. /\ InstanceIn(t.y, s.month, s.day).d <= s.day
            /\ \/ InstanceIn(t.y, s.month, s.day).d = s.day
               \/ InstanceIn(t.y, s.month, s.day).d = DaysInMonth(t.y, s.month)
        BY <3>1, InstanceIsDate
      <3>. QED  BY <3>2, <3>3, <3>4
    <2>3. i.d \in Int
      BY <2>2 DEF CalendarDate
    <2>. HIDE DEF i
    <2>4. CASE t.m < s.month \/ (t.m = s.month /\ t.d < s.day)
      <3>1. t.m < i.m \/ (t.m = i.m /\ t.d <= i.d)
        BY <1>1, <1>5, <2>2, <2>4
      <3>2. Ordinal(t) <= Ordinal(i)
        BY <2>2, <3>1, OrderInYear
      <3>3. Adjacent(s, t) = InstanceInYear(s, t.y + (-1))
        BY <1>2, <1>5, <2>4 DEF Adjacent
      <3>. QED  BY <1>2, <1>5, <2>1, <3>2, <3>3, PeriodsLater
    <2>5. CASE ~(t.m < s.month \/ (t.m = s.month /\ t.d < s.day))
      <3>1. i.m < t.m \/ (i.m = t.m /\ i.d <= t.d)
        BY <1>1, <1>5, <2>2, <2>3, <2>5
      <3>2. Ordinal(i) <= Ordinal(t)
        BY <2>2, <3>1, OrderInYear
      <3>3. Adjacent(s, t) = InstanceInYear(s, t.y + 1)
        BY <1>5, <2>5 DEF Adjacent
      <3>. QED  BY <1>2, <1>5, <2>1, <3>2, <3>3, PeriodsLater
    <2>. QED  BY <2>4, <2>5
  <1>. QED  BY <1>4, <1>5

LEMMA NextIsDue ==
  ASSUME NEW s \in Schedule, NEW n \in Int
  PROVE  NextInstance(s, DueIn(s, n)) = DueIn(s, n + 1)
  <1>. DEFINE i == DueIn(s, n)
  <1>1. i \in CalendarDate /\ PeriodOf(s, i) = n
    BY DueIsDate
  <1>. HIDE DEF i
  <1>2. /\ s.frequency = "monthly" => InstanceInMonth(s, MonthsLater(i.y, i.m, 1)) = DueIn(s, n + 1)
        /\ s.frequency # "monthly" => InstanceInYear(s, i.y + 1) = DueIn(s, n + 1)
    BY <1>1, PeriodsLater
  <1>. QED  BY <1>2 DEF NextInstance, i

\* The due dates of the periods before and after a date's own lie before and after it.
LEMMA NeighboursAround ==
  ASSUME NEW s \in Schedule, NEW t \in CalendarDate
  PROVE  /\ Ordinal(DueIn(s, PeriodOf(s, t) - 1)) < Ordinal(t)
         /\ Ordinal(t) < Ordinal(DueIn(s, PeriodOf(s, t) + 1))
  <1>. DEFINE p == PeriodOf(s, t)
  <1>1. /\ p \in Int /\ Ordinal(t) \in Int /\ p - 1 \in Int /\ p + 1 \in Int
        /\ StartOf(s, p) < Ordinal(t) /\ Ordinal(t) <= StartOf(s, p + 1)
        /\ StartOf(s, p) \in Int /\ StartOf(s, p + 1) \in Int
    BY DateInPeriod, StartsInOrder
  <1>2. /\ Ordinal(DueIn(s, p - 1)) \in Int /\ Ordinal(DueIn(s, p + 1)) \in Int
        /\ StartOf(s, p + 1) < Ordinal(DueIn(s, p + 1))
        /\ Ordinal(DueIn(s, p - 1)) <= StartOf(s, (p - 1) + 1)
    BY <1>1, DueIsDate
  <1>3. (p - 1) + 1 = p
    BY <1>1
  <1>. HIDE DEF p
  <1>4. Ordinal(DueIn(s, p - 1)) <= StartOf(s, p)
    BY <1>2, <1>3
  <1>5. Ordinal(DueIn(s, p - 1)) < Ordinal(t) /\ Ordinal(t) < Ordinal(DueIn(s, p + 1))
    BY <1>1, <1>2, <1>4
  <1>. QED  BY <1>5 DEF p

\* Around any date there is a period whose due date has passed while the next
\* one's has not; the API's due date is that one's.
LatestPeriod(s, t) == IF NotAfter(SamePeriod(s, t), t) THEN PeriodOf(s, t) ELSE PeriodOf(s, t) - 1

LEMMA LatestIsDue ==
  ASSUME NEW s \in Schedule, NEW t \in CalendarDate
  PROVE  /\ LatestPeriod(s, t) \in Int
         /\ LatestInstance(s, t) = DueIn(s, LatestPeriod(s, t))
         /\ Ordinal(DueIn(s, LatestPeriod(s, t))) <= Ordinal(t)
         /\ Ordinal(t) < Ordinal(DueIn(s, LatestPeriod(s, t) + 1))
  <1>. DEFINE p == PeriodOf(s, t)
  <1>1. /\ p \in Int /\ Ordinal(t) \in Int /\ p - 1 \in Int /\ (p - 1) + 1 = p
        /\ Ordinal(DueIn(s, p)) \in Int
    BY DateInPeriod, DueIsDate
  <1>2. SamePeriod(s, t) = DueIn(s, p)
    BY SamePeriodIsDue
  <1>3. Ordinal(DueIn(s, p - 1)) < Ordinal(t) /\ Ordinal(t) < Ordinal(DueIn(s, p + 1))
    BY NeighboursAround
  <1>4. Ordinal(DueIn(s, p - 1)) \in Int
    BY <1>1, DueIsDate
  <1>. HIDE DEF p
  <1>5. CASE NotAfter(SamePeriod(s, t), t)
    <2>1. LatestPeriod(s, t) = p /\ LatestInstance(s, t) = DueIn(s, p)
      BY <1>2, <1>5 DEF LatestPeriod, LatestInstance, p
    <2>2. Ordinal(DueIn(s, p)) <= Ordinal(t)
      BY <1>2, <1>5 DEF NotAfter
    <2>. QED  BY <1>1, <1>3, <2>1, <2>2
  <1>6. CASE ~NotAfter(SamePeriod(s, t), t)
    <2>1. LatestPeriod(s, t) = p - 1
      BY <1>6 DEF LatestPeriod, p
    <2>2. LatestInstance(s, t) = DueIn(s, p - 1)
      <3>1. t.y + (-1) = t.y - 1 /\ p + (-1) = p - 1 /\ -1 \in Int
        BY <1>1 DEF CalendarDate
      <3>. QED  BY <1>6, <3>1, PeriodsLater DEF LatestInstance, p
    <2>3. Ordinal(DueIn(s, p - 1)) <= Ordinal(t)
      BY <1>1, <1>3, <1>4
    <2>4. Ordinal(t) < Ordinal(DueIn(s, p))
      BY <1>1, <1>2, <1>6 DEF NotAfter
    <2>. QED  BY <1>1, <2>1, <2>2, <2>3, <2>4
  <1>. QED  BY <1>5, <1>6

\* The due dates looked at are those of the periods around the date's own.
Reach(s) == IF s.frequency = "monthly" THEN -3 .. 3 ELSE -2 .. 2

LEMMA InstancesAreDue ==
  ASSUME NEW s \in Schedule, NEW t \in CalendarDate
  PROVE  /\ \A i \in Instances(s, t) : \E n \in Int : i = DueIn(s, n)
         /\ \A k \in -1 .. 1 : DueIn(s, PeriodOf(s, t) + k) \in Instances(s, t)
  <1>1. t.y \in Int /\ PeriodOf(s, t) \in Int
    BY DateInPeriod DEF CalendarDate
  <1>2. CASE s.frequency = "monthly"
    <2>1. Instances(s, t) = {InstanceInMonth(s, MonthsLater(t.y, t.m, k)) : k \in -3 .. 3}
      BY <1>2 DEF Instances
    <2>2. \A k \in Int : InstanceInMonth(s, MonthsLater(t.y, t.m, k)) = DueIn(s, PeriodOf(s, t) + k)
      BY <1>2, PeriodsLater
    <2>3. \A k \in -3 .. 3 : PeriodOf(s, t) + k \in Int
      BY <1>1
    <2>. QED  BY <2>1, <2>2, <2>3
  <1>3. CASE s.frequency # "monthly"
    <2>1. Instances(s, t) = {InstanceInYear(s, y) : y \in t.y - 2 .. t.y + 2}
      BY <1>3 DEF Instances
    <2>2. \A y \in Int : InstanceInYear(s, y) = DueIn(s, y)
      BY <1>3 DEF DueIn
    <2>3. PeriodOf(s, t) = t.y
      BY <1>3 DEF PeriodOf
    <2>4. \A k \in -1 .. 1 : t.y + k \in t.y - 2 .. t.y + 2
      BY <1>1
    <2>. QED  BY <1>1, <2>1, <2>2, <2>3, <2>4
  <1>. QED  BY <1>2, <1>3

\* Due dates compare as their periods do.
LEMMA DueDatesCompare ==
  ASSUME NEW s \in Schedule, NEW n \in Int, NEW k \in Int
  PROVE  /\ Ordinal(DueIn(s, n)) \in Int
         /\ n <= k => Ordinal(DueIn(s, n)) <= Ordinal(DueIn(s, k))
         /\ Ordinal(DueIn(s, n)) <= Ordinal(DueIn(s, k)) => n <= k
  <1>1. Ordinal(DueIn(s, n)) \in Int /\ Ordinal(DueIn(s, k)) \in Int
    BY DueIsDate
  <1>2. n < k => Ordinal(DueIn(s, n)) < Ordinal(DueIn(s, k))
    BY DueDatesInOrder
  <1>3. k < n => Ordinal(DueIn(s, k)) < Ordinal(DueIn(s, n))
    BY DueDatesInOrder
  <1>. QED  BY <1>1, <1>2, <1>3

\* The worker's due date is one of some period, and the nearest of all: the ones
\* further away than the two next to a date lie behind these.
LEMMA NearestIsDue ==
  ASSUME NEW s \in Schedule, NEW t \in CalendarDate
  PROVE  \E n \in Int : NearestInstance(s, t) = DueIn(s, n)
  <1>1. PeriodOf(s, t) \in Int
    BY DateInPeriod
  <1>2. SamePeriod(s, t) = DueIn(s, PeriodOf(s, t))
    BY SamePeriodIsDue
  <1>3. \E n \in Int : Adjacent(s, t) = DueIn(s, n)
    <2>1. PeriodOf(s, t) - 1 \in Int /\ PeriodOf(s, t) + 1 \in Int
      BY <1>1
    <2>. QED  BY <2>1, AdjacentIsDue
  <1>4. NearestInstance(s, t) = SamePeriod(s, t) \/ NearestInstance(s, t) = Adjacent(s, t)
    BY DEF NearestInstance
  <1>. QED  BY <1>1, <1>2, <1>3, <1>4

LEMMA NearestIsNearest ==
  ASSUME NEW s \in Schedule, NEW t \in CalendarDate
  PROVE  NearestOfAll(s, t)
  <1>. DEFINE p == PeriodOf(s, t)
              o == Ordinal(t)
              a == Ordinal(SamePeriod(s, t))
              b == Ordinal(Adjacent(s, t))
  <1>1. p \in Int /\ o \in Int /\ SamePeriod(s, t) = DueIn(s, p)
    BY DateInPeriod, SamePeriodIsDue
  <1>2. NearestInstance(s, t) \in Instances(s, t)
    <2>1. DueIn(s, p + 0) \in Instances(s, t) /\ DueIn(s, p + 1) \in Instances(s, t) /\ DueIn(s, p + (-1)) \in Instances(s, t)
      <3>1. 0 \in -1 .. 1 /\ 1 \in -1 .. 1 /\ -1 \in -1 .. 1
        OBVIOUS
      <3>. QED  BY <3>1, InstancesAreDue
    <2>2. p + 0 = p /\ p + (-1) = p - 1
      BY <1>1
    <2>. QED  BY <1>1, <2>1, <2>2, AdjacentIsDue DEF NearestInstance
  <1>3. ASSUME NEW i \in Instances(s, t)
        PROVE  DaysBetween(t, NearestInstance(s, t)) <= DaysBetween(t, i)
    <2>1. PICK k \in Int : i = DueIn(s, k)
      BY InstancesAreDue
    <2>. DEFINE c == Ordinal(i)
    <2>2. a \in Int /\ c \in Int /\ (k <= p => c <= a) /\ (p <= k => a <= c)
      BY <1>1, <2>1, DueDatesCompare
    <2>3. DaysBetween(t, NearestInstance(s, t)) \in Int /\ DaysBetween(t, i) \in Int
          /\ DaysBetween(t, SamePeriod(s, t)) \in Int /\ DaysBetween(t, Adjacent(s, t)) \in Int
      <3>1. b \in Int
        <4>1. p - 1 \in Int /\ p + 1 \in Int
          BY <1>1
        <4>. QED  BY <4>1, AdjacentIsDue, DueIsDate
      <3>2. o - a \in Int /\ a - o \in Int /\ o - b \in Int /\ b - o \in Int /\ o - c \in Int /\ c - o \in Int
        BY <1>1, <2>2, <3>1
      <3>. QED  BY <3>2 DEF DaysBetween, NearestInstance
    <2>4. /\ DaysBetween(t, NearestInstance(s, t)) <= DaysBetween(t, SamePeriod(s, t))
          /\ DaysBetween(t, NearestInstance(s, t)) <= DaysBetween(t, Adjacent(s, t))
      BY <2>3 DEF NearestInstance
    <2>5. DaysBetween(t, SamePeriod(s, t)) <= DaysBetween(t, i) \/ DaysBetween(t, Adjacent(s, t)) <= DaysBetween(t, i)
      <3>1. CASE Adjacent(s, t) = DueIn(s, p - 1) /\ o <= a
        <4>1. b \in Int /\ (k <= p - 1 => c <= b) /\ b < a /\ b < o
          <5>1. p - 1 \in Int /\ p - 1 < p
            BY <1>1
          <5>. QED  BY <1>1, <2>1, <3>1, <5>1, DueDatesCompare, DueDatesInOrder, NeighboursAround
        <4>2. k <= p - 1 \/ p <= k
          BY <1>1, <2>1
        <4>3. CASE p <= k
          <5>1. o <= a /\ a <= c
            BY <2>2, <3>1, <4>3
          <5>. QED  BY <1>1, <2>2, <5>1 DEF DaysBetween
        <4>4. CASE k <= p - 1
          <5>1. c <= b /\ b < a /\ o <= a
            BY <3>1, <4>1, <4>4
          <5>. HIDE DEF a, b, c, o
          <5>2. (IF o >= b THEN o - b ELSE b - o) <= (IF o >= c THEN o - c ELSE c - o)
            BY <1>1, <2>2, <4>1, <5>1
          <5>. QED  BY <5>2 DEF DaysBetween, a, b, c, o
        <4>. QED  BY <4>2, <4>3, <4>4
      <3>2. CASE Adjacent(s, t) = DueIn(s, p + 1) /\ a <= o
        <4>1. b \in Int /\ (p + 1 <= k => b <= c) /\ a < b /\ o < b
          <5>1. p + 1 \in Int /\ p < p + 1
            BY <1>1
          <5>. QED  BY <1>1, <2>1, <3>2, <5>1, DueDatesCompare, DueDatesInOrder, NeighboursAround
        <4>2. k <= p \/ p + 1 <= k
          BY <1>1, <2>1
        <4>3. CASE k <= p
          <5>1. a <= o /\ c <= a
            BY <2>2, <3>2, <4>3
          <5>. QED  BY <1>1, <2>2, <5>1 DEF DaysBetween
        <4>4. CASE p + 1 <= k
          <5>1. b <= c /\ a < b /\ a <= o
            BY <3>2, <4>1, <4>4
          <5>. HIDE DEF a, b, c, o
          <5>2. (IF o >= b THEN o - b ELSE b - o) <= (IF o >= c THEN o - c ELSE c - o)
            BY <1>1, <2>2, <4>1, <5>1
          <5>. QED  BY <5>2 DEF DaysBetween, a, b, c, o
        <4>. QED  BY <4>2, <4>3, <4>4
      <3>. QED  BY <3>1, <3>2, AdjacentIsDue
    <2>. HIDE DEF c
    <2>. QED  BY <2>3, <2>4, <2>5
  <1>. QED  BY <1>2, <1>3 DEF NearestOfAll

LEMMA LatestIsLatest ==
  ASSUME NEW s \in Schedule, NEW t \in CalendarDate
  PROVE  LatestOfAll(s, t)
  <1>. DEFINE n == LatestPeriod(s, t)
  <1>1. /\ n \in Int /\ n + 1 \in Int /\ LatestInstance(s, t) = DueIn(s, n) /\ Ordinal(t) \in Int
        /\ Ordinal(DueIn(s, n)) <= Ordinal(t) /\ Ordinal(t) < Ordinal(DueIn(s, n + 1))
    BY LatestIsDue, DateInPeriod
  <1>. HIDE DEF n
  <1>2. NextInstance(s, LatestInstance(s, t)) = DueIn(s, n + 1)
    BY <1>1, NextIsDue
  <1>3. Ordinal(DueIn(s, n)) \in Int /\ Ordinal(DueIn(s, n + 1)) \in Int
    BY <1>1, DueIsDate
  <1>4. ASSUME NEW i \in Instances(s, t)
        PROVE  /\ NotAfter(i, t) => NotAfter(i, DueIn(s, n))
               /\ ~NotAfter(i, t) => NotAfter(DueIn(s, n + 1), i)
    <2>1. PICK k \in Int : i = DueIn(s, k)
      BY InstancesAreDue
    <2>2. Ordinal(i) \in Int /\ (k <= n => Ordinal(i) <= Ordinal(DueIn(s, n)))
          /\ (n + 1 <= k => Ordinal(DueIn(s, n + 1)) <= Ordinal(i))
      BY <1>1, <2>1, DueDatesCompare
    <2>3. k <= n \/ n + 1 <= k
      BY <1>1, <2>1
    <2>. QED  BY <1>1, <1>3, <2>2, <2>3 DEF NotAfter
  <1>. QED  BY <1>1, <1>2, <1>3, <1>4 DEF LatestOfAll, NotAfter

\* The period of a due date that has passed while the next one has not is the
\* latest: the services agree on it.
LEMMA SameCycle ==
  ASSUME NEW s \in Schedule, NEW t \in CalendarDate, NEW n \in Int,
         Ordinal(DueIn(s, n)) <= Ordinal(t), Ordinal(t) < Ordinal(DueIn(s, n + 1))
  PROVE  LatestInstance(s, t) = DueIn(s, n)
  <1>. DEFINE k == LatestPeriod(s, t)
  <1>1. /\ k \in Int /\ k + 1 \in Int /\ n + 1 \in Int /\ LatestInstance(s, t) = DueIn(s, k)
        /\ Ordinal(t) \in Int
        /\ Ordinal(DueIn(s, k)) <= Ordinal(t) /\ Ordinal(t) < Ordinal(DueIn(s, k + 1))
    BY LatestIsDue, DateInPeriod
  <1>. HIDE DEF k
  <1>2. /\ Ordinal(DueIn(s, n)) \in Int /\ Ordinal(DueIn(s, n + 1)) \in Int
        /\ Ordinal(DueIn(s, k)) \in Int /\ Ordinal(DueIn(s, k + 1)) \in Int
    BY <1>1, DueIsDate
  <1>3. n + 1 <= k => Ordinal(DueIn(s, n + 1)) <= Ordinal(DueIn(s, k))
    BY <1>1, DueDatesCompare
  <1>4. k + 1 <= n => Ordinal(DueIn(s, k + 1)) <= Ordinal(DueIn(s, n))
    BY <1>1, DueDatesCompare
  <1>5. ~(n + 1 <= k)
    BY <1>1, <1>2, <1>3
  <1>6. ~(k + 1 <= n)
    BY <1>1, <1>2, <1>4
  <1>7. k = n
    BY <1>1, <1>5, <1>6
  <1>. QED  BY <1>1, <1>7

LEMMA CopiesDoAgree ==
  ASSUME NEW s \in Schedule, NEW t \in CalendarDate, NEW today \in CalendarDate
  PROVE  CopiesAgree(s, t, today)
  <1>. DEFINE due == NearestInstance(s, t)
              cycles == {CyclePeriod(s, i) : i \in Instances(s, t)}
              unsettled == [c \in cycles |-> "none"]
              settled == [unsettled EXCEPT ![CyclePeriod(s, due)] = "auto_applied"]
  <1>1. PICK n \in Int : due = DueIn(s, n)
    BY NearestIsDue
  <1>2. CyclePeriod(s, due) \in cycles
    BY NearestIsNearest DEF NearestOfAll
  <1>3. unsettled[CyclePeriod(s, due)] = "none" /\ settled[CyclePeriod(s, due)] = "auto_applied"
    BY <1>2
  <1>. HIDE DEF unsettled, settled
  <1>4. ASSUME NotAfter(due, today), ~NotAfter(NextInstance(s, due), today)
        PROVE  /\ StatusOn(s, today, settled, 0) # "overdue"
               /\ StatusOn(s, today, unsettled, 0) = "overdue" <=> today # due
    <2>1. NextInstance(s, due) = DueIn(s, n + 1)
      BY <1>1, NextIsDue
    <2>2. Ordinal(DueIn(s, n)) <= Ordinal(today)
      BY <1>1, <1>4 DEF NotAfter
    <2>3. Ordinal(today) < Ordinal(DueIn(s, n + 1))
      <3>1. n + 1 \in Int /\ Ordinal(today) \in Int
        BY <1>1, DateInPeriod
      <3>2. Ordinal(DueIn(s, n + 1)) \in Int
        BY <3>1, DueIsDate
      <3>. QED  BY <1>4, <2>1, <3>1, <3>2 DEF NotAfter
    <2>4. LatestInstance(s, today) = due
      BY <1>1, <2>2, <2>3, SameCycle
    <2>. HIDE DEF due
    <2>5. StatusOn(s, today, settled, 0) \in {"due_soon", "paid"}
      BY <1>3, <2>4 DEF StatusOn
    <2>6. StatusOn(s, today, unsettled, 0) = IF due # today THEN "overdue" ELSE "due_soon"
      BY <1>3, <2>4 DEF StatusOn
    <2>. QED  BY <2>5, <2>6
  <1>5. CopiesAgree(s, t, today) <=>
           (NotAfter(due, today) /\ ~NotAfter(NextInstance(s, due), today)
            => /\ StatusOn(s, today, settled, 0) # "overdue"
               /\ StatusOn(s, today, unsettled, 0) = "overdue" <=> today # due)
    BY DEF CopiesAgree, settled, unsettled
  <1>. QED  BY <1>4, <1>5

----------------------------------------------------------------------------
(* Induction over numbers and over finite sets                             *)

\* A set of numbers has a least one.
LEMMA LeastNumber ==
  ASSUME NEW T \in SUBSET Nat, T # {}
  PROVE  \E x \in T : \A y \in T : x <= y
  <1>1. IsWellFoundedOn(OpToRel(<, Nat), Nat)
    BY NatLessThanWellFounded, Zenon
  <1>2. PICK x \in T : \A y \in T : ~ (<<y, x>> \in OpToRel(<, Nat))
    BY <1>1, WFMin, Zenon
  <1>3. \A y \in T : ~ (y < x)
    BY <1>2, Zenon DEF OpToRel
  <1>. QED  BY <1>3

\* A set that contains 0 and the successor of each member is all of them.
LEMMA Numbers ==
  ASSUME NEW T \in SUBSET Nat, 0 \in T, \A n \in T : n + 1 \in T
  PROVE  T = Nat
  <1>1. SUFFICES ASSUME Nat \ T # {} PROVE FALSE
    OBVIOUS
  <1>2. PICK n \in Nat \ T : \A k \in Nat \ T : n <= k
    BY <1>1, LeastNumber
  <1>3. n - 1 \in T
    BY <1>2
  <1>. QED  BY <1>2, <1>3

\* A collection of finite sets is everything when it has every set that it has
\* without any one of its members.
LEMMA SetsBySize ==
  ASSUME NEW S, IsFiniteSet(S), NEW C,
         \A s \in SUBSET S : (\A x \in s : s \ {x} \in C) => s \in C
  PROVE  S \in C
  <1>. DEFINE T == {n \in Nat : \A s \in SUBSET S : Cardinality(s) = n => s \in C}
  <1>1. \A s \in SUBSET S : IsFiniteSet(s) /\ Cardinality(s) \in Nat
    BY FS_Subset, FS_CardinalityType
  <1>2. 0 \in T
    BY <1>1, FS_EmptySet
  <1>3. ASSUME NEW n \in T PROVE n + 1 \in T
    <2>1. SUFFICES ASSUME NEW s \in SUBSET S, Cardinality(s) = n + 1 PROVE s \in C
      BY <1>3
    <2>2. ASSUME NEW x \in s PROVE s \ {x} \in C
      <3>1. Cardinality(s \ {x}) = n
        BY <1>1, <1>3, <2>1, FS_RemoveElement
      <3>. QED  BY <1>3, <3>1
    <2>. QED  BY <2>2
  <1>4. T = Nat
    <2>0. T \subseteq Nat
      OBVIOUS
    <2>. HIDE DEF T
    <2>. QED  BY <2>0, <1>2, <1>3, Numbers
  <1>5. Cardinality(S) \in T
    BY <1>1, <1>4
  <1>. QED  BY <1>5

----------------------------------------------------------------------------
(* Sums over finite sets                                                   *)

\* The recursive function of a sum, and what it is defined to be.
Pick(s) == CHOOSE x \in s : TRUE
IsSums(F, S, g) == g = [s \in SUBSET S |-> IF s = {} THEN 0 ELSE F[Pick(s)] + g[s \ {Pick(s)}]]
Sums(F, S) == CHOOSE g : IsSums(F, S, g)

LEMMA PickIn == \A s : s # {} => Pick(s) \in s
  BY DEF Pick

LEMMA SumIsSums ==
  ASSUME NEW F, NEW S
  PROVE  SumFunctionOnSet(F, S) = Sums(F, S)[S]
  BY Zenon DEF SumFunctionOnSet, FoldFunctionOnSet, MapThenFoldSet, Sums, IsSums, Pick

LEMMA SumsAgree ==
  ASSUME NEW F, NEW S, IsFiniteSet(S), NEW R \in SUBSET S, NEW g, NEW h, IsSums(F, S, g), IsSums(F, R, h)
  PROVE  h[R] = g[R]
  <1>. DEFINE C == {s \in SUBSET R : h[s] = g[s]}
  <1>0. \A s \in SUBSET R : /\ h[s] = IF s = {} THEN 0 ELSE F[Pick(s)] + h[s \ {Pick(s)}]
                            /\ g[s] = IF s = {} THEN 0 ELSE F[Pick(s)] + g[s \ {Pick(s)}]
    BY DEF IsSums
  <1>1. ASSUME NEW s \in SUBSET R, \A x \in s : s \ {x} \in C
        PROVE  s \in C
    <2>1. CASE s = {}
      BY <1>0, <2>1
    <2>2. CASE s # {}
      <3>1. s \ {Pick(s)} \in C
        BY <1>1, <2>2, PickIn
      <3>2. h[s \ {Pick(s)}] = g[s \ {Pick(s)}]
        BY <3>1
      <3>. QED  BY <1>0, <2>2, <3>2
    <2>. QED  BY <2>1, <2>2
  <1>2. IsFiniteSet(R)
    BY FS_Subset
  <1>3. R \in C
    <2>. HIDE DEF C
    <2>. QED  BY <1>1, <1>2, SetsBySize
  <1>. QED  BY <1>3

LEMMA SumsExist ==
  ASSUME NEW S, IsFiniteSet(S), NEW F, \A x \in S : F[x] \in Int
  PROVE  \E g \in [SUBSET S -> Int] : IsSums(F, S, g)
  <1>. DEFINE G(r) == CHOOSE g : g \in [SUBSET r -> Int] /\ IsSums(F, r, g)
              Good(r) == \E g \in [SUBSET r -> Int] : IsSums(F, r, g)
              C == {s \in SUBSET S : \A r \in SUBSET s : Good(r)}
  <1>1. ASSUME NEW s \in SUBSET S, \A x \in s : s \ {x} \in C
        PROVE  s \in C
    <2>1. ASSUME NEW q \in SUBSET s, q # s
          PROVE  /\ G(q) \in [SUBSET q -> Int] /\ IsSums(F, q, G(q))
                 /\ \A r \in SUBSET q : G(r) \in [SUBSET r -> Int] /\ IsSums(F, r, G(r))
      <3>1. PICK x \in s : q \subseteq s \ {x}
        BY <2>1
      <3>2. \A r \in SUBSET q : Good(r)
        BY <1>1, <3>1
      <3>. HIDE DEF Good
      <3>3. ASSUME NEW r \in SUBSET q PROVE G(r) \in [SUBSET r -> Int] /\ IsSums(F, r, G(r))
        <4>1. \E g : g \in [SUBSET r -> Int] /\ IsSums(F, r, g)
          BY <3>2 DEF Good
        <4>. QED  BY <4>1, Zenon
      <3>. QED  BY <3>3
    <2>. DEFINE V(q) == G(q)[q]
                h == [r \in SUBSET s |-> IF r = {} THEN 0 ELSE F[Pick(r)] + V(r \ {Pick(r)})]
    <2>. HIDE DEF G
    <2>2. ASSUME NEW q \in SUBSET s, q # s
          PROVE  V(q) \in Int /\ V(q) = IF q = {} THEN 0 ELSE F[Pick(q)] + V(q \ {Pick(q)})
      <3>1. V(q) \in Int
        BY <2>1, <2>2
      <3>2. V(q) = IF q = {} THEN 0 ELSE F[Pick(q)] + G(q)[q \ {Pick(q)}]
        BY <2>1, <2>2 DEF IsSums
      <3>3. G(q)[q \ {Pick(q)}] = V(q \ {Pick(q)})
        <4>1. IsFiniteSet(q) /\ q \ {Pick(q)} \in SUBSET q
          BY FS_Subset
        <4>2. IsSums(F, q, G(q)) /\ IsSums(F, q \ {Pick(q)}, G(q \ {Pick(q)}))
          BY <2>1, <2>2, <4>1
        <4>. QED  BY <4>1, <4>2, SumsAgree
      <3>. QED  BY <3>1, <3>2, <3>3
    <2>3. ASSUME NEW r \in SUBSET s
          PROVE  h[r] \in Int /\ h[r] = IF r = {} THEN 0 ELSE F[Pick(r)] + h[r \ {Pick(r)}]
      <3>1. CASE r = {}
        BY <3>1
      <3>2. CASE r # {}
        <4>. DEFINE q == r \ {Pick(r)}
        <4>1. q \in SUBSET s /\ q # s /\ Pick(r) \in S
          BY <3>2, PickIn
        <4>2. h[r] = F[Pick(r)] + V(q) /\ F[Pick(r)] \in Int
          BY <3>2, <4>1
        <4>. HIDE DEF V
        <4>3. h[q] = IF q = {} THEN 0 ELSE F[Pick(q)] + V(q \ {Pick(q)})
          BY <4>1
        <4>4. h[q] = V(q) /\ V(q) \in Int
          BY <2>2, <4>1, <4>3
        <4>. QED  BY <3>2, <4>2, <4>4
      <3>. QED  BY <3>1, <3>2
    <2>4. h \in [SUBSET s -> Int] /\ IsSums(F, s, h)
      <3>1. h = [r \in SUBSET s |-> h[r]]
        OBVIOUS
      <3>. HIDE DEF h
      <3>. QED  BY <2>3, <3>1 DEF IsSums
    <2>5. Good(s)
      <3>. HIDE DEF h
      <3>. QED  BY <2>4
    <2>6. \A r \in SUBSET s : r # s => Good(r)
      BY <2>1
    <2>. HIDE DEF Good
    <2>. QED  BY <2>5, <2>6
  <1>2. S \in C
    <2>. HIDE DEF C
    <2>. QED  BY <1>1, SetsBySize
  <1>. QED  BY <1>2

\* A sum is an integer, 0 over no index, and one index more than it is without it.
Summable(F, S) == IsFiniteSet(S) /\ \A x \in S : F[x] \in Int

LEMMA SumUnfolds ==
  ASSUME NEW F, NEW S, Summable(F, S)
  PROVE  /\ SumFunctionOnSet(F, S) \in Int
         /\ SumFunctionOnSet(F, S) = IF S = {} THEN 0 ELSE F[Pick(S)] + SumFunctionOnSet(F, S \ {Pick(S)})
  <1>1. ASSUME NEW R \in SUBSET S
        PROVE  Sums(F, R) \in [SUBSET R -> Int] /\ IsSums(F, R, Sums(F, R))
    <2>1. IsFiniteSet(R) /\ \A x \in R : F[x] \in Int
      BY FS_Subset DEF Summable
    <2>2. PICK g \in [SUBSET R -> Int] : IsSums(F, R, g)
      BY <2>1, SumsExist
    <2>3. IsSums(F, R, Sums(F, R))
      BY <2>2, Zenon DEF Sums
    <2>4. ASSUME NEW r \in SUBSET R PROVE Sums(F, R)[r] = g[r]
      <3>1. IsFiniteSet(r) /\ \A x \in r : F[x] \in Int
        BY <2>1, FS_Subset
      <3>2. PICK h \in [SUBSET r -> Int] : IsSums(F, r, h)
        BY <3>1, SumsExist
      <3>3. h[r] = g[r] /\ h[r] = Sums(F, R)[r]
        BY <2>1, <2>2, <2>3, <3>2, SumsAgree
      <3>. QED  BY <3>3
    <2>5. Sums(F, R) = [r \in SUBSET R |-> Sums(F, R)[r]]
      BY <2>3 DEF IsSums
    <2>. QED  BY <2>2, <2>3, <2>4, <2>5
  <1>2. Sums(F, S) \in [SUBSET S -> Int] /\ IsSums(F, S, Sums(F, S))
    BY <1>1
  <1>3. CASE S = {}
    BY <1>2, <1>3, SumIsSums DEF IsSums
  <1>4. CASE S # {}
    <2>. DEFINE R == S \ {Pick(S)}
    <2>1. Sums(F, S)[S] = F[Pick(S)] + Sums(F, S)[R]
      BY <1>2, <1>4 DEF IsSums
    <2>2. Sums(F, R)[R] = Sums(F, S)[R]
      <3>1. R \in SUBSET S /\ IsFiniteSet(S)
        BY DEF Summable
      <3>. HIDE DEF R
      <3>2. IsSums(F, S, Sums(F, S)) /\ IsSums(F, R, Sums(F, R))
        BY <1>1, <3>1
      <3>. QED  BY <3>1, <3>2, SumsAgree
    <2>. QED  BY <1>2, <1>4, <2>1, <2>2, SumIsSums
  <1>. QED  BY <1>3, <1>4

LEMMA SumWithout ==
  ASSUME NEW F, NEW S, Summable(F, S), NEW x \in S
  PROVE  SumFunctionOnSet(F, S) = F[x] + SumFunctionOnSet(F, S \ {x})
  <1>. DEFINE Sum(s) == SumFunctionOnSet(F, s)
              C == {s \in SUBSET S : \A y \in s : Sum(s) = F[y] + Sum(s \ {y})}
  <1>0. \A s \in SUBSET S : Summable(F, s)
    BY FS_Subset DEF Summable
  <1>1. \A s \in SUBSET S : Sum(s) \in Int /\ Sum(s) = IF s = {} THEN 0 ELSE F[Pick(s)] + Sum(s \ {Pick(s)})
    BY <1>0, SumUnfolds
  <1>2. \A y \in S : F[y] \in Int
    BY DEF Summable
  <1>. HIDE DEF Sum
  <1>3. ASSUME NEW s \in SUBSET S, \A y \in s : s \ {y} \in C
        PROVE  s \in C
    <2>1. SUFFICES ASSUME NEW y \in s PROVE Sum(s) = F[y] + Sum(s \ {y})
      OBVIOUS
    <2>. DEFINE p == Pick(s)
    <2>2. p \in s /\ Sum(s) = F[p] + Sum(s \ {p})
      BY <1>1, PickIn
    <2>. HIDE DEF p
    <2>3. CASE y = p
      BY <2>2, <2>3
    <2>4. CASE y # p
      <3>1. Sum(s \ {p}) = F[y] + Sum((s \ {p}) \ {y})
        BY <1>3, <2>2, <2>4
      <3>2. Sum(s \ {y}) = F[p] + Sum((s \ {y}) \ {p})
        BY <1>3, <2>2, <2>4
      <3>3. (s \ {p}) \ {y} = (s \ {y}) \ {p}
        OBVIOUS
      <3>4. Sum((s \ {y}) \ {p}) \in Int /\ F[y] \in Int /\ F[p] \in Int
        BY <1>1, <1>2, <2>2
      <3>5. Sum(s) = F[p] + (F[y] + Sum((s \ {y}) \ {p}))
        BY <2>2, <3>1, <3>3
      <3>6. F[p] + (F[y] + Sum((s \ {y}) \ {p})) = F[y] + (F[p] + Sum((s \ {y}) \ {p}))
        BY <3>4
      <3>. QED  BY <3>2, <3>5, <3>6
    <2>. QED  BY <2>3, <2>4
  <1>4. S \in C
    <2>. HIDE DEF C
    <2>. QED  BY <1>3, SetsBySize DEF Summable
  <1>. QED  BY <1>4 DEF Sum

\* The sum over two sets without a common index is the sum of the two.
LEMMA SumOfBoth ==
  ASSUME NEW F, NEW S, NEW R, Summable(F, S), Summable(F, R), S \cap R = {}
  PROVE  SumFunctionOnSet(F, S \cup R) = SumFunctionOnSet(F, S) + SumFunctionOnSet(F, R)
  <1>. DEFINE Sum(s) == SumFunctionOnSet(F, s)
              C == {r \in SUBSET R : Sum(S \cup r) = Sum(S) + Sum(r)}
  <1>1. ASSUME NEW r \in SUBSET R PROVE Summable(F, r) /\ Summable(F, S \cup r)
    <2>1. IsFiniteSet(r) /\ IsFiniteSet(S \cup r)
      BY FS_Subset, FS_Union DEF Summable
    <2>. QED  BY <2>1 DEF Summable
  <1>2. \A r \in SUBSET R : Sum(r) \in Int /\ Sum(S \cup r) \in Int
    BY <1>1, SumUnfolds
  <1>3. Sum(S) \in Int /\ Sum({}) = 0
    BY <1>1, SumUnfolds
  <1>4. ASSUME NEW r \in SUBSET R, \A y \in r : r \ {y} \in C
        PROVE  r \in C
    <2>1. CASE r = {}
      <3>1. S \cup r = S
        BY <2>1
      <3>. QED  BY <1>3, <2>1, <3>1
    <2>2. CASE r # {}
      <3>1. PICK y \in r : TRUE
        BY <2>2
      <3>2. Sum(r) = F[y] + Sum(r \ {y})
        <4>1. Summable(F, r)
          BY <1>1
        <4>. HIDE DEF C
        <4>. QED  BY <3>1, <4>1, SumWithout
      <3>3. Sum(S \cup r) = F[y] + Sum((S \cup r) \ {y})
        BY <1>1, <3>1, SumWithout
      <3>4. (S \cup r) \ {y} = S \cup (r \ {y})
        BY <3>1
      <3>5. F[y] \in Int
        BY <3>1 DEF Summable
      <3>. HIDE DEF Sum
      <3>6. Sum(S \cup (r \ {y})) = Sum(S) + Sum(r \ {y})
        BY <1>4, <3>1
      <3>7. Sum(r \ {y}) \in Int
        BY <1>2
      <3>8. Sum(S \cup r) = F[y] + (Sum(S) + Sum(r \ {y}))
        BY <3>3, <3>4, <3>6
      <3>9. Sum(S \cup r) = Sum(S) + Sum(r)
        BY <1>3, <3>2, <3>5, <3>7, <3>8
      <3>. QED  BY <3>9
    <2>. QED  BY <2>1, <2>2
  <1>5. R \in C
    <2>. HIDE DEF C
    <2>. QED  BY <1>4, SetsBySize DEF Summable
  <1>. QED  BY <1>5

\* Sums by group add up to the sum over all the groups.
LEMMA SumOfGroups ==
  ASSUME NEW F, NEW I, Summable(F, I), NEW group, NEW D, IsFiniteSet(D),
         NEW G, \A d \in D : G[d] = SumFunctionOnSet(F, {i \in I : group[i] = d})
  PROVE  SumFunctionOnSet(G, D) = SumFunctionOnSet(F, {i \in I : group[i] \in D})
  <1>. DEFINE Of(s) == {i \in I : group[i] \in s}
              C == {s \in SUBSET D : SumFunctionOnSet(G, s) = SumFunctionOnSet(F, Of(s))}
  <1>1. \A J \in SUBSET I : Summable(F, J)
    BY FS_Subset DEF Summable
  <1>2. ASSUME NEW d \in D PROVE G[d] \in Int
    <2>1. Summable(F, {i \in I : group[i] = d})
      BY <1>1
    <2>2. SumFunctionOnSet(F, {i \in I : group[i] = d}) \in Int
      BY <2>1, SumUnfolds
    <2>. QED  BY <2>2
  <1>3. \A s \in SUBSET D : Summable(G, s)
    BY <1>2, FS_Subset DEF Summable
  <1>4. ASSUME NEW s \in SUBSET D, \A d \in s : s \ {d} \in C
        PROVE  s \in C
    <2>1. CASE s = {}
      <3>1. Of(s) = {}
        BY <2>1
      <3>. QED  BY <1>1, <1>3, <2>1, <3>1, SumUnfolds
    <2>2. CASE s # {}
      <3>1. PICK d \in s : TRUE
        BY <2>2
      <3>. DEFINE one == {i \in I : group[i] = d}
      <3>2. SumFunctionOnSet(G, s) = G[d] + SumFunctionOnSet(G, s \ {d})
        BY <1>3, <3>1, SumWithout
      <3>3. SumFunctionOnSet(G, s \ {d}) = SumFunctionOnSet(F, Of(s \ {d}))
        BY <1>4, <3>1
      <3>4. Of(s) = one \cup Of(s \ {d}) /\ one \cap Of(s \ {d}) = {}
        BY <3>1
      <3>5. SumFunctionOnSet(F, one \cup Of(s \ {d})) = SumFunctionOnSet(F, one) + SumFunctionOnSet(F, Of(s \ {d}))
        BY <1>1, <3>4, SumOfBoth
      <3>. QED  BY <3>2, <3>3, <3>4, <3>5
    <2>. QED  BY <2>1, <2>2
  <1>5. D \in C
    <2>. HIDE DEF C
    <2>. QED  BY <1>4, SetsBySize
  <1>. QED  BY <1>5

----------------------------------------------------------------------------
(* The month ends of a range                                               *)

\* A due day that many months lack falls on their last day: the ends of months
\* are the due dates of one schedule.
LastDay == Monthly(31)
MonthOf(t) == PeriodOf(LastDay, t)
EndOf(n) == DueIn(LastDay, n)

LEMMA LastDaySchedule == LastDay \in Schedule /\ LastDay.frequency = "monthly" /\ LastDay.day = 31
  BY DEF LastDay, Monthly, Schedule

LEMMA EndOfMonth ==
  ASSUME NEW n \in Int
  PROVE  /\ EndOf(n) \in CalendarDate /\ MonthOf(EndOf(n)) = n
         /\ EndOf(n) = DateOf(n \div 12, (n % 12) + 1, DaysInMonth(n \div 12, (n % 12) + 1))
  <1>. DEFINE y == n \div 12
              m == (n % 12) + 1
  <1>1. y \in Int /\ m \in 1 .. 12
    BY MonthNumbers
  <1>2. EndOf(n) = InstanceIn(y, m, 31)
    BY LastDaySchedule DEF EndOf, DueIn, InstanceInMonth, Month
  <1>. HIDE DEF y, m
  <1>3. DaysInMonth(y, m) \in 28 .. 31
    BY <1>1, MonthLength
  <1>4. InstanceIn(y, m, 31) = DateOf(y, m, DaysInMonth(y, m))
    BY <1>3 DEF InstanceIn
  <1>5. EndOf(n) \in CalendarDate /\ MonthOf(EndOf(n)) = n
    BY LastDaySchedule, DueIsDate DEF EndOf, MonthOf
  <1>. QED  BY <1>2, <1>4, <1>5 DEF y, m

LEMMA MonthOfDate ==
  ASSUME NEW t \in CalendarDate
  PROVE  /\ MonthOf(t) = 12 * t.y + t.m - 1 /\ MonthOf(t) \in Int
         /\ MonthOf(t) \div 12 = t.y /\ (MonthOf(t) % 12) + 1 = t.m
  <1>1. t.y \in Int /\ t.m \in 1 .. 12
    BY DEF CalendarDate
  <1>2. MonthOf(t) = 12 * t.y + t.m - 1
    BY LastDaySchedule DEF MonthOf, PeriodOf
  <1>3. (12 * t.y + t.m - 1) \div 12 = t.y /\ (12 * t.y + t.m - 1) % 12 = t.m - 1
    BY <1>1, MonthNumbers
  <1>. QED  BY <1>1, <1>2, <1>3

LEMMA MonthEndIs ==
  ASSUME NEW t, t.y \in Int, t.m \in 1 .. 12
  PROVE  MonthEnd(t) = EndOf(12 * t.y + t.m - 1)
  <1>1. (12 * t.y + t.m - 1) \div 12 = t.y /\ (12 * t.y + t.m - 1) % 12 = t.m - 1
    BY MonthNumbers
  <1>2. 12 * t.y + t.m - 1 \in Int /\ (t.m - 1) + 1 = t.m
    OBVIOUS
  <1>. QED  BY <1>1, <1>2, EndOfMonth DEF MonthEnd

\* From the end of one month to the end of the next.
LEMMA NextMonthEnd ==
  ASSUME NEW n \in Int
  PROVE  MonthEnd(AddMonths(EndOf(n), 1)) = EndOf(n + 1)
  <1>. DEFINE t == EndOf(n)
              ym == MonthsLater(t.y, t.m, 1)
  <1>1. t \in CalendarDate /\ 12 * t.y + t.m - 1 = n
    BY EndOfMonth, MonthOfDate
  <1>2. t.y \in Int /\ t.m \in 1 .. 12 /\ t.d \in 1 .. 31
    BY <1>1 DEF CalendarDate
  <1>. HIDE DEF t
  <1>3. ym = Month(n + 1)
    <2>1. 12 * t.y + t.m - 1 + 1 = n + 1
      BY <1>1, <1>2
    <2>. QED  BY <1>1, <2>1, MonthsLaterIsMonth
  <1>4. ym.y \in Int /\ ym.m \in 1 .. 12 /\ 12 * ym.y + ym.m - 1 = n + 1
    <2>1. n + 1 \in Int /\ ym.y = (n + 1) \div 12 /\ ym.m = ((n + 1) % 12) + 1
      BY <1>3 DEF Month
    <2>. HIDE DEF ym
    <2>. QED  BY <2>1, MonthNumbers
  <1>5. AddMonths(t, 1) = InstanceIn(ym.y, ym.m, t.d)
    BY DEF AddMonths
  <1>. HIDE DEF ym
  <1>6. AddMonths(t, 1).y = ym.y /\ AddMonths(t, 1).m = ym.m
    <2>1. PICK a \in Int, b \in 1 .. 12, day \in 1 .. 31 : a = ym.y /\ b = ym.m /\ day = t.d
      BY <1>2, <1>4
    <2>2. InstanceIn(a, b, day).y = a
      BY InstanceIsDate
    <2>3. InstanceIn(a, b, day).m = b
      BY InstanceIsDate
    <2>. QED  BY <1>5, <2>1, <2>2, <2>3
  <1>7. MonthEnd(AddMonths(t, 1)) = EndOf(n + 1)
    BY <1>4, <1>6, MonthEndIs
  <1>. QED  BY <1>7 DEF t

\* The cursor of a series is at the end of month after month.
LEMMA CursorIs ==
  ASSUME NEW start \in CalendarDate, NEW k \in Nat
  PROVE  MonthCursor(start, k) = EndOf(MonthOf(start) + k)
  <1>. DEFINE n == MonthOf(start)
              IsCursor(c) == c = [i \in 0 .. k |-> IF i = 0 THEN MonthEnd(start) ELSE MonthEnd(AddMonths(c[i - 1], 1))]
              w == [i \in 0 .. k |-> EndOf(n + i)]
  <1>1. n \in Int /\ MonthEnd(start) = EndOf(n)
    BY MonthOfDate, MonthEndIs DEF CalendarDate
  <1>. HIDE DEF n
  <1>2. \A j \in Nat : MonthEnd(AddMonths(EndOf(n + j), 1)) = EndOf(n + (j + 1))
    <2>1. SUFFICES ASSUME NEW j \in Nat PROVE MonthEnd(AddMonths(EndOf(n + j), 1)) = EndOf(n + (j + 1))
      OBVIOUS
    <2>2. n + j \in Int /\ (n + j) + 1 = n + (j + 1)
      BY <1>1
    <2>. QED  BY <2>2, NextMonthEnd
  <1>3. IsCursor(w)
    <2>1. ASSUME NEW i \in 0 .. k
          PROVE  EndOf(n + i) = IF i = 0 THEN MonthEnd(start) ELSE MonthEnd(AddMonths(w[i - 1], 1))
      <3>1. CASE i = 0
        BY <1>1, <3>1
      <3>2. CASE i # 0
        <4>1. i - 1 \in 0 .. k /\ i - 1 \in Nat /\ (i - 1) + 1 = i
          BY <3>2
        <4>2. w[i - 1] = EndOf(n + (i - 1))
          BY <4>1
        <4>. HIDE DEF w
        <4>. QED  BY <1>2, <3>2, <4>1, <4>2
      <3>. QED  BY <3>1, <3>2
    <2>. QED  BY <2>1, Zenon
  <1>4. PICK c : IsCursor(c) /\ MonthCursor(start, k) = c[k]
    <2>. HIDE DEF w
    <2>1. IsCursor(CHOOSE c : IsCursor(c))
      BY <1>3, Zenon
    <2>. QED  BY <2>1, Zenon DEF MonthCursor
  <1>5. ASSUME NEW i \in 0 .. k PROVE c[i] = IF i = 0 THEN MonthEnd(start) ELSE MonthEnd(AddMonths(c[i - 1], 1))
    BY <1>4
  <1>. HIDE DEF IsCursor, w
  <1>. DEFINE T == {i \in Nat : i <= k => c[i] = EndOf(n + i)}
  <1>6. 0 \in T
    BY <1>1, <1>5
  <1>7. ASSUME NEW i \in T PROVE i + 1 \in T
    <2>1. SUFFICES ASSUME i + 1 <= k PROVE c[i + 1] = EndOf(n + (i + 1))
      OBVIOUS
    <2>2. i \in Nat /\ c[i] = EndOf(n + i) /\ i + 1 \in 0 .. k /\ i + 1 # 0 /\ (i + 1) - 1 = i
      BY <2>1
    <2>. HIDE DEF T
    <2>. QED  BY <1>2, <1>5, <2>2
  <1>8. k \in T
    <2>1. T \subseteq Nat
      OBVIOUS
    <2>. HIDE DEF T
    <2>. QED  BY <2>1, <1>6, <1>7, Numbers
  <1>. QED  BY <1>4, <1>8 DEF n

\* A date is no later than the end of its month, and the months of dates are in
\* the order of the dates.
LEMMA WithinMonth ==
  ASSUME NEW t \in CalendarDate
  PROVE  NotAfter(t, EndOf(MonthOf(t)))
  <1>. DEFINE n == MonthOf(t)
  <1>1. n \in Int /\ n \div 12 = t.y /\ (n % 12) + 1 = t.m
    BY MonthOfDate
  <1>2. t.y \in Int /\ t.m \in 1 .. 12 /\ t.d \in 1 .. 31 /\ t.d <= DaysInMonth(t.y, t.m)
    BY DEF CalendarDate
  <1>3. EndOf(n) = DateOf(t.y, t.m, DaysInMonth(t.y, t.m))
    BY <1>1, EndOfMonth
  <1>. HIDE DEF n
  <1>4. Ordinal(EndOf(n)) = DaysBeforeYear(t.y) + DaysBeforeMonth(t.y, t.m) + DaysInMonth(t.y, t.m)
    BY <1>3 DEF Ordinal, DateOf
  <1>5. DaysBeforeYear(t.y) \in Int
    BY <1>2, YearLength
  <1>6. DaysBeforeMonth(t.y, t.m) \in Int /\ DaysInMonth(t.y, t.m) \in Int
    <2>1. DaysBeforeMonth(t.y, t.m) \in 0 .. 335
      BY <1>2, MonthsInOrder
    <2>2. DaysInMonth(t.y, t.m) \in 28 .. 31
      BY <1>2, MonthLength
    <2>. QED  BY <2>1, <2>2
  <1>7. Ordinal(t) = DaysBeforeYear(t.y) + DaysBeforeMonth(t.y, t.m) + t.d
    BY DEF Ordinal
  <1>8. Ordinal(t) <= Ordinal(EndOf(n))
    BY <1>2, <1>4, <1>5, <1>6, <1>7
  <1>. QED  BY <1>8 DEF NotAfter, n

LEMMA MonthsOfDates ==
  ASSUME NEW t \in CalendarDate, NEW u \in CalendarDate, NotAfter(t, u)
  PROVE  MonthOf(t) <= MonthOf(u)
  <1>. DEFINE i == MonthOf(t)
              j == MonthOf(u)
  <1>1. i \in Int /\ j \in Int
    BY MonthOfDate
  <1>2. StartOf(LastDay, i) < Ordinal(t) /\ Ordinal(t) \in Int
    BY DateInPeriod DEF MonthOf
  <1>3. Ordinal(u) <= StartOf(LastDay, j + 1) /\ Ordinal(u) \in Int
    BY DateInPeriod DEF MonthOf
  <1>. HIDE DEF i, j
  <1>4. j + 1 < i => StartOf(LastDay, j + 1) < StartOf(LastDay, i)
    BY <1>1, StartsInOrder
  <1>5. StartOf(LastDay, i) \in Int /\ StartOf(LastDay, j + 1) \in Int
    BY <1>1, StartsInOrder
  <1>6. ~(j + 1 <= i)
    <2>1. CASE j + 1 < i
      BY <1>2, <1>3, <1>4, <1>5, <2>1 DEF NotAfter
    <2>2. CASE j + 1 = i
      BY <1>2, <1>3, <1>5, <2>2 DEF NotAfter
    <2>. QED  BY <1>1, <2>1, <2>2
  <1>. QED  BY <1>1, <1>6 DEF i, j

\* The months of a range: from the one of its start to the one of its end.
LEMMA MonthsOfRange ==
  ASSUME NEW start \in CalendarDate, NEW end \in CalendarDate, NotAfter(start, end)
  PROVE  /\ MonthsSpanned(start, end) = MonthOf(end) - MonthOf(start)
         /\ MonthsSpanned(start, end) \in Nat
  <1>1. /\ start.y \in Int /\ start.m \in Int /\ end.y \in Int /\ end.m \in Int
    BY DEF CalendarDate
  <1>2. MonthOf(start) = 12 * start.y + start.m - 1 /\ MonthOf(end) = 12 * end.y + end.m - 1
    BY MonthOfDate
  <1>3. MonthsSpanned(start, end) = MonthOf(end) - MonthOf(start)
    BY <1>1, <1>2 DEF MonthsSpanned
  <1>4. MonthOf(start) <= MonthOf(end) /\ MonthOf(start) \in Int /\ MonthOf(end) \in Int
    BY MonthsOfDates, MonthOfDate
  <1>. QED  BY <1>3, <1>4

\* Every month end of the range is a point, and there is no other but the end.
LEMMA MonthEndsOfRange ==
  ASSUME NEW start \in CalendarDate, NEW end \in CalendarDate, NotAfter(start, end)
  PROVE  SeriesMonths(start, end) =
           {end} \cup {EndOf(n) : n \in {i \in Int : NotAfter(start, EndOf(i)) /\ NotAfter(EndOf(i), end)}}
  <1>. DEFINE first == MonthOf(start)
              last == MonthOf(end)
              cursors == {MonthCursor(start, k) : k \in 0 .. MonthsSpanned(start, end)}
              ends == {i \in Int : NotAfter(start, EndOf(i)) /\ NotAfter(EndOf(i), end)}
  <1>1. first \in Int /\ last \in Int /\ MonthsSpanned(start, end) = last - first /\ last - first \in Nat
    BY MonthOfDate, MonthsOfRange
  <1>2. ASSUME NEW k \in 0 .. MonthsSpanned(start, end), NotAfter(MonthCursor(start, k), end)
        PROVE  first + k \in ends /\ MonthCursor(start, k) = EndOf(first + k)
    <2>1. k \in Nat /\ first + k \in Int /\ first <= first + k
      BY <1>1
    <2>2. MonthCursor(start, k) = EndOf(first + k)
      BY <2>1, CursorIs
    <2>3. EndOf(first + k) \in CalendarDate /\ EndOf(first) \in CalendarDate /\ MonthOf(EndOf(first + k)) = first + k
      BY <1>1, <2>1, EndOfMonth
    <2>4. Ordinal(start) \in Int /\ Ordinal(EndOf(first)) \in Int /\ Ordinal(EndOf(first + k)) \in Int
      BY <2>3, DateInPeriod
    <2>5. Ordinal(start) <= Ordinal(EndOf(first))
      BY WithinMonth DEF NotAfter
    <2>6. Ordinal(EndOf(first)) <= Ordinal(EndOf(first + k))
      <3>1. StartOf(LastDay, first + 1) <= StartOf(LastDay, first + k) \/ k = 0
        BY <1>1, <2>1, StartsInOrder
      <3>2. Ordinal(EndOf(first)) <= StartOf(LastDay, first + 1)
        BY <1>1, LastDaySchedule, DueIsDate DEF EndOf
      <3>3. StartOf(LastDay, first + k) < Ordinal(EndOf(first + k))
        BY <2>1, LastDaySchedule, DueIsDate DEF EndOf
      <3>4. StartOf(LastDay, first + 1) \in Int /\ StartOf(LastDay, first + k) \in Int
        BY <1>1, <2>1, StartsInOrder
      <3>. QED  BY <1>1, <2>4, <3>1, <3>2, <3>3, <3>4
    <2>7. NotAfter(start, EndOf(first + k))
      BY <2>4, <2>5, <2>6 DEF NotAfter
    <2>. HIDE DEF first
    <2>. QED  BY <1>2, <2>1, <2>2, <2>7
  <1>3. ASSUME NEW i \in ends
        PROVE  /\ i - first \in 0 .. MonthsSpanned(start, end)
               /\ EndOf(i) = MonthCursor(start, i - first) /\ NotAfter(EndOf(i), end)
    <2>1. i \in Int /\ NotAfter(start, EndOf(i)) /\ NotAfter(EndOf(i), end)
      OBVIOUS
    <2>2. EndOf(i) \in CalendarDate /\ MonthOf(EndOf(i)) = i
      BY <2>1, EndOfMonth
    <2>3. first <= i /\ i <= last
      BY <2>1, <2>2, MonthsOfDates
    <2>. HIDE DEF ends
    <2>4. i - first \in Nat /\ first + (i - first) = i /\ i - first \in 0 .. last - first
      BY <1>1, <2>1, <2>3
    <2>5. MonthCursor(start, i - first) = EndOf(first + (i - first))
      BY <2>4, CursorIs
    <2>. HIDE DEF first, last
    <2>. QED  BY <1>1, <2>1, <2>4, <2>5
  <1>4. SeriesMonths(start, end) = {c \in cursors : NotAfter(c, end)} \cup {end}
    BY DEF SeriesMonths
  <1>5. ASSUME NEW c PROVE (c \in cursors /\ NotAfter(c, end)) <=> c \in {EndOf(n) : n \in ends}
    <2>1. ASSUME c \in cursors, NotAfter(c, end) PROVE c \in {EndOf(n) : n \in ends}
      <3>1. PICK k \in 0 .. MonthsSpanned(start, end) : c = MonthCursor(start, k)
        BY <2>1
      <3>. HIDE DEF ends, first
      <3>2. first + k \in ends /\ c = EndOf(first + k)
        BY <1>2, <2>1, <3>1
      <3>. QED  BY <3>2, Zenon
    <2>2. ASSUME c \in {EndOf(n) : n \in ends} PROVE c \in cursors /\ NotAfter(c, end)
      <3>1. PICK i \in ends : c = EndOf(i)
        BY <2>2
      <3>. HIDE DEF ends
      <3>2. i - first \in 0 .. MonthsSpanned(start, end) /\ c = MonthCursor(start, i - first) /\ NotAfter(c, end)
        BY <1>3, <3>1
      <3>. HIDE DEF first
      <3>. QED  BY <3>2, Zenon
    <2>. QED  BY <2>1, <2>2
  <1>. HIDE DEF cursors, ends, first, last
  <1>6. SeriesMonths(start, end) = {end} \cup {EndOf(n) : n \in ends}
    BY <1>4, <1>5
  <1>. QED  BY <1>6 DEF ends

\* The months counted from January of the year of the start hold all those of
\* the range.
LEMMA MonthEndsFromJanuary ==
  ASSUME NEW start \in CalendarDate, NEW end \in CalendarDate, NotAfter(start, end)
  PROVE  SeriesMonths(start, end) =
           {end} \cup {d \in {MonthEnd(m) : m \in {DateOf(start.y + k \div 12, (k % 12) + 1, 1) :
                                                     k \in 0 .. start.m + MonthsSpanned(start, end)}} :
                         NotAfter(start, d) /\ NotAfter(d, end)}
  <1>. DEFINE K == 0 .. start.m + MonthsSpanned(start, end)
              Start(k) == DateOf(start.y + k \div 12, (k % 12) + 1, 1)
              months == {Start(k) : k \in K}
              first == 12 * start.y
              ends == {i \in Int : NotAfter(start, EndOf(i)) /\ NotAfter(EndOf(i), end)}
              found == {d \in {MonthEnd(m) : m \in months} : NotAfter(start, d) /\ NotAfter(d, end)}
  <1>1. /\ start.y \in Int /\ start.m \in 1 .. 12 /\ first \in Int
        /\ MonthOf(start) = first + start.m - 1
        /\ MonthOf(end) \in Int /\ MonthsSpanned(start, end) = MonthOf(end) - MonthOf(start)
        /\ MonthsSpanned(start, end) \in Nat
    <2>1. start.y \in Int /\ start.m \in 1 .. 12
      BY DEF CalendarDate
    <2>2. MonthOf(start) = first + start.m - 1 /\ MonthOf(end) \in Int
      BY MonthOfDate
    <2>3. MonthsSpanned(start, end) = MonthOf(end) - MonthOf(start) /\ MonthsSpanned(start, end) \in Nat
      BY MonthsOfRange
    <2>. QED  BY <2>1, <2>2, <2>3
  <1>2. ASSUME NEW k \in K PROVE first + k \in Int /\ MonthEnd(Start(k)) = EndOf(first + k)
    <2>1. k \in Int /\ k \div 12 \in Int /\ (k % 12) + 1 \in 1 .. 12 /\ k = 12 * (k \div 12) + (k % 12)
      BY MonthNumbers
    <2>2. PICK y \in Int, m \in 1 .. 12 : y = start.y + k \div 12 /\ m = (k % 12) + 1 /\ 12 * y + m - 1 = first + k
      BY <1>1, <2>1
    <2>3. Start(k).y = y /\ Start(k).m = m
      BY <2>2 DEF DateOf
    <2>. HIDE DEF Start
    <2>4. MonthEnd(Start(k)) = EndOf(12 * y + m - 1)
      BY <2>3, MonthEndIs
    <2>. QED  BY <1>1, <2>1, <2>2, <2>4
  <1>3. ASSUME NEW i \in ends PROVE i - first \in K /\ first + (i - first) = i
    <2>1. i \in Int /\ NotAfter(start, EndOf(i)) /\ NotAfter(EndOf(i), end)
      OBVIOUS
    <2>2. EndOf(i) \in CalendarDate /\ MonthOf(EndOf(i)) = i
      BY <2>1, EndOfMonth
    <2>3. MonthOf(start) <= i /\ i <= MonthOf(end)
      BY <2>1, <2>2, MonthsOfDates
    <2>. HIDE DEF ends, first
    <2>. QED  BY <1>1, <2>1, <2>3
  <1>4. ASSUME NEW d PROVE d \in {EndOf(n) : n \in ends} <=> d \in found
    <2>1. ASSUME d \in {EndOf(n) : n \in ends} PROVE d \in found
      <3>1. PICK i \in ends : d = EndOf(i)
        BY <2>1
      <3>2. NotAfter(start, d) /\ NotAfter(d, end)
        BY <3>1
      <3>3. i - first \in K /\ first + (i - first) = i
        BY <1>3
      <3>. HIDE DEF ends, first, K, Start
      <3>4. MonthEnd(Start(i - first)) = d
        BY <1>2, <3>1, <3>3
      <3>5. Start(i - first) \in months
        BY <3>3
      <3>. QED  BY <3>2, <3>4, <3>5
    <2>2. ASSUME d \in found PROVE d \in {EndOf(n) : n \in ends}
      <3>1. NotAfter(start, d) /\ NotAfter(d, end) /\ d \in {MonthEnd(m) : m \in months}
        BY <2>2
      <3>. HIDE DEF K, Start
      <3>2. PICK k \in K : d = MonthEnd(Start(k))
        BY <3>1
      <3>. HIDE DEF first, months, found
      <3>3. first + k \in Int /\ d = EndOf(first + k)
        BY <1>2, <3>2
      <3>4. first + k \in ends
        BY <3>1, <3>3
      <3>. HIDE DEF ends
      <3>. QED  BY <3>3, <3>4
    <2>. QED  BY <2>1, <2>2
  <1>5. SeriesMonths(start, end) = {end} \cup {EndOf(n) : n \in ends}
    BY MonthEndsOfRange
  <1>. HIDE DEF ends, found
  <1>6. SeriesMonths(start, end) = {end} \cup found
    BY <1>4, <1>5
  <1>. QED  BY <1>6 DEF found

\* Within one month a date is known by its day number.
LEMMA SameDay ==
  ASSUME NEW a \in CalendarDate, NEW b \in CalendarDate, a.y = b.y, a.m = b.m, Ordinal(a) = Ordinal(b)
  PROVE  a = b
  <1>1. a \in [y : Int, m : 1 .. 12, d : 1 .. 31] /\ b \in [y : Int, m : 1 .. 12, d : 1 .. 31]
    BY DEF CalendarDate
  <1>. DEFINE s == DaysBeforeYear(a.y) + DaysBeforeMonth(a.y, a.m)
  <1>2. s \in Int
    <2>1. DaysBeforeYear(a.y) \in Int
      BY <1>1, YearLength
    <2>2. DaysBeforeMonth(a.y, a.m) \in 0 .. 335
      BY <1>1, MonthsInOrder
    <2>. QED  BY <2>1, <2>2
  <1>3. Ordinal(a) = s + a.d /\ Ordinal(b) = s + b.d
    BY DEF Ordinal
  <1>. HIDE DEF s
  <1>4. a.d = b.d
    <2>1. a.d \in Int /\ b.d \in Int
      BY <1>1
    <2>2. s + a.d = s + b.d
      BY <1>3
    <2>. QED  BY <1>2, <2>1, <2>2
  <1>. QED  BY <1>1, <1>4

\* A point of a monthly series is the day its month stands for.
LEMMA PointsCanBeLookedUp ==
  ASSUME NEW start \in CalendarDate, NEW end \in CalendarDate,
         NotAfter(start, end), NotAfter(Earliest, start),
         NEW d \in SeriesMonths(start, end)
  PROVE  ValidLookup(d, end) /\ ResolveMonth(d.y, d.m, end) = {d}
  <1>1. Earliest \in CalendarDate
    BY DEF Earliest, DateOf, CalendarDate, DaysInMonth
  <1>2. /\ Ordinal(Earliest) \in Int /\ Ordinal(start) \in Int /\ Ordinal(end) \in Int
        /\ Ordinal(Earliest) <= Ordinal(start) /\ Ordinal(start) <= Ordinal(end)
    BY <1>1, DateInPeriod DEF NotAfter
  <1>3. end.y \in Int /\ end.m \in 1 .. 12
    BY DEF CalendarDate
  <1>4. CASE d = end
    <2>1. ~(end.y * 12 + end.m > end.y * 12 + end.m)
      BY <1>3
    <2>2. ResolveMonth(d.y, d.m, end) = {d}
      BY <1>4, <2>1 DEF ResolveMonth
    <2>3. ValidLookup(d, end)
      BY <1>2, <1>4 DEF ValidLookup, NotAfter
    <2>. QED  BY <2>2, <2>3
  <1>5. CASE d # end
    <2>1. PICK n \in Int : d = EndOf(n) /\ NotAfter(start, d) /\ NotAfter(d, end)
      BY <1>5, MonthEndsOfRange
    <2>2. /\ d \in CalendarDate /\ MonthOf(d) = n
          /\ d.y = n \div 12 /\ d.m = (n % 12) + 1 /\ n = 12 * d.y + d.m - 1
      BY <2>1, EndOfMonth, MonthOfDate
    <2>3. d.y \in Int /\ d.m \in 1 .. 12 /\ Ordinal(d) \in Int
      BY <2>2, DateInPeriod DEF CalendarDate
    <2>4. ValidLookup(d, end)
      BY <1>2, <2>1, <2>3 DEF ValidLookup, NotAfter
    <2>5. n <= MonthOf(end) /\ MonthOf(end) = 12 * end.y + end.m - 1
      BY <2>1, <2>2, MonthsOfDates, MonthOfDate
    <2>6. ~(d.y * 12 + d.m > end.y * 12 + end.m)
      BY <1>3, <2>2, <2>3, <2>5
    <2>7. ~(d.y = end.y /\ d.m = end.m)
      <3>1. SUFFICES ASSUME d.y = end.y, d.m = end.m PROVE FALSE
        OBVIOUS
      <3>2. MonthOf(end) = n
        BY <2>2, <2>5, <3>1
      <3>3. Ordinal(end) <= Ordinal(d)
        BY <2>1, <3>2, WithinMonth DEF NotAfter
      <3>4. Ordinal(d) = Ordinal(end)
        BY <1>2, <2>1, <2>3, <3>3 DEF NotAfter
      <3>. QED  BY <1>5, <2>2, <3>1, <3>4, SameDay
    <2>8. MonthEnd(DateOf(d.y, d.m, 1)) = d
      <3>1. DateOf(d.y, d.m, 1).y = d.y /\ DateOf(d.y, d.m, 1).m = d.m
        BY DEF DateOf
      <3>2. MonthEnd(DateOf(d.y, d.m, 1)) = EndOf(12 * d.y + d.m - 1)
        BY <2>3, <3>1, MonthEndIs
      <3>. QED  BY <2>1, <2>2, <3>2
    <2>9. ResolveMonth(d.y, d.m, end) = {d}
      BY <2>6, <2>7, <2>8 DEF ResolveMonth
    <2>. QED  BY <2>4, <2>9
  <1>. QED  BY <1>4, <1>5

\* Dates are in the order of their years.
LEMMA DatesOfYears ==
  ASSUME NEW a \in CalendarDate, NEW b \in CalendarDate, a.y < b.y
  PROVE  Ordinal(a) < Ordinal(b)
  <1>. DEFINE s == Annual(1, 1)
  <1>1. a.y \in Int /\ b.y \in Int
    BY DEF CalendarDate
  <1>2. \A t : PeriodOf(s, t) = t.y
    BY DEF PeriodOf, Annual
  <1>. HIDE DEF s
  <1>3. Ordinal(a) \in Int /\ Ordinal(a) <= StartOf(s, a.y + 1)
    BY <1>2, DateInPeriod
  <1>4. Ordinal(b) \in Int /\ StartOf(s, b.y) < Ordinal(b)
    BY <1>2, DateInPeriod
  <1>5. a.y + 1 \in Int /\ (a.y + 1 = b.y \/ a.y + 1 < b.y)
    BY <1>1
  <1>6. /\ StartOf(s, a.y + 1) \in Int /\ StartOf(s, b.y) \in Int
        /\ a.y + 1 < b.y => StartOf(s, a.y + 1) < StartOf(s, b.y)
    BY <1>1, <1>5, StartsInOrder
  <1>. QED  BY <1>3, <1>4, <1>5, <1>6

LEMMA YearEarlier ==
  ASSUME NEW t \in CalendarDate
  PROVE  /\ AddMonths(t, -12) \in CalendarDate
         /\ AddMonths(t, -12).y = t.y - 1 /\ AddMonths(t, -12).m = t.m
  <1>1. t.y \in Int /\ t.m \in 1 .. 12 /\ t.d \in 1 .. 31
    BY DEF CalendarDate
  <1>. DEFINE y == t.y - 1
              n == t.y * 12 + (t.m - 1) + (-12)
  <1>2. y \in Int /\ n = 12 * y + t.m - 1
    BY <1>1
  <1>3. n \div 12 = y /\ n % 12 = t.m - 1
    BY <1>1, <1>2, MonthNumbers
  <1>4. MonthsLater(t.y, t.m, -12) = [y |-> y, m |-> t.m]
    <2>1. (t.m - 1) + 1 = t.m
      BY <1>1
    <2>. QED  BY <1>3, <2>1 DEF MonthsLater
  <1>. HIDE DEF n
  <1>5. AddMonths(t, -12) = InstanceIn(y, t.m, t.d)
    BY <1>4 DEF AddMonths
  <1>. HIDE DEF y
  <1>6. PICK m \in 1 .. 12, day \in 1 .. 31 : m = t.m /\ day = t.d
    BY <1>1
  <1>7. InstanceIn(y, m, day) \in CalendarDate
    BY <1>2, InstanceIsDate
  <1>8. InstanceIn(y, m, day).y = y
    BY <1>2, InstanceIsDate
  <1>9. InstanceIn(y, m, day).m = m
    BY <1>2, InstanceIsDate
  <1>. QED  BY <1>5, <1>6, <1>7, <1>8, <1>9 DEF y

\* A range left to its default is a year that ends today.
LEMMA DefaultIsPlotted ==
  ASSUME NEW end \in CalendarDate, NotAfter(AddMonths(Earliest, 12), end)
  PROVE  LET default == DefaultRange(end)
         IN  ValidRange(default[1], default[2], end, Granularity(default[1], default[2], "auto"))
  <1>. DEFINE a == AddMonths(end, -12)
              first == DateOf(2001, 1, 1)
              g == Granularity(a, end, "auto")
  <1>1. /\ a \in CalendarDate /\ a.y = end.y - 1 /\ a.m = end.m
        /\ end.y \in Int /\ end.m \in Int
    BY YearEarlier DEF CalendarDate
  <1>2. first \in CalendarDate /\ Earliest \in CalendarDate /\ first.y = 2001
    BY DEF Earliest, DateOf, CalendarDate, DaysInMonth
  <1>3. AddMonths(Earliest, 12) = first
    <2>1. MonthsLater(2000, 1, 12) = [y |-> 2001, m |-> 1]
      BY DEF MonthsLater
    <2>2. DaysInMonth(2001, 1) = 31
      BY DEF DaysInMonth
    <2>. QED  BY <2>1, <2>2 DEF AddMonths, Earliest, DateOf, InstanceIn
  <1>. HIDE DEF a, first
  <1>4. Ordinal(a) \in Int /\ Ordinal(end) \in Int /\ Ordinal(first) \in Int /\ Ordinal(Earliest) \in Int
    <2>1. \A t \in CalendarDate : Ordinal(t) \in Int
      BY DateInPeriod
    <2>. QED  BY <1>1, <1>2, <2>1
  <1>5. end.y >= 2001
    <2>1. SUFFICES ASSUME end.y < 2001 PROVE FALSE
      BY <1>1
    <2>2. Ordinal(end) < Ordinal(first)
      BY <1>2, <2>1, DatesOfYears
    <2>. QED  BY <1>3, <1>4, <2>2 DEF NotAfter
  <1>6. NotAfter(Earliest, a)
    <2>1. CASE a.y = 2000
      <3>1. Earliest.y = a.y /\ Earliest.m = 1 /\ Earliest.d = 1
        BY <2>1 DEF Earliest, DateOf
      <3>2. a.m \in 1 .. 12 /\ a.d \in 1 .. 31
        BY <1>1 DEF CalendarDate
      <3>3. Ordinal(Earliest) <= Ordinal(a)
        BY <1>1, <1>2, <3>1, <3>2, OrderInYear
      <3>. QED  BY <3>3 DEF NotAfter
    <2>2. CASE a.y > 2000
      <3>1. Earliest.y = 2000
        BY DEF Earliest, DateOf
      <3>2. Ordinal(Earliest) < Ordinal(a)
        BY <1>1, <1>2, <2>2, <3>1, DatesOfYears
      <3>. QED  BY <1>4, <3>2 DEF NotAfter
    <2>. QED  BY <1>1, <1>5, <2>1, <2>2
  <1>7. NotAfter(a, end)
    <2>1. a.y < end.y
      BY <1>1
    <2>2. Ordinal(a) < Ordinal(end)
      BY <1>1, <2>1, DatesOfYears
    <2>. QED  BY <1>4, <2>2 DEF NotAfter
  <1>8. NotAfter(end, end)
    BY <1>4 DEF NotAfter
  <1>9. PointCount(a, end, g) <= 1500
    <2>1. CASE Ordinal(end) - Ordinal(a) <= 92
      BY <1>4, <2>1 DEF PointCount, Granularity
    <2>2. CASE ~(Ordinal(end) - Ordinal(a) <= 92)
      <3>1. MonthsSpanned(a, end) = 12
        BY <1>1 DEF MonthsSpanned
      <3>. QED  BY <2>2, <3>1 DEF PointCount, Granularity
    <2>. QED  BY <2>1, <2>2
  <1>10. ValidRange(a, end, end, g)
    BY <1>6, <1>7, <1>8, <1>9 DEF ValidRange
  <1>11. DefaultRange(end)[1] = a /\ DefaultRange(end)[2] = end
    BY DEF DefaultRange, a
  <1>. QED  BY <1>10, <1>11

LEMMA MonthlyPoints ==
  ASSUME NEW start \in CalendarDate, NEW end \in CalendarDate,
         NotAfter(Earliest, start), NotAfter(start, end)
  PROVE  PointsAreMonthEnds(start, end)
  <1>1. \A d \in SeriesMonths(start, end) : ValidLookup(d, end) /\ ResolveMonth(d.y, d.m, end) = {d}
    BY PointsCanBeLookedUp
  <1>. QED  BY <1>1, MonthEndsFromJanuary, DefaultIsPlotted DEF PointsAreMonthEnds

----------------------------------------------------------------------------
(* Net flows: by query, and from running totals                            *)

\* What came in less what went out, up to and with a day.
Through(a, day) == SumFunctionOnSet(Flows(a), {i \in DOMAIN a.txns : a.txns[i].date <= day})

LEMMA TransactionsAreTyped ==
  ASSUME NEW a, IsAccount(a)
  PROVE  /\ IsFiniteSet(DOMAIN a.txns)
         /\ \A i \in DOMAIN a.txns : a.txns[i].date \in Int
         /\ \A J \in SUBSET DOMAIN a.txns : Summable(Flows(a), J)
  <1>1. a.txns \in Seq([date : Int, in : Int, out : Int])
    BY DEF IsAccount
  <1>2. Len(a.txns) \in Nat /\ DOMAIN a.txns = 1 .. Len(a.txns)
    BY <1>1, LenProperties
  <1>3. ASSUME NEW i \in DOMAIN a.txns
        PROVE  a.txns[i] \in [date : Int, in : Int, out : Int]
    BY <1>1, <1>2, ElementOfSeq
  <1>4. IsFiniteSet(DOMAIN a.txns)
    BY <1>2, FS_Interval
  <1>5. \A i \in DOMAIN a.txns : a.txns[i].date \in Int /\ Flows(a)[i] \in Int
    BY <1>3 DEF Flows
  <1>. QED  BY <1>4, <1>5, FS_Subset DEF Summable

LEMMA ThroughIsInt ==
  ASSUME NEW a, IsAccount(a), NEW day
  PROVE  Through(a, day) \in Int
  <1>1. Summable(Flows(a), {i \in DOMAIN a.txns : a.txns[i].date <= day})
    BY TransactionsAreTyped
  <1>. QED  BY <1>1, SumUnfolds DEF Through

\* The database's net flow of an interval.
LEMMA QueriedNet ==
  ASSUME NEW a, IsAccount(a), NEW after \in Int, NEW through \in Int, after <= through
  PROVE  NetFlowBetween(a, after, through) = Through(a, through) - Through(a, after)
  <1>. DEFINE before == {i \in DOMAIN a.txns : a.txns[i].date <= after}
              within == {i \in DOMAIN a.txns : after < a.txns[i].date /\ a.txns[i].date <= through}
              all == {i \in DOMAIN a.txns : a.txns[i].date <= through}
  <1>1. all = before \cup within /\ before \cap within = {}
    BY TransactionsAreTyped
  <1>2. Summable(Flows(a), before) /\ Summable(Flows(a), within)
    BY TransactionsAreTyped
  <1>3. Through(a, through) = SumFunctionOnSet(Flows(a), all) /\ Through(a, after) = SumFunctionOnSet(Flows(a), before)
        /\ NetFlowBetween(a, after, through) = SumFunctionOnSet(Flows(a), within)
    BY DEF Through, NetFlowBetween
  <1>. HIDE DEF all, before, within
  <1>4. SumFunctionOnSet(Flows(a), all) = SumFunctionOnSet(Flows(a), before) + SumFunctionOnSet(Flows(a), within)
    BY <1>1, <1>2, SumOfBoth
  <1>5. SumFunctionOnSet(Flows(a), before) \in Int /\ SumFunctionOnSet(Flows(a), within) \in Int
    BY <1>2, SumUnfolds
  <1>. QED  BY <1>3, <1>4, <1>5

\* The running totals say the same.
LEMMA RunningTotal ==
  ASSUME NEW a, IsAccount(a), NEW day \in Int
  PROVE  TotalThrough(DailyTotals(a), day) = Through(a, day)
  <1>. DEFINE I == DOMAIN a.txns
              dates == [i \in I |-> a.txns[i].date]
              D == {d \in DOMAIN DailyTotals(a) : d <= day}
  <1>1. DOMAIN DailyTotals(a) = {a.txns[i].date : i \in I}
    BY DEF DailyTotals
  <1>2. IsFiniteSet(D)
    <2>1. IsFiniteSet({a.txns[i].date : i \in I})
      <3>1. dates \in Surjection(I, {a.txns[i].date : i \in I})
        BY DEF Surjection
      <3>. QED  BY <3>1, TransactionsAreTyped, FS_Surjection
    <2>. QED  BY <1>1, <2>1, FS_Subset
  <1>3. ASSUME NEW d \in D
        PROVE  DailyTotals(a)[d] = SumFunctionOnSet(Flows(a), {i \in I : dates[i] = d})
    <2>1. DailyTotals(a)[d] = SumFunctionOnSet(Flows(a), {i \in I : a.txns[i].date = d})
      BY <1>1 DEF DailyTotals
    <2>2. {i \in I : a.txns[i].date = d} = {i \in I : dates[i] = d}
      OBVIOUS
    <2>. QED  BY <2>1, <2>2
  <1>4. Summable(Flows(a), I)
    BY TransactionsAreTyped
  <1>5. {i \in I : dates[i] \in D} = {i \in I : a.txns[i].date <= day}
    BY <1>1
  <1>. HIDE DEF D, dates, I
  <1>6. SumFunctionOnSet(DailyTotals(a), D) = SumFunctionOnSet(Flows(a), {i \in I : dates[i] \in D})
    BY <1>2, <1>3, <1>4, SumOfGroups
  <1>. QED  BY <1>5, <1>6 DEF TotalThrough, Through, D, I

LEMMA IndexNet ==
  ASSUME NEW a, IsAccount(a), NEW after \in Int, NEW through \in Int, after <= through
  PROVE  IndexedNet(DailyTotals(a), after, through) = Through(a, through) - Through(a, after)
  BY RunningTotal, ThroughIsInt DEF IndexedNet

\* Either way, from a known balance to the balance of a day.
LEMMA BalanceIs ==
  ASSUME NEW a, IsAccount(a), NEW k, k.balance \in Int, k.date \in Int, NEW target \in Int
  PROVE  /\ BalanceFromKnown(k, target, NetByQuery(a, FlowInterval(k, target)))
                = k.balance + (Through(a, target) - Through(a, k.date))
         /\ BalanceFromKnown(k, target, NetByIndex(a, FlowInterval(k, target)))
                = k.balance + (Through(a, target) - Through(a, k.date))
  <1>1. Through(a, target) \in Int /\ Through(a, k.date) \in Int
    BY ThroughIsInt
  <1>2. CASE target >= k.date
    <2>1. FlowInterval(k, target)[1] = k.date /\ FlowInterval(k, target)[2] = target
      BY <1>2 DEF FlowInterval
    <2>2. /\ NetByQuery(a, FlowInterval(k, target)) = Through(a, target) - Through(a, k.date)
          /\ NetByIndex(a, FlowInterval(k, target)) = Through(a, target) - Through(a, k.date)
      BY <1>2, <2>1, QueriedNet, IndexNet DEF NetByQuery, NetByIndex
    <2>. QED  BY <1>1, <1>2, <2>2 DEF BalanceFromKnown
  <1>3. CASE target < k.date
    <2>1. FlowInterval(k, target)[1] = target /\ FlowInterval(k, target)[2] = k.date
      BY <1>3 DEF FlowInterval
    <2>2. /\ NetByQuery(a, FlowInterval(k, target)) = Through(a, k.date) - Through(a, target)
          /\ NetByIndex(a, FlowInterval(k, target)) = Through(a, k.date) - Through(a, target)
      BY <1>3, <2>1, QueriedNet, IndexNet DEF NetByQuery, NetByIndex
    <2>. QED  BY <1>1, <1>3, <2>2 DEF BalanceFromKnown
  <1>. QED  BY <1>2, <1>3

----------------------------------------------------------------------------
(* The known balances of an account and the one chosen                     *)

KnownBalance == [balance : Int, date : Int, source : {"anchor", "statement_closing"}, order : Nat]

\* An account's known balances: each has a place of its own, the anchor first.
LEMMA KnownAreTyped ==
  ASSUME NEW a, IsAccount(a)
  PROVE  /\ IsFiniteSet(KnownBalances(a)) /\ IsFiniteSet(Printed(a))
         /\ KnownBalances(a) \subseteq KnownBalance
         /\ \A k \in Anchors(a) : k.source = "anchor"
         /\ \A k \in Printed(a) : k.source = "statement_closing"
         /\ \A k, l \in KnownBalances(a) : k.source = l.source /\ k.order = l.order => k = l
  <1>1. a.closings \in Seq(Dated) /\ Len(a.closings) \in Nat /\ DOMAIN a.closings = 1 .. Len(a.closings)
    BY LenProperties DEF IsAccount
  <1>2. \A i \in DOMAIN a.closings : a.closings[i].balance \in Int /\ a.closings[i].date \in Int
    <2>1. ASSUME NEW i \in DOMAIN a.closings PROVE a.closings[i] \in Dated
      BY <1>1, ElementOfSeq
    <2>. QED  BY <2>1 DEF Dated
  <1>3. IsFiniteSet(Printed(a))
    <2>. DEFINE f == [i \in DOMAIN a.closings |-> Known(a.closings[i].balance, a.closings[i].date, "statement_closing", i)]
    <2>1. f \in Surjection(DOMAIN a.closings, Printed(a))
      BY DEF Surjection, Printed
    <2>2. IsFiniteSet(DOMAIN a.closings)
      BY <1>1, FS_Interval
    <2>. QED  BY <2>1, <2>2, FS_Surjection
  <1>4. a.anchor = {} \/ \E k \in a.anchor : a.anchor = {k}
    BY DEF IsAccount
  <1>5. Anchors(a) = {} \/ \E k : Anchors(a) = {k}
    BY <1>4 DEF Anchors
  <1>6. IsFiniteSet(Anchors(a))
    <2>1. CASE Anchors(a) = {}
      BY <2>1, FS_EmptySet
    <2>2. ASSUME NEW k, Anchors(a) = {k} PROVE IsFiniteSet(Anchors(a))
      BY <2>2, FS_Singleton
    <2>. QED  BY <1>5, <2>1, <2>2
  <1>7. Anchors(a) \subseteq KnownBalance /\ \A k \in Anchors(a) : k.source = "anchor"
    BY DEF Anchors, Known, KnownBalance, IsAccount, Dated
  <1>8. Printed(a) \subseteq KnownBalance /\ \A k \in Printed(a) : k.source = "statement_closing"
    BY <1>1, <1>2 DEF Printed, Known, KnownBalance
  <1>9. \A k, l \in Printed(a) : k.order = l.order => k = l
    BY DEF Printed, Known
  <1>10. IsFiniteSet(KnownBalances(a))
    BY <1>3, <1>6, FS_Union DEF KnownBalances
  <1>11. \A k, l \in KnownBalances(a) : k.source = l.source /\ k.order = l.order => k = l
    BY <1>5, <1>7, <1>8, <1>9 DEF KnownBalances
  <1>. QED  BY <1>3, <1>7, <1>8, <1>10, <1>11 DEF KnownBalances

\* Of the known balances of one date one is kept.
LEMMA OnePerDate ==
  ASSUME NEW a, IsAccount(a), NEW known \in SUBSET KnownBalances(a)
  PROVE  \A k, l \in DeduplicateByDate(known) : k.date = l.date => k = l
  <1>1. SUFFICES ASSUME NEW k \in DeduplicateByDate(known), NEW l \in DeduplicateByDate(known), k.date = l.date, k # l
                 PROVE  FALSE
    OBVIOUS
  <1>2. PreferredOver(k, l) /\ PreferredOver(l, k)
    BY <1>1 DEF DeduplicateByDate
  <1>3. k \in KnownBalance /\ l \in KnownBalance
    BY <1>1, KnownAreTyped DEF DeduplicateByDate
  <1>. QED  BY <1>2, <1>3 DEF PreferredOver, KnownBalance

\* A finite set has a member of least measure.
LEMMA LeastMember ==
  ASSUME NEW S, S # {}, NEW f, \A x \in S : f[x] \in Nat
  PROVE  \E x \in S : \A y \in S : f[x] <= f[y]
  <1>. DEFINE T == {f[x] : x \in S}
  <1>1. PICK n \in T : \A m \in T : n <= m
    <2>1. T \in SUBSET Nat /\ T # {}
      OBVIOUS
    <2>. HIDE DEF T
    <2>. QED  BY <2>1, LeastNumber
  <1>. QED  BY <1>1

\* How far from the target, then the anchor first, then the earlier.
Distance(k, target) == 4 * Magnitude(k.date - target) + 2 * Rank(k) + (IF k.date > target THEN 1 ELSE 0)

LEMMA NearerByDistance ==
  ASSUME NEW k \in KnownBalance, NEW l \in KnownBalance, NEW target \in Int
  PROVE  /\ Distance(k, target) \in Nat
         /\ Distance(k, target) < Distance(l, target) => Nearer(k, l, target)
         /\ Distance(k, target) = Distance(l, target) => k.date = l.date
  <1>1. k.date \in Int /\ l.date \in Int /\ Rank(k) \in {0, 1} /\ Rank(l) \in {0, 1}
    BY DEF KnownBalance, Rank
  <1>. DEFINE d == Magnitude(k.date - target)
              e == Magnitude(l.date - target)
  <1>2. /\ d \in Nat /\ e \in Nat
        /\ k.date = (IF k.date > target THEN target + d ELSE target - d)
        /\ l.date = (IF l.date > target THEN target + e ELSE target - e)
    <2>1. \A x, t \in Int : Magnitude(x - t) \in Nat /\ x = IF x > t THEN t + Magnitude(x - t) ELSE t - Magnitude(x - t)
      BY DEF Magnitude
    <2>. QED  BY <1>1, <2>1
  <1>3. /\ Distance(k, target) = 4 * d + 2 * Rank(k) + (IF k.date > target THEN 1 ELSE 0)
        /\ Distance(l, target) = 4 * e + 2 * Rank(l) + (IF l.date > target THEN 1 ELSE 0)
    BY DEF Distance
  <1>4. /\ d < e => Nearer(k, l, target)
        /\ d = e /\ Rank(k) < Rank(l) => Nearer(k, l, target)
        /\ d = e /\ Rank(k) = Rank(l) /\ k.date < l.date => Nearer(k, l, target)
    BY DEF Nearer
  <1>. HIDE DEF d, e
  <1>. QED  BY <1>1, <1>2, <1>3, <1>4

LEMMA ReferenceIsChosen ==
  ASSUME NEW a, IsAccount(a), a.anchor # {}, NEW target \in Int
  PROVE  ChooseReference(KnownBalances(a), target) \in DeduplicateByDate(KnownBalances(a))
  <1>. DEFINE candidates == DeduplicateByDate(KnownBalances(a))
              f == [k \in candidates |-> Distance(k, target)]
  <1>1. candidates \subseteq KnownBalance
    BY KnownAreTyped DEF DeduplicateByDate
  <1>2. candidates # {}
    <2>1. PICK x \in a.anchor : a.anchor = {x}
      BY DEF IsAccount
    <2>2. PICK k \in KnownBalances(a) : Anchors(a) = {k} /\ k.source = "anchor"
      <3>1. Anchors(a) = {Known(x.balance, x.date, "anchor", 0)}
        BY <2>1 DEF Anchors
      <3>. QED  BY <3>1, KnownAreTyped DEF KnownBalances
    <2>3. \A l \in KnownBalances(a) \ {k} : PreferredOver(k, l)
      BY <2>2, KnownAreTyped DEF KnownBalances, PreferredOver
    <2>. QED  BY <2>3 DEF DeduplicateByDate
  <1>3. \A k \in candidates : f[k] \in Nat
    BY <1>1, NearerByDistance
  <1>4. PICK k \in candidates : \A l \in candidates : f[k] <= f[l]
    <2>. HIDE DEF candidates, f
    <2>. QED  BY <1>2, <1>3, LeastMember
  <1>5. ASSUME NEW l \in candidates \ {k} PROVE Nearer(k, l, target)
    <2>1. k \in KnownBalance /\ l \in KnownBalance
      BY <1>1
    <2>2. k.date # l.date
      BY OnePerDate
    <2>3. Distance(k, target) <= Distance(l, target)
      BY <1>4
    <2>. HIDE DEF candidates
    <2>. QED  BY <2>1, <2>2, <2>3, NearerByDistance
  <1>6. \E x \in candidates : \A l \in candidates \ {x} : Nearer(x, l, target)
    BY <1>5
  <1>. QED  BY <1>6 DEF ChooseReference

----------------------------------------------------------------------------
(* The series and the lookup                                               *)

LEMMA SameBalance ==
  ASSUME NEW a, IsAccount(a), a.anchor # {}, NEW target \in Int
  PROVE  PlottedBalance(a, target) = BalanceOnDate(a, target)
  <1>. DEFINE k == ChooseReference(KnownBalances(a), target)
  <1>1. k.balance \in Int /\ k.date \in Int
    BY ReferenceIsChosen, KnownAreTyped DEF DeduplicateByDate, KnownBalance
  <1>2. /\ PlottedBalance(a, target) = BalanceFromKnown(k, target, NetByIndex(a, FlowInterval(k, target)))
        /\ BalanceOnDate(a, target) = BalanceFromKnown(k, target, NetByQuery(a, FlowInterval(k, target)))
    BY DEF PlottedBalance, BalanceOnDate
  <1>. HIDE DEF k
  <1>. QED  BY <1>1, <1>2, BalanceIs

\* Every point of a series is the lookup of its day.
LEMMA PointsAreLookups ==
  ASSUME NEW accounts, \A a \in accounts : IsAccount(a), NEW day \in Int, NEW rates
  PROVE  PointIsLookup(accounts, day, rates)
  <1>. DEFINE row == [a \in DepositAccounts(accounts) |-> Lookup(a, day, rates)]
              Point(a) == Convert(a.currency, PlottedBalance(a, day), day, rates)
              point == [a \in WithAnchor(accounts) |-> Point(a)]
              looked == {a \in DOMAIN row : row[a].status = "ok"}
              plotted == {a \in DOMAIN point : point[a].sgd # {}}
  <1>1. /\ WithAnchor(accounts) \subseteq DepositAccounts(accounts)
        /\ \A a \in WithAnchor(accounts) : a.anchor # {} /\ IsAccount(a)
        /\ \A a \in DepositAccounts(accounts) : a \notin WithAnchor(accounts) => a.anchor = {}
    BY DEF WithAnchor, DepositAccounts
  <1>2. ASSUME NEW a \in WithAnchor(accounts)
        PROVE  /\ row[a].sgd = point[a].sgd /\ row[a].approximate = point[a].approximate
               /\ row[a].status = (IF point[a].sgd = {} THEN "fx_unavailable" ELSE "ok")
    <2>1. PlottedBalance(a, day) = BalanceOnDate(a, day)
      BY <1>1, SameBalance
    <2>2. row[a] = Lookup(a, day, rates) /\ point[a] = Convert(a.currency, BalanceOnDate(a, day), day, rates)
      BY <1>1, <2>1
    <2>. QED  BY <1>1, <2>2 DEF Lookup
  <1>3. ASSUME NEW a \in DepositAccounts(accounts), a \notin WithAnchor(accounts) PROVE row[a].status # "ok"
    <2>0. row[a] = Lookup(a, day, rates)
      BY <1>3
    <2>1. a.anchor = {}
      BY <1>3 DEF WithAnchor
    <2>2. Lookup(a, day, rates).status = "anchor_required"
      BY <2>1 DEF Lookup
    <2>. QED  BY <2>0, <2>2
  <1>4. /\ SeriesPoint(accounts, day, rates).perAccount = [a \in DOMAIN point |-> point[a].sgd]
        /\ SeriesPoint(accounts, day, rates).combined
               = IF plotted = {} THEN {} ELSE {SumFunction([a \in plotted |-> Single(point[a].sgd)])}
        /\ SeriesPoint(accounts, day, rates).approximate = {a \in plotted : point[a].approximate}
    BY DEF SeriesPoint
  <1>5. /\ GetBalances(accounts, day, rates).accounts = row
        /\ GetBalances(accounts, day, rates).total
               = IF looked = {} THEN {} ELSE {SumFunction([a \in looked |-> Single(row[a].sgd)])}
    BY DEF GetBalances
  <1>6. DOMAIN row = DepositAccounts(accounts) /\ DOMAIN point = WithAnchor(accounts)
    OBVIOUS
  <1>7. ASSUME NEW a \in WithAnchor(accounts), point[a].sgd = {} PROVE ~point[a].approximate
    BY <1>7 DEF Convert
  <1>. HIDE DEF row, point
  <1>8. looked = plotted /\ plotted \subseteq WithAnchor(accounts)
    BY <1>1, <1>2, <1>3, <1>6
  <1>9. [a \in looked |-> Single(row[a].sgd)] = [a \in plotted |-> Single(point[a].sgd)]
    BY <1>2, <1>8
  <1>10. SeriesPoint(accounts, day, rates).combined = GetBalances(accounts, day, rates).total
    BY <1>4, <1>5, <1>8, <1>9
  <1>11. ASSUME NEW a \in WithAnchor(accounts)
         PROVE  /\ SeriesPoint(accounts, day, rates).perAccount[a] = GetBalances(accounts, day, rates).accounts[a].sgd
                /\ a \in SeriesPoint(accounts, day, rates).approximate
                       <=> GetBalances(accounts, day, rates).accounts[a].approximate
    BY <1>2, <1>4, <1>5, <1>6, <1>7
  <1>. QED  BY <1>10, <1>11 DEF PointIsLookup

----------------------------------------------------------------------------
(* Discrepancies                                                           *)

\* The difference of a printed balance from what the anchor alone gives.
LEMMA DifferenceIs ==
  ASSUME NEW a, IsAccount(a), NEW anchor \in KnownBalance, anchor = Single(Anchors(a)), NEW c \in KnownBalance
  PROVE  /\ Difference(a, c) = (c.balance - Through(a, c.date)) - (anchor.balance - Through(a, anchor.date))
         /\ Difference(a, c) \in Int
  <1>1. /\ anchor.balance \in Int /\ anchor.date \in Int /\ c.balance \in Int /\ c.date \in Int
        /\ Through(a, c.date) \in Int /\ Through(a, anchor.date) \in Int
    BY ThroughIsInt DEF KnownBalance
  <1>2. Difference(a, c) = c.balance - BalanceFromKnown(anchor, c.date, NetByIndex(a, FlowInterval(anchor, c.date)))
    BY DEF Difference
  <1>3. BalanceFromKnown(anchor, c.date, NetByIndex(a, FlowInterval(anchor, c.date)))
            = anchor.balance + (Through(a, c.date) - Through(a, anchor.date))
    BY <1>1, BalanceIs
  <1>. QED  BY <1>1, <1>2, <1>3

\* Without a gap between one printed balance and the next they differ alike.
LEMMA NoGapNoChange ==
  ASSUME NEW a, IsAccount(a), a.anchor # {}, PeriodGaps(a, 0) = {}
  PROVE  \A c, e \in DeduplicateByDate(Printed(a)) : Difference(a, c) = Difference(a, e)
  <1>. DEFINE closings == DeduplicateByDate(Printed(a))
              Spread == {p \in closings \X closings : p[1].date < p[2].date /\ Difference(a, p[1]) # Difference(a, p[2])}
              width == [p \in Spread |-> p[2].date - p[1].date]
  <1>1. PICK anchor \in KnownBalance : anchor = Single(Anchors(a))
    <2>1. PICK x \in a.anchor : a.anchor = {x}
      BY DEF IsAccount
    <2>2. Anchors(a) = {Known(x.balance, x.date, "anchor", 0)}
      BY <2>1 DEF Anchors
    <2>. QED  BY <2>2, KnownAreTyped DEF Single, KnownBalances
  <1>2. closings \subseteq KnownBalance /\ closings \subseteq Printed(a)
    BY KnownAreTyped DEF DeduplicateByDate, KnownBalances
  <1>3. \A c \in closings : c.date \in Int /\ c.balance \in Int /\ Through(a, c.date) \in Int /\ Difference(a, c) \in Int
    BY <1>1, <1>2, DifferenceIs, ThroughIsInt DEF KnownBalance
  <1>4. ASSUME NEW p \in Consecutive(closings) PROVE Difference(a, p[1]) = Difference(a, p[2])
    <2>. DEFINE c == p[1]  e == p[2]
    <2>1. c \in closings /\ e \in closings /\ c.date < e.date
      BY DEF Consecutive
    <2>2. ~(Magnitude(Gap(a, c, e)) > 0)
      BY <1>4 DEF PeriodGaps
    <2>3. Gap(a, c, e) = e.balance - c.balance - (Through(a, e.date) - Through(a, c.date))
      BY <1>3, <2>1, IndexNet DEF Gap
    <2>4. Gap(a, c, e) \in Int
      BY <1>3, <2>1, <2>3
    <2>5. Gap(a, c, e) = 0
      BY <2>2, <2>4 DEF Magnitude
    <2>. HIDE DEF c, e
    <2>6. /\ Difference(a, c) = (c.balance - Through(a, c.date)) - (anchor.balance - Through(a, anchor.date))
          /\ Difference(a, e) = (e.balance - Through(a, e.date)) - (anchor.balance - Through(a, anchor.date))
      BY <1>1, <1>2, <2>1, DifferenceIs
    <2>7. anchor.balance \in Int /\ Through(a, anchor.date) \in Int
      BY <1>1, ThroughIsInt DEF KnownBalance
    <2>. HIDE DEF closings
    <2>8. Difference(a, c) = Difference(a, e)
      BY <1>3, <2>1, <2>3, <2>5, <2>6, <2>7
    <2>. QED  BY <2>8 DEF c, e
  <1>5. Spread = {}
    <2>1. SUFFICES ASSUME Spread # {} PROVE FALSE
      OBVIOUS
    <2>2. \A p \in Spread : width[p] \in Nat
      BY <1>3
    <2>3. PICK p \in Spread : \A q \in Spread : width[p] <= width[q]
      <3>. HIDE DEF Spread, width
      <3>. QED  BY <2>1, <2>2, LeastMember
    <2>4. CASE p \in Consecutive(closings)
      BY <1>4, <2>4
    <2>5. CASE p \notin Consecutive(closings)
      <3>1. p \in closings \X closings /\ p[1].date < p[2].date
        OBVIOUS
      <3>2. PICK m \in closings : p[1].date < m.date /\ m.date < p[2].date
        BY <2>5, <3>1 DEF Consecutive
      <3>3. <<p[1], m>> \notin Spread /\ <<m, p[2]>> \notin Spread
        BY <1>3, <2>3, <3>1, <3>2
      <3>4. Difference(a, p[1]) = Difference(a, m) /\ Difference(a, m) = Difference(a, p[2])
        BY <3>1, <3>2, <3>3
      <3>. QED  BY <3>4
    <2>. QED  BY <2>4, <2>5
  <1>6. ASSUME NEW c \in closings, NEW e \in closings PROVE Difference(a, c) = Difference(a, e)
    <2>0. <<c, e>> \notin Spread /\ <<e, c>> \notin Spread
      BY <1>5
    <2>1. CASE c.date < e.date
      BY <2>0, <2>1
    <2>2. CASE e.date < c.date
      BY <2>0, <2>2
    <2>3. CASE c.date = e.date
      <3>1. Printed(a) \in SUBSET KnownBalances(a)
        BY DEF KnownBalances
      <3>2. c = e
        BY <2>3, <3>1, OnePerDate
      <3>. QED  BY <3>2
    <2>. HIDE DEF closings
    <2>. QED  BY <1>3, <2>1, <2>2, <2>3
  <1>. QED  BY <1>6

LEMMA DiscrepanciesAreAll ==
  ASSUME NEW a, IsAccount(a), a.anchor # {}, NEW days \in SUBSET Int, NEW tolerance \in Nat
  PROVE  DiscrepanciesExplainBalances(a, days, tolerance)
  <1>. DEFINE anchor == Single(Anchors(a))
              FromAnchor(day) == BalanceFromKnown(anchor, day, NetByQuery(a, FlowInterval(anchor, day)))
  <1>1. anchor \in KnownBalance /\ Anchors(a) = {anchor}
    <2>1. PICK x \in a.anchor : a.anchor = {x}
      BY DEF IsAccount
    <2>2. Anchors(a) = {Known(x.balance, x.date, "anchor", 0)}
      BY <2>1 DEF Anchors
    <2>. QED  BY <2>2, KnownAreTyped DEF Single, KnownBalances
  <1>. HIDE DEF anchor
  <1>2. ASSUME StatementDifferences(a, tolerance) = {}, NEW day \in days
        PROVE  Magnitude(BalanceOnDate(a, day) - FromAnchor(day)) <= tolerance
    <2>. DEFINE k == ChooseReference(KnownBalances(a), day)
    <2>1. k \in DeduplicateByDate(KnownBalances(a)) /\ k \in KnownBalances(a) /\ k \in KnownBalance
      BY ReferenceIsChosen, KnownAreTyped DEF DeduplicateByDate
    <2>2. BalanceOnDate(a, day) = BalanceFromKnown(k, day, NetByQuery(a, FlowInterval(k, day)))
      BY DEF BalanceOnDate
    <2>. HIDE DEF k
    <2>3. /\ k.balance \in Int /\ k.date \in Int /\ anchor.balance \in Int /\ anchor.date \in Int
          /\ Through(a, k.date) \in Int /\ Through(a, anchor.date) \in Int /\ Through(a, day) \in Int
      BY <1>1, <2>1, ThroughIsInt DEF KnownBalance
    <2>4. /\ BalanceOnDate(a, day) = k.balance + (Through(a, day) - Through(a, k.date))
          /\ FromAnchor(day) = anchor.balance + (Through(a, day) - Through(a, anchor.date))
      BY <2>2, <2>3, BalanceIs
    <2>5. CASE k \in Anchors(a)
      <3>1. k = anchor
        BY <1>1, <2>5
      <3>. HIDE DEF FromAnchor
      <3>2. BalanceOnDate(a, day) - FromAnchor(day) = 0
        BY <2>3, <2>4, <3>1
      <3>. QED  BY <3>2 DEF Magnitude
    <2>6. CASE k \notin Anchors(a)
      <3>1. k \in DeduplicateByDate(Printed(a))
        BY <2>1, <2>6 DEF DeduplicateByDate, KnownBalances
      <3>2. ~(Magnitude(Difference(a, k)) > tolerance)
        BY <1>2, <3>1 DEF StatementDifferences
      <3>3. Difference(a, k) = (k.balance - Through(a, k.date)) - (anchor.balance - Through(a, anchor.date))
            /\ Difference(a, k) \in Int
        BY <1>1, <2>1, DifferenceIs DEF anchor
      <3>. HIDE DEF FromAnchor
      <3>4. BalanceOnDate(a, day) - FromAnchor(day) = Difference(a, k)
        BY <2>3, <2>4, <3>3
      <3>5. Magnitude(Difference(a, k)) \in Nat
        BY <3>3 DEF Magnitude
      <3>. QED  BY <3>2, <3>4, <3>5
    <2>. QED  BY <2>5, <2>6
  <1>3. PeriodGaps(a, 0) = {} =>
            \A c, e \in DeduplicateByDate(Printed(a)) : Difference(a, c) = Difference(a, e)
    BY NoGapNoChange
  <1>. QED  BY <1>2, <1>3 DEF DiscrepanciesExplainBalances, anchor

----------------------------------------------------------------------------
(* Dates that can be read both ways                                        *)

LEMMA DateFields ==
  ASSUME NEW d \in CalendarDate
  PROVE  /\ d.y \in Int /\ d.m \in 1 .. 12 /\ d.d \in 1 .. 31 /\ d.d <= DaysInMonth(d.y, d.m)
         /\ d = DateOf(d.y, d.m, d.d) /\ Ordinal(d) \in Int
  <1>1. d \in [y : Int, m : 1 .. 12, d : 1 .. 31] /\ d.d <= DaysInMonth(d.y, d.m)
    BY DEF CalendarDate
  <1>2. d = DateOf(d.y, d.m, d.d)
    BY <1>1 DEF DateOf
  <1>. QED  BY <1>1, <1>2, DateInPeriod

\* The other reading is a date too, and its other reading is the first.
LEMMA OtherReading ==
  ASSUME NEW d \in CalendarDate, Swapped(d) # {}
  PROVE  /\ Swapped(d) = {SwapString(d)}
         /\ SwapString(d) \in CalendarDate
         /\ Swapped(SwapString(d)) = {d} /\ SwapString(d) # d
         /\ SwapString(d).y = d.y /\ SwapString(d).m = d.d /\ SwapString(d).d = d.m
         /\ d.d \in 1 .. 12 /\ d.d # d.m
  <1>. DEFINE q == SwapString(d)
  <1>1. /\ d.y \in Int /\ d.m \in 1 .. 12 /\ d.d \in 1 .. 31 /\ d = DateOf(d.y, d.m, d.d)
    BY DateFields
  <1>2. ~(d.d > 12 \/ d.d = d.m) /\ Swapped(d) = {q}
    BY DEF Swapped
  <1>3. d.d \in 1 .. 12
    BY <1>1, <1>2
  <1>4. q = [y |-> d.y, m |-> d.d, d |-> d.m]
    BY DEF SwapString, DateOf
  <1>5. q.y = d.y /\ q.m = d.d /\ q.d = d.m
    BY <1>4
  <1>6. DaysInMonth(d.y, d.d) \in 28 .. 31
    BY <1>1, <1>3, MonthLength
  <1>7. q \in CalendarDate
    <2>1. d.m <= DaysInMonth(d.y, d.d) /\ d.m \in 1 .. 31
      BY <1>1, <1>6
    <2>. QED  BY <1>1, <1>3, <1>4, <1>5, <2>1 DEF CalendarDate
  <1>8. Swapped(q) = {DateOf(q.y, q.d, q.m)}
    <2>1. ~(q.d > 12 \/ q.d = q.m)
      BY <1>1, <1>2, <1>5
    <2>. HIDE DEF q
    <2>. QED  BY <2>1 DEF Swapped, SwapString
  <1>9. DateOf(q.y, q.d, q.m) = d /\ q # d
    BY <1>1, <1>2, <1>5
  <1>. HIDE DEF q
  <1>10. /\ Swapped(d) = {q} /\ q \in CalendarDate /\ Swapped(q) = {d} /\ q # d
         /\ q.y = d.y /\ q.m = d.d /\ q.d = d.m /\ d.d \in 1 .. 12 /\ d.d # d.m
    BY <1>2, <1>3, <1>5, <1>7, <1>8, <1>9
  <1>. QED  BY <1>10 DEF q

\* The two readings of a date are four weeks apart, but for a day.
LEMMA ReadingsApart ==
  ASSUME NEW d \in CalendarDate, Swapped(d) # {}
  PROVE  LET q == SwapString(d)
         IN  Ordinal(q) >= Ordinal(d) + 27 \/ Ordinal(d) >= Ordinal(q) + 27
  <1>. DEFINE q == SwapString(d)
              y == d.y
              m == d.m
              l == d.d
  <1>1. y \in Int /\ m \in 1 .. 12 /\ l \in 1 .. 12 /\ l # m
    BY DateFields, OtherReading
  <1>2. Ordinal(d) = DaysBeforeYear(y) + DaysBeforeMonth(y, m) + l
    BY DEF Ordinal
  <1>3. Ordinal(q) = DaysBeforeYear(y) + DaysBeforeMonth(y, l) + m
    BY OtherReading DEF Ordinal
  <1>. HIDE DEF q, y, m, l
  <1>4. ASSUME NEW i \in 1 .. 12, NEW j \in 1 .. 12, i < j
        PROVE  DaysBeforeMonth(y, j) + i >= DaysBeforeMonth(y, i) + j + 27
    <2>1. /\ DaysBeforeMonth(y, i) \in 0 .. 335 /\ DaysBeforeMonth(y, i) <= 30 * (i - 1) + 5
      BY <1>1, MonthsInOrder
    <2>2. /\ DaysBeforeMonth(y, j) \in 0 .. 335 /\ 30 * (j - 1) - 1 <= DaysBeforeMonth(y, j)
      BY <1>1, MonthsInOrder
    <2>3. DaysBeforeMonth(y, i) + DaysInMonth(y, i) <= DaysBeforeMonth(y, j)
      BY <1>1, <1>4, MonthsInOrder
    <2>4. DaysInMonth(y, i) \in 28 .. 31
      BY <1>1, MonthLength
    <2>. DEFINE before == DaysBeforeMonth(y, i)
                later == DaysBeforeMonth(y, j)
                length == DaysInMonth(y, i)
    <2>5. /\ before \in Int /\ later \in Int /\ length \in Int /\ i \in Int /\ j \in Int
          /\ before <= 30 * (i - 1) + 5 /\ 30 * (j - 1) - 1 <= later
          /\ before + length <= later /\ 28 <= length
      BY <2>1, <2>2, <2>3, <2>4
    <2>. SUFFICES later + i >= before + j + 27
      OBVIOUS
    <2>. HIDE DEF before, later, length
    <2>6. CASE j = i + 1
      BY <2>5, <2>6
    <2>7. CASE j # i + 1
      <3>1. j >= i + 2
        BY <1>4, <2>5, <2>7
      <3>. QED  BY <2>5, <3>1
    <2>. QED  BY <2>6, <2>7
  <1>. DEFINE Y == DaysBeforeYear(y)
              M == DaysBeforeMonth(y, m)
              L == DaysBeforeMonth(y, l)
  <1>5. Y \in Int
    BY <1>1, YearLength
  <1>6. M \in 0 .. 335
    BY <1>1, MonthsInOrder
  <1>7. L \in 0 .. 335
    BY <1>1, MonthsInOrder
  <1>8. /\ m < l => L + m >= M + l + 27
        /\ l < m => M + l >= L + m + 27
    BY <1>1, <1>4
  <1>9. Ordinal(d) = Y + M + l /\ Ordinal(q) = Y + L + m
    BY <1>2, <1>3
  <1>. HIDE DEF Y, M, L
  <1>10. Ordinal(q) >= Ordinal(d) + 27 \/ Ordinal(d) >= Ordinal(q) + 27
    BY <1>1, <1>5, <1>6, <1>7, <1>8, <1>9
  <1>. QED  BY <1>10 DEF q

\* Of the readings of a day less than four weeks after another, the one the
\* repair chooses is that day.
Close(d, e) == NotAfter(d, e) /\ DaysBetween(d, e) <= 26

LEMMA CloseDays ==
  ASSUME NEW d \in CalendarDate, NEW e \in CalendarDate
  PROVE  Close(d, e) <=> Ordinal(d) <= Ordinal(e) /\ Ordinal(e) <= Ordinal(d) + 26
  <1>1. Ordinal(d) \in Int /\ Ordinal(e) \in Int
    BY DateFields
  <1>. QED  BY <1>1 DEF Close, NotAfter, DaysBetween

LEMMA NearestIsRead ==
  ASSUME NEW last \in CalendarDate, NEW d \in CalendarDate, Close(last, d), Swapped(d) # {}
  PROVE  LET q == SwapString(d)
         IN  ChosenReading(d, q, last) = d /\ ChosenReading(q, d, last) = d
  <1>. DEFINE q == SwapString(d)
              forward == {x \in {d, q} : NotAfter(last, x)}
  <1>1. q \in CalendarDate /\ q # d
    BY OtherReading
  <1>2. Ordinal(q) >= Ordinal(d) + 27 \/ Ordinal(d) >= Ordinal(q) + 27
    BY ReadingsApart
  <1>3. Ordinal(last) <= Ordinal(d) /\ Ordinal(d) <= Ordinal(last) + 26
    BY CloseDays
  <1>. HIDE DEF q
  <1>4. Ordinal(q) \in Int /\ Ordinal(d) \in Int /\ Ordinal(last) \in Int
    BY <1>1, DateFields
  <1>5. d \in forward /\ {q, d} = {d, q}
    BY <1>3 DEF NotAfter
  <1>6. CASE NotAfter(last, q)
    <2>1. forward = {d, q}
      BY <1>5, <1>6
    <2>2. Ordinal(q) >= Ordinal(d) + 27
      BY <1>2, <1>3, <1>4, <1>6 DEF NotAfter
    <2>3. DaysBetween(d, last) = Ordinal(d) - Ordinal(last) /\ DaysBetween(q, last) = Ordinal(q) - Ordinal(last)
      BY <1>3, <1>6 DEF DaysBetween, NotAfter
    <2>4. DaysBetween(d, last) < DaysBetween(q, last) /\ ~(DaysBetween(q, last) < DaysBetween(d, last))
      BY <1>4, <2>2, <2>3
    <2>5. NearestReading(d, q, last) = d /\ NearestReading(q, d, last) = d
      BY <2>4 DEF NearestReading
    <2>6. ChosenReading(d, q, last) = NearestReading(d, q, last)
      BY <2>1 DEF ChosenReading
    <2>7. ChosenReading(q, d, last) = NearestReading(q, d, last)
      BY <1>5, <2>1 DEF ChosenReading
    <2>. QED  BY <2>5, <2>6, <2>7 DEF q
  <1>7. CASE ~NotAfter(last, q)
    <2>1. forward = {d} /\ forward # {d, q} /\ forward # {} /\ (CHOOSE x \in forward : TRUE) = d
      BY <1>1, <1>5, <1>7
    <2>2. ChosenReading(d, q, last) = d /\ ChosenReading(q, d, last) = d
      BY <1>5, <2>1 DEF ChosenReading
    <2>. QED  BY <2>2 DEF q
  <1>. QED  BY <1>6, <1>7

\* The statement's date is found, whichever way it was read.
LEMMA StatementDateFound ==
  ASSUME NEW s \in CalendarDate, NEW raw, raw # {}, raw \subseteq {s} \cup Swapped(s),
         NEW trusted \in SUBSET CalendarDate, trusted # {}, \A t \in trusted : Close(t, s)
  PROVE  ResolveStatementDate(raw, trusted) = {s}
  <1>. DEFINE q == SwapString(s)
              other == UNION {Swapped(r) : r \in raw}
              inWindow == {d \in raw \cup other : InWindowAfter(d, trusted)}
  <1>1. Swapped(s) = {} \/ (Swapped(s) = {q} /\ Swapped(q) = {s})
    BY OtherReading
  <1>2. s \in raw \cup other /\ raw \cup other \subseteq {s} \cup Swapped(s)
    <2>. HIDE DEF q
    <2>. QED  BY <1>1
  <1>3. ASSUME NEW t \in trusted
        PROVE  Ordinal(t) \in Int /\ Ordinal(s) \in Int /\ Ordinal(t) <= Ordinal(s) /\ Ordinal(s) <= Ordinal(t) + 26
    BY CloseDays, DateFields
  <1>4. InWindowAfter(s, trusted)
    <2>1. ASSUME NEW t \in trusted PROVE NotAfter(t, s) /\ Ordinal(s) <= Ordinal(t) + 45
      BY <1>3 DEF NotAfter
    <2>. QED  BY <2>1 DEF InWindowAfter, MaxGap
  <1>5. ASSUME NEW d \in inWindow PROVE NotAfter(s, d) /\ (NotAfter(d, s) => d = s)
    <2>1. d = s \/ (d = q /\ Swapped(s) # {})
      BY <1>1, <1>2
    <2>2. CASE d = s
      BY <2>2, DateFields DEF NotAfter
    <2>3. CASE d = q /\ Swapped(s) # {}
      <3>1. q \in CalendarDate /\ Ordinal(q) \in Int
        BY <2>3, OtherReading, DateFields
      <3>2. Ordinal(q) >= Ordinal(s) + 27 \/ Ordinal(s) >= Ordinal(q) + 27
        BY <2>3, ReadingsApart
      <3>. HIDE DEF q
      <3>3. PICK t \in trusted : Ordinal(t) <= Ordinal(q)
        BY <2>3 DEF InWindowAfter, NotAfter
      <3>4. Ordinal(q) >= Ordinal(s) + 27
        BY <1>3, <3>1, <3>2, <3>3
      <3>. QED  BY <1>3, <2>3, <3>1, <3>3, <3>4 DEF NotAfter
    <2>. QED  BY <2>1, <2>2, <2>3
  <1>6. s \in inWindow
    BY <1>2, <1>4
  <1>7. ResolveStatementDate(raw, trusted) = FirstOf(inWindow)
    BY DEF ResolveStatementDate
  <1>. HIDE DEF inWindow
  <1>8. FirstOf(inWindow) = {s}
    BY <1>5, <1>6 DEF FirstOf
  <1>. QED  BY <1>7, <1>8

----------------------------------------------------------------------------
(* The dates of a section misread in part                                  *)

LEMMA LineFields ==
  ASSUME NEW l \in Line
  PROVE  l.date \in CalendarDate /\ l = [date |-> l.date, kind |-> l.kind]
  BY DEF Line

\* What a line may have been read as.
LEMMA LineRead ==
  ASSUME NEW p \in Seq(Line), NEW wrong \in SUBSET Misreadable(p), NEW i \in DOMAIN p
  PROVE  LET l == MisreadAt(p, wrong)[i]
         IN  /\ p[i] \in Line /\ l \in Line /\ l.kind = p[i].kind
             /\ l.date = p[i].date \/ (Swapped(p[i].date) # {} /\ l.date = SwapString(p[i].date))
             /\ i \notin wrong => l = p[i]
             /\ [l EXCEPT !.date = p[i].date] = p[i]
             /\ l.date.d > 12 \/ p[i].date.d > 12 => l = p[i]
  <1>. DEFINE l == MisreadAt(p, wrong)[i]
              d == p[i].date
  <1>1. p[i] \in Line /\ d \in CalendarDate /\ p[i] = [date |-> d, kind |-> p[i].kind]
    <2>1. p[i] \in Line
      <3>1. DOMAIN p = 1 .. Len(p)
        BY LenProperties
      <3>. QED  BY <3>1, ElementOfSeq
    <2>. QED  BY <2>1, LineFields
  <1>2. l = IF i \in wrong THEN [p[i] EXCEPT !.date = SwapString(@)] ELSE p[i]
    BY DEF MisreadAt
  <1>3. i \in wrong => Swapped(d) # {}
    BY DEF Misreadable
  <1>4. CASE i \in wrong
    <2>1. l = [date |-> SwapString(d), kind |-> p[i].kind]
      <3>1. [p[i] EXCEPT !.date = SwapString(@)] = [date |-> SwapString(d), kind |-> p[i].kind]
        BY <1>1
      <3>. QED  BY <1>2, <1>4, <3>1
    <2>2. SwapString(d) \in CalendarDate /\ SwapString(d).d = d.m /\ d.d \in 1 .. 12 /\ d.m \in 1 .. 12
      BY <1>1, <1>3, <1>4, OtherReading, DateFields
    <2>3. ~(d.d > 12) /\ ~(SwapString(d).d > 12)
      BY <2>2
    <2>. HIDE DEF l, d
    <2>4. l \in Line /\ l.kind = p[i].kind /\ l.date = SwapString(d)
      BY <1>1, <2>1, <2>2 DEF Line
    <2>5. [l EXCEPT !.date = d] = p[i]
      BY <1>1, <2>1
    <2>. QED  BY <1>1, <1>3, <1>4, <2>3, <2>4, <2>5 DEF l, d
  <1>5. CASE i \notin wrong
    <2>1. l = p[i]
      BY <1>2, <1>5
    <2>. HIDE DEF l
    <2>2. [l EXCEPT !.date = d] = p[i]
      BY <1>1, <2>1
    <2>. QED  BY <1>1, <2>1, <2>2 DEF l
  <1>. QED  BY <1>4, <1>5

\* The dates that can be read one way only are those printed.
LEMMA SameTrusted ==
  ASSUME NEW A, NEW B,
         {x \in A : x.kind # "payment" /\ x.date.d > 12} = {x \in B : x.kind # "payment" /\ x.date.d > 12}
  PROVE  TrustedMax(A) = TrustedMax(B)
  BY DEF TrustedMax

LEMMA TrustedOfSection ==
  ASSUME NEW p \in Seq(Line), NEW wrong \in SUBSET Misreadable(p)
  PROVE  TrustedMax({MisreadAt(p, wrong)[i] : i \in DOMAIN MisreadAt(p, wrong)}) = TrustedMax({p[i] : i \in DOMAIN p})
  <1>. DEFINE r == MisreadAt(p, wrong)
  <1>1. DOMAIN r = DOMAIN p
    BY DEF MisreadAt
  <1>2. ASSUME NEW i \in DOMAIN p
        PROVE  (r[i].kind # "payment" /\ r[i].date.d > 12) \/ (p[i].kind # "payment" /\ p[i].date.d > 12) => r[i] = p[i]
    BY LineRead
  <1>. HIDE DEF r
  <1>3. {x \in {r[i] : i \in DOMAIN r} : x.kind # "payment" /\ x.date.d > 12}
          = {x \in {p[i] : i \in DOMAIN p} : x.kind # "payment" /\ x.date.d > 12}
    <2>1. ASSUME NEW x, x.kind # "payment", x.date.d > 12
          PROVE  x \in {r[i] : i \in DOMAIN r} <=> x \in {p[i] : i \in DOMAIN p}
      BY <1>1, <1>2, <2>1
    <2>. QED  BY <2>1
  <1>4. TrustedMax({r[i] : i \in DOMAIN r}) = TrustedMax({p[i] : i \in DOMAIN p})
    BY <1>3, SameTrusted
  <1>. QED  BY <1>4 DEF r

\* What is corrected after i lines: that many lines, of them as printed the
\* payments and those from a purchase read firmly on, and the date the next is
\* measured from when no purchase has come yet or one was read firmly.
Followed(acc, p, read, i) ==
    /\ acc.lines \in Seq(Line) /\ Len(acc.lines) = i
    /\ \A j \in 1 .. i : p[j].kind = "payment" \/ (\E f \in ReadFirmly(p, read) : f <= j) => acc.lines[j] = p[j]
    /\ PurchaseBefore(p, i + 1) = {} \/ (\E f \in ReadFirmly(p, read) : f <= i)
         => acc.last = {p[j].date : j \in PurchaseBefore(p, i + 1)}
    /\ (\E f \in ReadFirmly(p, read) : f <= i) => acc.last # {}

LEMMA ChosenIsARead ==
  ASSUME NEW a, NEW b, NEW last
  PROVE  ChosenReading(a, b, last) \in {a, b}
  <1>. DEFINE forward == {x \in {a, b} : NotAfter(last, x)}
  <1>1. NearestReading(a, b, last) \in {a, b}
    BY DEF NearestReading
  <1>2. ASSUME forward # {} PROVE (CHOOSE x \in forward : TRUE) \in {a, b}
    BY <1>2
  <1>. HIDE DEF forward
  <1>. QED  BY <1>1, <1>2 DEF ChosenReading, forward

LEMMA LineFollowed ==
  ASSUME NEW p \in Seq(Line), NEW s \in CalendarDate, InPrintOrder(p, s),
         NEW wrong \in SUBSET Misreadable(p), NEW i \in DOMAIN p,
         NEW acc, Followed(acc, p, MisreadAt(p, wrong), i - 1)
  PROVE  Followed(CorrectLine(acc, MisreadAt(p, wrong)[i], {s}), p, MisreadAt(p, wrong), i)
  <1>. DEFINE r == MisreadAt(p, wrong)
              l == r[i]
              d == p[i].date
              swapped == Swapped(l.date)
              Firm == ReadFirmly(p, r)
  <1>1. /\ p[i] \in Line /\ l \in Line /\ l.kind = p[i].kind /\ d \in CalendarDate
        /\ l.date = d \/ (Swapped(d) # {} /\ l.date = SwapString(d))
        /\ [l EXCEPT !.date = d] = p[i]
    BY LineRead, LineFields
  <1>2. i \in Nat /\ i - 1 \in Nat /\ (i - 1) + 1 = i /\ i \in 1 .. i /\ DOMAIN p \subseteq Nat
    <2>1. DOMAIN p = 1 .. Len(p)
      BY LenProperties
    <2>. QED  BY <2>1
  <1>3. /\ acc.lines \in Seq(Line) /\ Len(acc.lines) = i - 1
        /\ \A j \in 1 .. i - 1 : p[j].kind = "payment" \/ (\E f \in Firm : f <= j) => acc.lines[j] = p[j]
        /\ PurchaseBefore(p, i) = {} \/ (\E f \in Firm : f <= i - 1)
             => acc.last = {p[j].date : j \in PurchaseBefore(p, i)}
        /\ (\E f \in Firm : f <= i - 1) => acc.last # {}
    BY <1>2 DEF Followed
  <1>4. Firm \subseteq Purchases(p) /\ Purchases(p) \subseteq Nat
        /\ \A f \in Firm : f < i \/ f = i \/ f > i
    <2>1. Firm \subseteq Purchases(p) /\ Purchases(p) \subseteq DOMAIN p
      BY DEF ReadFirmly, Purchases
    <2>. HIDE DEF Firm
    <2>. QED  BY <1>2, <2>1
  <1>5. \/ Swapped(d) = {} /\ l.date = d /\ swapped = {}
        \/ swapped = {SwapString(d)} /\ l.date = d /\ Swapped(d) # {}
        \/ swapped = {d} /\ l.date = SwapString(d) /\ Swapped(d) # {}
    BY <1>1, OtherReading
  <1>6. SwapString(d) \in CalendarDate \/ swapped = {}
    BY <1>1, <1>5, OtherReading
  \* A line put after those before it.
  <1>7. ASSUME NEW x \in Line
        PROVE  /\ Append(acc.lines, x) \in Seq(Line) /\ Len(Append(acc.lines, x)) = i
               /\ \A j \in 1 .. i - 1 : Append(acc.lines, x)[j] = acc.lines[j]
               /\ Append(acc.lines, x)[i] = x
    <2>1. Append(acc.lines, x) \in Seq(Line) /\ Len(Append(acc.lines, x)) = Len(acc.lines) + 1
          /\ (\A j \in 1 .. Len(acc.lines) : Append(acc.lines, x)[j] = acc.lines[j])
          /\ Append(acc.lines, x)[Len(acc.lines) + 1] = x
      BY <1>3, AppendProperties
    <2>. QED  BY <1>2, <1>3, <2>1
  <1>8. \A j \in 1 .. i : j \in 1 .. i - 1 \/ j = i
    BY <1>2
  <1>9. CASE l.kind = "payment"
    <2>1. d = s /\ i \notin Purchases(p)
      BY <1>1, <1>9 DEF InPrintOrder, Purchases
    <2>2. PurchaseBefore(p, i + 1) = PurchaseBefore(p, i)
      BY <1>2, <2>1 DEF PurchaseBefore, Purchases
    <2>3. (IF swapped # {} /\ swapped = {s} THEN CHOOSE x \in swapped : TRUE ELSE l.date) = d
      <3>1. CASE swapped = {d}
        BY <2>1, <3>1
      <3>2. CASE swapped = {} /\ l.date = d
        BY <3>2
      <3>3. CASE swapped = {SwapString(d)} /\ l.date = d /\ Swapped(d) # {}
        <4>1. SwapString(d) # d
          BY <1>1, <3>3, OtherReading
        <4>. QED  BY <2>1, <3>3, <4>1
      <3>. QED  BY <1>5, <3>1, <3>2, <3>3
    <2>4. CorrectLine(acc, l, {s}) = [lines |-> Append(acc.lines, p[i]), last |-> acc.last]
      <3>1. CorrectLine(acc, l, {s}) = [lines |-> Append(acc.lines, [l EXCEPT !.date = d]), last |-> acc.last]
        BY <1>9, <2>3, Zenon DEF CorrectLine
      <3>. QED  BY <1>1, <3>1
    <2>5. \A f \in Firm : f <= i => f <= i - 1
      BY <1>2, <1>4, <2>1
    <2>. DEFINE new == CorrectLine(acc, l, {s})
    <2>6. new.lines = Append(acc.lines, p[i]) /\ new.last = acc.last
      <3>1. new = [lines |-> Append(acc.lines, p[i]), last |-> acc.last]
        BY <2>4
      <3>. HIDE DEF new
      <3>. QED  BY <3>1
    <2>. HIDE DEF new, Firm, l, swapped, d
    <2>7. new.lines \in Seq(Line) /\ Len(new.lines) = i
      BY <1>1, <1>7, <2>6
    <2>8. \A j \in 1 .. i : p[j].kind = "payment" \/ (\E f \in Firm : f <= j) => new.lines[j] = p[j]
      BY <1>1, <1>3, <1>7, <1>8, <2>6
    <2>9. /\ PurchaseBefore(p, i + 1) = {} \/ (\E f \in Firm : f <= i)
               => new.last = {p[j].date : j \in PurchaseBefore(p, i + 1)}
          /\ (\E f \in Firm : f <= i) => new.last # {}
      BY <1>3, <2>2, <2>5, <2>6
    <2>10. Followed(new, p, r, i)
      BY <2>7, <2>8, <2>9 DEF Followed, Firm
    <2>. QED  BY <2>10 DEF new, l
  <1>10. CASE l.kind # "payment"
    <2>1. i \in Purchases(p) /\ p[i].kind # "payment"
      BY <1>1, <1>10 DEF Purchases
    <2>2. PurchaseBefore(p, i + 1) = {i}
      BY <1>2, <2>1 DEF PurchaseBefore, Purchases
    <2>. DEFINE q == IF swapped = {} \/ acc.last = {} THEN l.date
                     ELSE ChosenReading(l.date, CHOOSE x \in swapped : TRUE, CHOOSE x \in acc.last : TRUE)
                new == CorrectLine(acc, l, {s})
    <2>3. new = [lines |-> Append(acc.lines, [l EXCEPT !.date = q]), last |-> {q}]
      <3>1. CASE swapped = {} \/ acc.last = {}
        <4>. HIDE DEF l
        <4>. QED  BY <1>10, <3>1, Zenon DEF CorrectLine
      <3>2. CASE ~(swapped = {} \/ acc.last = {})
        <4>. HIDE DEF l
        <4>. QED  BY <1>10, <3>2, Zenon DEF CorrectLine
      <3>. QED  BY <3>1, <3>2
    <2>4. q \in CalendarDate
      <3>1. l.date \in CalendarDate
        BY <1>1, LineFields
      <3>2. CASE swapped = {} \/ acc.last = {}
        BY <3>1, <3>2
      <3>3. CASE ~(swapped = {} \/ acc.last = {})
        <4>1. (CHOOSE x \in swapped : TRUE) \in swapped /\ swapped \subseteq CalendarDate
          BY <1>1, <1>5, <1>6, <3>3
        <4>2. q = ChosenReading(l.date, CHOOSE x \in swapped : TRUE, CHOOSE x \in acc.last : TRUE)
          BY <3>3
        <4>. HIDE DEF q, l, swapped
        <4>. QED  BY <3>1, <4>1, <4>2, ChosenIsARead
      <3>. QED  BY <3>2, <3>3
    \* After a purchase read firmly, the printed date is chosen.
    <2>5. ASSUME NEW f \in Firm, f <= i
          PROVE  q = d
      <3>1. CASE f = i
        <4>1. CASE Swapped(d) = {}
          BY <1>5, <4>1
        <4>2. CASE PurchaseBefore(p, i) = {} /\ r[i] = p[i]
          <5>1. acc.last = {} /\ l.date = d
            BY <1>3, <4>2
          <5>. QED  BY <5>1
        <4>. QED  BY <3>1, <4>1, <4>2 DEF ReadFirmly
      <3>2. CASE f # i
        <4>1. f <= i - 1
          BY <1>2, <1>4, <2>5, <3>2
        <4>2. acc.last = {p[j].date : j \in PurchaseBefore(p, i)} /\ acc.last # {}
          BY <1>3, <4>1
        <4>3. CASE swapped = {}
          BY <1>5, <4>3
        <4>4. CASE swapped # {}
          <5>1. PICK j \in PurchaseBefore(p, i) : TRUE
            BY <4>2
          <5>2. PurchaseBefore(p, i) = {j}
            BY <1>2 DEF PurchaseBefore, Purchases
          <5>3. acc.last = {p[j].date}
            BY <4>2, <5>2
          <5>4. Close(p[j].date, d) /\ p[j].date \in CalendarDate
            <6>1. j \in DOMAIN p
              BY DEF PurchaseBefore, Purchases
            <6>2. p[j] \in Line
              BY <6>1, LineRead
            <6>. QED  BY <2>1, <6>2, LineFields DEF InPrintOrder, Close
          <5>5. Swapped(d) # {} /\ (CHOOSE x \in acc.last : TRUE) = p[j].date
            BY <1>5, <4>4, <5>3
          <5>6. /\ ChosenReading(d, SwapString(d), p[j].date) = d
                /\ ChosenReading(SwapString(d), d, p[j].date) = d
            BY <1>1, <5>4, <5>5, NearestIsRead
          <5>7. \/ l.date = d /\ (CHOOSE x \in swapped : TRUE) = SwapString(d)
                \/ l.date = SwapString(d) /\ (CHOOSE x \in swapped : TRUE) = d
            BY <1>5, <4>4
          <5>8. q = ChosenReading(l.date, CHOOSE x \in swapped : TRUE, CHOOSE x \in acc.last : TRUE)
            BY <4>2, <4>4
          <5>. HIDE DEF l, d, swapped, q
          <5>. QED  BY <5>5, <5>6, <5>7, <5>8
        <4>. QED  BY <4>3, <4>4
      <3>. QED  BY <3>1, <3>2
    <2>6. [l EXCEPT !.date = q] \in Line
      <3>1. l = [date |-> l.date, kind |-> l.kind]
        BY <1>1, LineFields
      <3>2. [l EXCEPT !.date = q] = [date |-> q, kind |-> l.kind]
        <4>. HIDE DEF q, l
        <4>. QED  BY <3>1
      <3>. HIDE DEF q, l
      <3>. QED  BY <1>1, <2>4, <3>2 DEF Line
    <2>7. new.lines = Append(acc.lines, [l EXCEPT !.date = q]) /\ new.last = {q}
      <3>. HIDE DEF new, q, l
      <3>. QED  BY <2>3
    <2>8. (\E f \in Firm : f <= i) => q = d /\ [l EXCEPT !.date = q] = p[i]
      <3>. HIDE DEF q, l, d, Firm
      <3>. QED  BY <1>1, <2>5
    <2>. HIDE DEF new, q, Firm, l, swapped
    <2>9. new.lines \in Seq(Line) /\ Len(new.lines) = i
      BY <1>7, <2>6, <2>7
    <2>10. ASSUME NEW j \in 1 .. i, p[j].kind = "payment" \/ \E f \in Firm : f <= j
           PROVE  new.lines[j] = p[j]
      <3>1. CASE j \in 1 .. i - 1
        BY <1>3, <1>7, <2>6, <2>7, <2>10, <3>1
      <3>2. CASE j = i
        <4>1. \E f \in Firm : f <= i
          BY <2>1, <2>10, <3>2
        <4>2. new.lines[i] = [l EXCEPT !.date = q]
          BY <1>7, <2>6, <2>7
        <4>. QED  BY <2>8, <3>2, <4>1, <4>2
      <3>. QED  BY <1>8, <3>1, <3>2
    <2>11. {p[j].date : j \in PurchaseBefore(p, i + 1)} = {d} /\ PurchaseBefore(p, i + 1) # {}
      BY <2>2
    <2>12. /\ PurchaseBefore(p, i + 1) = {} \/ (\E f \in Firm : f <= i)
                => new.last = {p[j].date : j \in PurchaseBefore(p, i + 1)}
           /\ (\E f \in Firm : f <= i) => new.last # {}
      BY <2>7, <2>8, <2>11
    <2>13. Followed(new, p, r, i)
      BY <2>9, <2>10, <2>12 DEF Followed, Firm
    <2>. QED  BY <2>13 DEF new, l
  <1>. QED  BY <1>9, <1>10

\* The lines of a section are as many as were printed, and as printed where they
\* follow a purchase read firmly.
LEMMA SectionFollowed ==
  ASSUME NEW p \in Seq(Line), NEW s \in CalendarDate, InPrintOrder(p, s),
         NEW wrong \in SUBSET Misreadable(p)
  PROVE  LET r == MisreadAt(p, wrong)
             corrected == CorrectDates(r, {s})
         IN  /\ DOMAIN corrected = DOMAIN p
             /\ \A i \in Settled(p, r) : corrected[i] = p[i]
  <1>. DEFINE r == MisreadAt(p, wrong)
              n == Len(p)
              trusted == TrustedMax({r[i] : i \in DOMAIN r})
              Nothing == [lines |-> <<>>, last |-> {}]
  <1>1. n \in Nat /\ DOMAIN p = 1 .. n
    BY LenProperties
  <1>2. Len(r) = n
    <2>1. \A i \in DOMAIN p : r[i] \in Line
      BY LineRead
    <2>2. r = [i \in DOMAIN p |-> r[i]]
      BY DEF MisreadAt
    <2>. HIDE DEF r, n
    <2>3. r \in [1 .. n -> Line]
      BY <1>1, <2>1, <2>2
    <2>4. r \in Seq(Line) /\ DOMAIN r = 1 .. n
      BY <1>1, <2>3, SeqDef
    <2>. QED  BY <1>1, <2>4, LenProperties
  <1>3. ResolveStatementDate({s}, trusted) = {s}
    <2>1. trusted = TrustedMax({p[i] : i \in DOMAIN p})
      BY TrustedOfSection
    <2>. HIDE DEF trusted
    <2>2. trusted # {} /\ \A t \in trusted : Close(t, s)
      BY <2>1 DEF InPrintOrder, Close
    <2>3. trusted \in SUBSET CalendarDate
      <3>1. \A i \in DOMAIN p : p[i].date \in CalendarDate
        BY LineRead, LineFields
      <3>. QED  BY <2>1, <3>1 DEF TrustedMax, LastOf
    <2>. QED  BY <2>2, <2>3, StatementDateFound
  <1>4. ASSUME NEW i \in 1 .. n, NEW acc, Followed(acc, p, r, i - 1)
        PROVE  Followed(CorrectLine(acc, r[i], {s}), p, r, i)
    BY <1>1, <1>4, LineFollowed
  <1>5. Followed(Nothing, p, r, 0)
    <2>1. PurchaseBefore(p, 1) = {} /\ \A f \in ReadFirmly(p, r) : ~(f <= 0)
      BY <1>1 DEF PurchaseBefore, ReadFirmly, Purchases
    <2>2. 0 + 1 = 1 /\ 1 .. 0 = {} /\ <<>> \in Seq(Line) /\ Len(<<>>) = 0
      BY EmptySeq
    <2>. HIDE DEF r
    <2>3. {p[j].date : j \in PurchaseBefore(p, 1)} = {}
      BY <2>1
    <2>. QED  BY <2>1, <2>2, <2>3 DEF Followed
  <1>. DEFINE Correct(acc, i) == CorrectLine(acc, r[i], {s})
              Step(c, i) == IF i = 0 THEN Nothing ELSE Correct(c[i - 1], i)
              IsCorrected(c, m) == c = [i \in 0 .. m |-> Step(c, i)]
  <1>. HIDE DEF r, n, trusted, Correct, Nothing
  \* The lines can be corrected one after the other.
  <1>6. \E c : IsCorrected(c, n)
    <2>. DEFINE E == {m \in Nat : \E c : IsCorrected(c, m)}
    <2>1. 0 \in E
      <3>. DEFINE c == [i \in 0 .. 0 |-> Nothing]
      <3>1. \A i \in 0 .. 0 : Step(c, i) = Nothing
        OBVIOUS
      <3>2. IsCorrected(c, 0)
        <4>. HIDE DEF Step
        <4>. QED  BY <3>1
      <3>. QED  BY <3>2
    <2>2. ASSUME NEW m \in E PROVE m + 1 \in E
      <3>1. PICK c : IsCorrected(c, m)
        OBVIOUS
      <3>2. m \in Nat
        OBVIOUS
      <3>3. \A i \in 0 .. m : c[i] = Step(c, i)
        BY <3>1
      <3>. DEFINE d == [i \in 0 .. m + 1 |-> IF i = m + 1 THEN Correct(c[m], i) ELSE c[i]]
      <3>4. ASSUME NEW i \in 0 .. m + 1 PROVE d[i] = Step(d, i)
        <4>1. CASE i = m + 1
          <5>1. i # 0 /\ i - 1 = m /\ m \in 0 .. m + 1 /\ m # m + 1
            BY <3>2, <4>1
          <5>2. d[i - 1] = c[m] /\ d[i] = Correct(c[m], i)
            BY <4>1, <5>1
          <5>. HIDE DEF d
          <5>. QED  BY <5>1, <5>2
        <4>2. CASE i # m + 1 /\ i # 0
          <5>1. i \in 0 .. m /\ i - 1 \in 0 .. m + 1 /\ i - 1 # m + 1
            BY <3>2, <4>2
          <5>2. d[i - 1] = c[i - 1] /\ d[i] = c[i]
            BY <4>2, <5>1
          <5>. HIDE DEF d
          <5>. QED  BY <3>3, <4>2, <5>1, <5>2
        <4>3. CASE i # m + 1 /\ i = 0
          <5>1. 0 \in 0 .. m
            BY <3>2
          <5>2. d[i] = c[0] /\ c[0] = Nothing
            BY <3>3, <4>3, <5>1
          <5>. HIDE DEF d
          <5>. QED  BY <4>3, <5>2
        <4>. QED  BY <4>1, <4>2, <4>3
      <3>5. IsCorrected(d, m + 1)
        <4>. HIDE DEF Step
        <4>1. [i \in 0 .. m + 1 |-> d[i]] = d
          OBVIOUS
        <4>2. [i \in 0 .. m + 1 |-> d[i]] = [i \in 0 .. m + 1 |-> Step(d, i)]
          <5>. HIDE DEF d
          <5>. QED  BY <3>4
        <4>. HIDE DEF d
        <4>. QED  BY <4>1, <4>2
      <3>. HIDE DEF d, IsCorrected
      <3>. QED  BY <3>2, <3>5
    <2>. HIDE DEF IsCorrected
    <2>3. E \subseteq Nat
      OBVIOUS
    <2>. HIDE DEF E
    <2>4. n \in E
      BY <1>1, <2>1, <2>2, <2>3, Numbers
    <2>. QED  BY <2>4 DEF E
  <1>7. PICK c : IsCorrected(c, n) /\ CorrectDates(r, {s}) = c[n].lines
    <2>1. IsCorrected(CHOOSE c : IsCorrected(c, n), n)
      BY <1>6, Zenon
    <2>. QED  BY <1>2, <1>3, <2>1, Zenon DEF CorrectDates, trusted, Correct, Nothing
  <1>8. \A i \in 0 .. n : c[i] = Step(c, i)
    BY <1>7
  <1>. HIDE DEF IsCorrected
  <1>. DEFINE T == {i \in Nat : i <= n => Followed(c[i], p, r, i)}
  <1>9. 0 \in T
    <2>1. 0 \in 0 .. n
      BY <1>1
    <2>2. c[0] = Nothing
      BY <1>8, <2>1
    <2>. QED  BY <1>5, <2>2
  <1>10. ASSUME NEW i \in T PROVE i + 1 \in T
    <2>1. SUFFICES ASSUME i + 1 <= n PROVE Followed(c[i + 1], p, r, i + 1)
      OBVIOUS
    <2>2. i \in Nat /\ Followed(c[i], p, r, i) /\ i + 1 \in 0 .. n /\ i + 1 \in 1 .. n /\ i + 1 # 0 /\ (i + 1) - 1 = i
      BY <1>1, <2>1
    <2>3. c[i + 1] = Correct(c[i], i + 1)
      BY <1>8, <2>2
    <2>. HIDE DEF T, Step
    <2>. QED  BY <1>4, <2>2, <2>3 DEF Correct
  <1>11. n \in T
    <2>1. T \subseteq Nat
      OBVIOUS
    <2>. HIDE DEF T
    <2>. QED  BY <1>1, <2>1, <1>9, <1>10, Numbers
  <1>13. Followed(c[n], p, r, n) /\ CorrectDates(r, {s}) = c[n].lines
    BY <1>1, <1>7, <1>11
  <1>14. DOMAIN CorrectDates(r, {s}) = DOMAIN p
    <2>1. c[n].lines \in Seq(Line) /\ Len(c[n].lines) = n
      BY <1>13 DEF Followed
    <2>2. DOMAIN c[n].lines = 1 .. Len(c[n].lines)
      BY <2>1, LenProperties
    <2>. QED  BY <1>1, <1>13, <2>1, <2>2
  \* Some of its dates exist one way only, and are not misread.
  <1>15. r # MisreadWholly(p)
    <2>1. PICK i \in DOMAIN p : p[i].date.d > 12
      <3>1. TrustedMax({p[i] : i \in DOMAIN p}) # {}
        BY DEF InPrintOrder
      <3>. QED  BY <3>1 DEF TrustedMax, LastOf
    <2>2. p[i] \in Line /\ p[i].date \in CalendarDate /\ p[i] = [date |-> p[i].date, kind |-> p[i].kind]
      BY LineRead, LineFields
    <2>3. r[i] = p[i]
      BY <2>1, LineRead DEF r
    <2>4. MisreadWholly(p)[i].date = SwapString(p[i].date)
      <3>1. MisreadWholly(p)[i] = [p[i] EXCEPT !.date = SwapString(@)]
        BY DEF MisreadWholly
      <3>. QED  BY <2>2, <3>1
    <2>5. SwapString(p[i].date).d = p[i].date.m /\ p[i].date.m <= 12
      BY <2>2, DateFields DEF SwapString, DateOf
    <2>. QED  BY <2>1, <2>2, <2>3, <2>4, <2>5, DateFields
  <1>16. ASSUME NEW i \in Settled(p, r) PROVE CorrectDates(r, {s})[i] = p[i]
    <2>1. i \in 1 .. n /\ (p[i].kind = "payment" \/ \E f \in ReadFirmly(p, r) : f <= i)
      BY <1>1, <1>15 DEF Settled
    <2>. QED  BY <1>13, <2>1 DEF Followed
  <1>. QED  BY <1>14, <1>16 DEF r

----------------------------------------------------------------------------
(* A statement misread, section by section                                 *)

\* A statement as printed.
AsPrinted(p, s) == /\ p \in Seq(Seq(Line)) /\ p # <<>> /\ s \in CalendarDate
                   /\ \A k \in DOMAIN p : InPrintOrder(p[k], s)
DocumentLines(p) == UNION {{p[k][i] : i \in DOMAIN p[k]} : k \in DOMAIN p}

LEMMA PrintedLines ==
  ASSUME NEW p, NEW s, AsPrinted(p, s), NEW k \in DOMAIN p
  PROVE  /\ p[k] \in Seq(Line)
         /\ \A i \in DOMAIN p[k] : /\ p[k][i] \in Line /\ p[k][i].date \in CalendarDate
                                   /\ p[k][i] = [date |-> p[k][i].date, kind |-> p[k][i].kind]
  <1>1. p[k] \in Seq(Line)
    <2>1. DOMAIN p = 1 .. Len(p) /\ p \in Seq(Seq(Line))
      BY LenProperties DEF AsPrinted
    <2>. QED  BY <2>1, ElementOfSeq
  <1>2. ASSUME NEW i \in DOMAIN p[k]
        PROVE  p[k][i] \in Line
    <2>1. DOMAIN p[k] = 1 .. Len(p[k])
      BY <1>1, LenProperties
    <2>. QED  BY <1>1, <2>1, ElementOfSeq
  <1>. QED  BY <1>1, <1>2, LineFields

LEMMA FirstSection ==
  ASSUME NEW p, NEW s, AsPrinted(p, s)
  PROVE  1 \in DOMAIN p
  <1>1. p \in Seq(Seq(Line)) /\ p # <<>>
    BY DEF AsPrinted
  <1>2. DOMAIN p = 1 .. Len(p) /\ Len(p) \in Nat /\ Len(p) # 0
    BY <1>1, LenProperties, EmptySeq
  <1>. QED  BY <1>2

LEMMA ADateExists ==
  ASSUME NEW d \in CalendarDate
  PROVE  IsDate(d) /\ d.m \in 1 .. 12
  BY DateFields DEF IsDate

\* The latest of the dates of several sections, each close to a date s, is close
\* to it, and there is one.
LEMMA LatestOfDocument ==
  ASSUME NEW p, NEW s, AsPrinted(p, s)
  PROVE  LET trusted == TrustedMax(DocumentLines(p))
         IN  trusted # {} /\ trusted \in SUBSET CalendarDate /\ \A t \in trusted : Close(t, s)
  <1>. DEFINE lines == {x \in DocumentLines(p) : x.kind # "payment" /\ x.date.d > 12}
              dates == {x.date : x \in lines}
              Of(k) == {p[k][i] : i \in DOMAIN p[k]}
              own(k) == {x.date : x \in {y \in Of(k) : y.kind # "payment" /\ y.date.d > 12}}
  <1>1. \A d \in dates : d \in CalendarDate /\ \E k \in DOMAIN p : d \in own(k)
    BY PrintedLines DEF DocumentLines
  <1>2. \A k \in DOMAIN p : own(k) \subseteq dates
    BY DEF DocumentLines
  <1>3. ASSUME NEW k \in DOMAIN p
        PROVE  LastOf(own(k)) # {} /\ \A t \in LastOf(own(k)) : Close(t, s)
    BY DEF AsPrinted, InPrintOrder, Close, TrustedMax
  <1>. HIDE DEF dates, own
  <1>4. s \in CalendarDate /\ Ordinal(s) \in Int /\ \A d \in dates : Ordinal(d) \in Int
    <2>1. s \in CalendarDate
      BY DEF AsPrinted
    <2>. QED  BY <1>1, <2>1, DateFields
  <1>5. \A d \in dates : Ordinal(d) <= Ordinal(s)
    <2> SUFFICES ASSUME NEW d \in dates PROVE Ordinal(d) <= Ordinal(s)
      OBVIOUS
    <2>1. PICK k \in DOMAIN p : d \in own(k)
      BY <1>1
    <2>2. PICK t \in LastOf(own(k)) : Close(t, s)
      BY <1>3
    <2>3. t \in dates /\ NotAfter(d, t)
      BY <1>2, <2>1, <2>2 DEF LastOf
    <2>4. Ordinal(t) <= Ordinal(s)
      BY <1>1, <1>4, <2>2, <2>3, CloseDays
    <2>. QED  BY <1>4, <2>3, <2>4 DEF NotAfter
  <1>6. dates # {}
    <2>1. LastOf(own(1)) # {}
      BY <1>3, FirstSection
    <2>. QED  BY <1>2, <2>1, FirstSection DEF LastOf
  <1>7. LastOf(dates) # {}
    <2>. DEFINE f == [d \in dates |-> Ordinal(s) - Ordinal(d)]
    <2>1. \A d \in dates : f[d] \in Nat
      BY <1>4, <1>5
    <2>2. PICK d \in dates : \A e \in dates : f[d] <= f[e]
      <3>. HIDE DEF f
      <3>. QED  BY <1>6, <2>1, LeastMember
    <2>3. \A e \in dates : Ordinal(e) <= Ordinal(d)
      BY <1>4, <2>2
    <2>. QED  BY <2>3 DEF LastOf, NotAfter
  <1>8. ASSUME NEW t \in LastOf(dates) PROVE Close(t, s) /\ t \in CalendarDate
    <2>1. t \in dates
      BY DEF LastOf
    <2>2. PICK k \in DOMAIN p : t \in own(k)
      BY <1>1, <2>1
    <2>3. t \in LastOf(own(k))
      BY <1>2, <2>2 DEF LastOf
    <2>. QED  BY <1>1, <1>3, <2>1, <2>3
  <1>9. TrustedMax(DocumentLines(p)) = LastOf(dates)
    BY DEF TrustedMax, dates
  <1>. QED  BY <1>7, <1>8, <1>9

----------------------------------------------------------------------------
(* The shape of a reading                                                  *)

Shaped(r, p) ==
    /\ DOMAIN r = {"sections", "statementDate", "bank", "currency", "confidence"}
    /\ DOMAIN r.sections = DOMAIN p
    /\ \A k \in DOMAIN p : DOMAIN r.sections[k] = {"lines", "currency", "closing", "closingDate"}

LEMMA SectionsReplaced ==
  ASSUME NEW r, NEW x, DOMAIN r = {"sections", "statementDate", "bank", "currency", "confidence"}
  PROVE  LET q == [r EXCEPT !.sections = x]
         IN  /\ DOMAIN q = DOMAIN r /\ q.sections = x /\ q.statementDate = r.statementDate
             /\ q.currency = r.currency
  OBVIOUS

LEMMA SameDocument ==
  ASSUME NEW r, NEW q, DOMAIN r = DOMAIN q, \A k \in DOMAIN q : r[k].lines = q[k]
  PROVE  LinesOf(r) = DocumentLines(q)
  BY DEF LinesOf, DocumentLines

\* Validation leaves the lines and the statement's date, and every section has a
\* currency when the document has one.
LEMMA ValidatedReading ==
  ASSUME NEW r, NEW p, Shaped(r, p), r.currency # {}
  PROVE  LET q == Validated(r)
         IN  /\ Shaped(q, p) /\ q.statementDate = r.statementDate
             /\ \A k \in DOMAIN p : q.sections[k].lines = r.sections[k].lines /\ q.sections[k].currency # {}
  <1>. DEFINE Section(k) == [r.sections[k] EXCEPT !.closingDate = {d \in @ : IsDate(d)},
                                                  !.currency = IF @ = {} THEN r.currency ELSE @]
              x == [k \in DOMAIN r.sections |-> Section(k)]
              q == [r EXCEPT !.sections = x]
  <1>1. ASSUME NEW k \in DOMAIN p
        PROVE  /\ DOMAIN Section(k) = {"lines", "currency", "closing", "closingDate"}
               /\ Section(k).lines = r.sections[k].lines /\ Section(k).currency # {}
    BY DEF Shaped
  <1>2. DOMAIN x = DOMAIN p /\ \A k \in DOMAIN p : x[k] = Section(k)
    BY DEF Shaped
  <1>. HIDE DEF Section, x
  <1>3. DOMAIN q = DOMAIN r /\ q.sections = x /\ q.statementDate = r.statementDate
    BY SectionsReplaced DEF Shaped
  <1>4. Validated(r) = q
    BY DEF Validated, Section, x
  <1>. HIDE DEF q
  <1>. QED  BY <1>1, <1>2, <1>3, <1>4 DEF Shaped

\* Swapping every date exchanges months and days of all lines.
LEMMA SwappedReading ==
  ASSUME NEW r, NEW p, Shaped(r, p)
  PROVE  LET q == SwapAll(r)
         IN  /\ Shaped(q, p) /\ q.statementDate = r.statementDate /\ q.currency = r.currency
             /\ \A k \in DOMAIN p : q.sections[k].lines = MisreadWholly(r.sections[k].lines)
  <1>. DEFINE x == [k \in DOMAIN r.sections |-> SwapSection(r.sections[k])]
              q == [r EXCEPT !.sections = x]
  <1>1. ASSUME NEW k \in DOMAIN p
        PROVE  /\ DOMAIN SwapSection(r.sections[k]) = {"lines", "currency", "closing", "closingDate"}
               /\ SwapSection(r.sections[k]).lines = MisreadWholly(r.sections[k].lines)
    BY DEF Shaped, SwapSection, MisreadWholly
  <1>2. DOMAIN x = DOMAIN p /\ \A k \in DOMAIN p : x[k] = SwapSection(r.sections[k])
    BY DEF Shaped
  <1>. HIDE DEF x
  <1>3. DOMAIN q = DOMAIN r /\ q.sections = x /\ q.statementDate = r.statementDate /\ q.currency = r.currency
    BY SectionsReplaced DEF Shaped
  <1>4. SwapAll(r) = q
    BY DEF SwapAll, x
  <1>. HIDE DEF q
  <1>. QED  BY <1>1, <1>2, <1>3, <1>4 DEF Shaped

----------------------------------------------------------------------------
(* What is kept of a reading whose lines are corrected                     *)

\* The reading once it is validated, and the lines of its sections corrected.
ReadOf(reading) == Validated(IF NeedsSwap(reading) THEN SwapAll(reading) ELSE reading)
CorrectedLines(reading, k) ==
    IF NeedsSwap(reading) THEN ReadOf(reading).sections[k].lines
    ELSE CorrectDates(ReadOf(reading).sections[k].lines,
                      ResolveStatementDate(ReadOf(reading).statementDate, TrustedMax(LinesOf(ReadOf(reading).sections))))

LEMMA ReadShape ==
  ASSUME NEW reading, NEW p, Shaped(reading, p), reading.currency # {}
  PROVE  /\ Shaped(ReadOf(reading), p)
         /\ \A k \in DOMAIN p : ReadOf(reading).sections[k].currency # {}
  <1>1. CASE NeedsSwap(reading)
    <2>1. Shaped(SwapAll(reading), p) /\ SwapAll(reading).currency # {}
      BY SwappedReading
    <2>. QED  BY <1>1, <2>1, ValidatedReading DEF ReadOf
  <1>2. CASE ~NeedsSwap(reading)
    BY <1>2, ValidatedReading DEF ReadOf
  <1>. QED  BY <1>1, <1>2

LEMMA ClosingLeavesLines ==
  ASSUME NEW s, DOMAIN s = {"lines", "currency", "closing", "closingDate"}, NEW d, NEW m
  PROVE  ValidateClosing(s, d, m).lines = s.lines /\ ValidateClosing(s, d, m).currency = s.currency
  <1>1. \A x, y : LET q == [s EXCEPT !.closing = IF x = {} THEN {} ELSE @, !.closingDate = y]
                  IN  q.lines = s.lines /\ q.currency = s.currency
    OBVIOUS
  <1>. QED  BY <1>1 DEF ValidateClosing

LEMMA AllAreKept ==
  ASSUME NEW reading, NEW today, NEW p, Shaped(reading, p), reading.currency # {},
         \A k \in DOMAIN p : CorrectedLines(reading, k) = p[k],
         \A k \in DOMAIN p : DOMAIN KeptLines(p[k], today) # {}
  PROVE  LET q == Prepared(reading, today)
         IN  /\ DOMAIN q = DOMAIN p
             /\ \A k \in DOMAIN p : q[k].lines = KeptLines(p[k], today) /\ q[k].currency # {}
  <1>. DEFINE swap == NeedsSwap(reading)
              read == Validated(IF swap THEN SwapAll(reading) ELSE reading)
              statementDate == ResolveStatementDate(read.statementDate, TrustedMax(LinesOf(read.sections)))
              Corrected(s) == IF swap THEN s.lines ELSE CorrectDates(s.lines, statementDate)
              kept == [k \in DOMAIN read.sections |->
                          [read.sections[k] EXCEPT !.lines = KeptLines(Corrected(read.sections[k]), today)]]
              max == TrustedMax(LinesOf(kept))
              closed == [k \in DOMAIN kept |-> ValidateClosing(kept[k], statementDate, max)]
              q == Restrict(closed, {k \in DOMAIN closed : DOMAIN closed[k].lines # {} \/ closed[k].closing # {}})
  <1>1. Prepared(reading, today) = q
    BY DEF Prepared
  <1>2. ASSUME NEW k \in DOMAIN p PROVE Corrected(read.sections[k]) = p[k]
    BY DEF CorrectedLines, ReadOf
  <1>3. Shaped(read, p) /\ \A k \in DOMAIN p : read.sections[k].currency # {}
    BY ReadShape DEF ReadOf
  <1>. HIDE DEF read, Corrected
  <1>4. DOMAIN kept = DOMAIN p
    BY <1>3 DEF Shaped
  <1>5. ASSUME NEW k \in DOMAIN p
        PROVE  /\ DOMAIN kept[k] = {"lines", "currency", "closing", "closingDate"}
               /\ kept[k].lines = KeptLines(p[k], today) /\ kept[k].currency # {}
    <2>1. DOMAIN read.sections[k] = {"lines", "currency", "closing", "closingDate"} /\ read.sections[k].currency # {}
      BY <1>3 DEF Shaped
    <2>2. kept[k] = [read.sections[k] EXCEPT !.lines = KeptLines(p[k], today)]
      BY <1>2, <1>3 DEF Shaped
    <2>. HIDE DEF kept
    <2>. QED  BY <2>1, <2>2
  <1>. HIDE DEF kept, statementDate, max
  <1>6. DOMAIN closed = DOMAIN p
    BY <1>4
  <1>7. ASSUME NEW k \in DOMAIN p
        PROVE  closed[k].lines = KeptLines(p[k], today) /\ closed[k].currency # {}
    BY <1>4, <1>5, ClosingLeavesLines
  <1>. HIDE DEF closed
  <1>8. {k \in DOMAIN closed : DOMAIN closed[k].lines # {} \/ closed[k].closing # {}} = DOMAIN p
    BY <1>6, <1>7
  <1>9. DOMAIN q = DOMAIN p /\ \A k \in DOMAIN p : q[k] = closed[k]
    BY <1>6, <1>8 DEF Restrict
  <1>. HIDE DEF q
  <1>. QED  BY <1>1, <1>7, <1>9

\* The corrected lines of a section are as many as were printed, and as printed
\* where their dates can be told.
SettledReturn(reading, p, k) ==
    /\ DOMAIN CorrectedLines(reading, k) = DOMAIN p[k]
    /\ \A i \in Settled(p[k], reading.sections[k].lines) : CorrectedLines(reading, k)[i] = p[k][i]

\* A line as printed is kept when the printed one is.
LEMMA KeptTogether ==
  ASSUME NEW c, NEW q, NEW settled \in SUBSET DOMAIN q, NEW today,
         DOMAIN c = DOMAIN q, \A i \in settled : c[i] = q[i]
  PROVE  /\ DOMAIN KeptLines(c, today) \cap settled = DOMAIN KeptLines(q, today) \cap settled
         /\ DatesAt(KeptLines(c, today), settled) = DatesAt(KeptLines(q, today), settled)
  <1>. DEFINE Kept(x) == {i \in DOMAIN x : x[i].kind # "balance" /\ NotAfter(x[i].date, today)}
  <1>1. \A x : /\ DOMAIN KeptLines(x, today) = Kept(x)
               /\ \A i \in Kept(x) : KeptLines(x, today)[i] = x[i]
    BY DEF KeptLines, Restrict
  <1>2. Kept(c) \cap settled = Kept(q) \cap settled
    OBVIOUS
  <1>3. \A i \in Kept(c) \cap settled : c[i] = q[i]
    OBVIOUS
  <1>. HIDE DEF Kept
  <1>. QED  BY <1>1, <1>2, <1>3 DEF DatesAt

LEMMA DatesAreKept ==
  ASSUME NEW reading, NEW today, NEW p, NEW s, AsPrinted(p, s), Shaped(reading, p), reading.currency # {},
         reading.bank # {}, reading.confidence \in {"medium", "high"},
         MeetsSchema(IF NeedsSwap(reading) THEN SwapAll(reading) ELSE reading),
         \A k \in DOMAIN p : SettledReturn(reading, p, k),
         \A k \in DOMAIN p : DOMAIN KeptLines(p[k], today) \cap Settled(p[k], reading.sections[k].lines) # {}
  PROVE  LET result == ExtractStatement(reading, today, "medium")
         IN  /\ result.refusal = "none" /\ DOMAIN result.sections = DOMAIN p
             /\ \A k \in DOMAIN p : LET settled == Settled(p[k], reading.sections[k].lines)
                                    IN  DatesAt(result.sections[k].lines, settled)
                                          = DatesAt(KeptLines(p[k], today), settled)
  <1>. DEFINE q == Prepared(reading, today)
              c == [k \in DOMAIN p |-> CorrectedLines(reading, k)]
              At(k) == Settled(p[k], reading.sections[k].lines)
  <1>1. ASSUME NEW k \in DOMAIN p
        PROVE  /\ DOMAIN KeptLines(c[k], today) # {}
               /\ DatesAt(KeptLines(c[k], today), At(k)) = DatesAt(KeptLines(p[k], today), At(k))
    <2>1. c[k] = CorrectedLines(reading, k) /\ At(k) \in SUBSET DOMAIN p[k]
      BY DEF Settled
    <2>2. DOMAIN c[k] = DOMAIN p[k] /\ (\A i \in At(k) : c[k][i] = p[k][i])
          /\ DOMAIN KeptLines(p[k], today) \cap At(k) # {}
      BY <2>1 DEF SettledReturn
    <2>. HIDE DEF c, At
    <2>3. /\ DOMAIN KeptLines(c[k], today) \cap At(k) = DOMAIN KeptLines(p[k], today) \cap At(k)
          /\ DatesAt(KeptLines(c[k], today), At(k)) = DatesAt(KeptLines(p[k], today), At(k))
      BY <2>1, <2>2, KeptTogether
    <2>. QED  BY <2>2, <2>3
  <1>2. /\ DOMAIN q = DOMAIN p
        /\ \A k \in DOMAIN p : q[k].lines = KeptLines(c[k], today) /\ q[k].currency # {}
    <2>1. DOMAIN c = DOMAIN p /\ \A k \in DOMAIN c : CorrectedLines(reading, k) = c[k]
      OBVIOUS
    <2>. HIDE DEF c
    <2>2. Shaped(reading, c)
      BY <2>1 DEF Shaped
    <2>3. /\ DOMAIN Prepared(reading, today) = DOMAIN c
          /\ \A k \in DOMAIN c : /\ Prepared(reading, today)[k].lines = KeptLines(c[k], today)
                                 /\ Prepared(reading, today)[k].currency # {}
      BY <1>1, <2>1, <2>2, AllAreKept
    <2>. QED  BY <2>1, <2>3
  <1>3. ExtractStatement(reading, today, "medium") = [refusal |-> Refusal(reading, q, "medium"), sections |-> q]
    BY DEF ExtractStatement
  <1>. HIDE DEF q, c, At
  <1>4. Refusal(reading, q, "medium") = "none"
    <2>1. 1 \in DOMAIN p
      BY FirstSection
    <2>2. LinesOf(q) # {}
      <3>1. PICK i \in DOMAIN KeptLines(c[1], today) : TRUE
        BY <1>1, <2>1
      <3>2. 1 \in DOMAIN q /\ i \in DOMAIN q[1].lines
        BY <1>2, <2>1, <3>1
      <3>3. q[1].lines[i] \in LinesOf(q)
        BY <3>2 DEF LinesOf
      <3>. QED  BY <3>3
    <2>3. ~(RankOf(reading.confidence) < RankOf("medium"))
      BY DEF RankOf
    <2>. QED  BY <1>2, <2>1, <2>2, <2>3 DEF Refusal
  <1>5. \A k \in DOMAIN p : DatesAt(q[k].lines, At(k)) = DatesAt(KeptLines(p[k], today), At(k))
    BY <1>1, <1>2
  <1>. QED  BY <1>2, <1>3, <1>4, <1>5 DEF At

----------------------------------------------------------------------------
(* A document misread in part, and one misread wholly                      *)

LEMMA PartlyRecovered ==
  ASSUME NEW p, NEW s, AsPrinted(p, s), NEW reading, Shaped(reading, p), reading.currency # {},
         \A k \in DOMAIN p : \E wrong \in SUBSET Misreadable(p[k]) :
             reading.sections[k].lines = MisreadAt(p[k], wrong),
         reading.statementDate # {}, reading.statementDate \subseteq {s} \cup Swapped(s)
  PROVE  /\ ~NeedsSwap(reading) /\ MeetsSchema(reading)
         /\ \A k \in DOMAIN p : SettledReturn(reading, p, k)
  <1>. DEFINE document == TrustedMax(LinesOf(ReadOf(reading).sections))
  <1>1. ASSUME NEW k \in DOMAIN p
        PROVE  /\ DOMAIN reading.sections[k].lines = DOMAIN p[k]
               /\ \A i \in DOMAIN p[k] :
                    LET l == reading.sections[k].lines[i]
                    IN  /\ l.date \in CalendarDate
                        /\ l.date.d > 12 \/ p[k][i].date.d > 12 => l = p[k][i]
    <2>1. PICK wrong \in SUBSET Misreadable(p[k]) : reading.sections[k].lines = MisreadAt(p[k], wrong)
      OBVIOUS
    <2>2. p[k] \in Seq(Line) /\ DOMAIN MisreadAt(p[k], wrong) = DOMAIN p[k]
      BY PrintedLines DEF MisreadAt
    <2>3. ASSUME NEW i \in DOMAIN p[k]
          PROVE  LET l == MisreadAt(p[k], wrong)[i]
                 IN  l.date \in CalendarDate /\ (l.date.d > 12 \/ p[k][i].date.d > 12 => l = p[k][i])
      BY <2>2, LineRead, LineFields
    <2>. QED  BY <2>1, <2>2, <2>3
  <1>2. \A l \in LinesOf(reading.sections) : l.date \in CalendarDate
    BY <1>1 DEF LinesOf, Shaped
  <1>3. ~NeedsSwap(reading)
    BY <1>2, ADateExists DEF NeedsSwap
  <1>4. MeetsSchema(reading)
    <2>1. \A d \in reading.statementDate : d \in CalendarDate
      BY OtherReading DEF AsPrinted
    <2>. QED  BY <1>2, <2>1, ADateExists DEF MeetsSchema
  <1>5. /\ Shaped(ReadOf(reading), p) /\ ReadOf(reading).statementDate = reading.statementDate
        /\ \A k \in DOMAIN p : ReadOf(reading).sections[k].lines = reading.sections[k].lines
    BY <1>3, ValidatedReading DEF ReadOf
  <1>6. document = TrustedMax(DocumentLines(p))
    <2>. DEFINE L == LinesOf(ReadOf(reading).sections)
                M == DocumentLines(p)
    <2>1. ASSUME NEW x, x.date.d > 12
          PROVE  x \in L <=> x \in M
      <3>1. x \in L <=> \E k \in DOMAIN p : \E i \in DOMAIN p[k] : x = reading.sections[k].lines[i]
        BY <1>1, <1>5 DEF LinesOf, Shaped
      <3>2. x \in M <=> \E k \in DOMAIN p : \E i \in DOMAIN p[k] : x = p[k][i]
        BY DEF DocumentLines
      <3>. QED  BY <1>1, <2>1, <3>1, <3>2
    <2>. HIDE DEF L, M
    <2>2. {x \in L : x.kind # "payment" /\ x.date.d > 12} = {x \in M : x.kind # "payment" /\ x.date.d > 12}
      BY <2>1
    <2>. QED  BY <2>2, SameTrusted DEF L, M
  <1>7. ResolveStatementDate(ReadOf(reading).statementDate, document) = {s}
    <2>1. document # {} /\ document \in SUBSET CalendarDate /\ \A t \in document : Close(t, s)
      BY <1>6, LatestOfDocument
    <2>2. s \in CalendarDate
      BY DEF AsPrinted
    <2>. HIDE DEF document
    <2>. QED  BY <1>5, <2>1, <2>2, StatementDateFound
  <1>8. ASSUME NEW k \in DOMAIN p PROVE SettledReturn(reading, p, k)
    <2>1. PICK wrong \in SUBSET Misreadable(p[k]) : reading.sections[k].lines = MisreadAt(p[k], wrong)
      OBVIOUS
    <2>2. p[k] \in Seq(Line) /\ InPrintOrder(p[k], s) /\ s \in CalendarDate
      BY PrintedLines DEF AsPrinted
    <2>3. /\ DOMAIN CorrectDates(MisreadAt(p[k], wrong), {s}) = DOMAIN p[k]
          /\ \A i \in Settled(p[k], MisreadAt(p[k], wrong)) : CorrectDates(MisreadAt(p[k], wrong), {s})[i] = p[k][i]
      BY <2>2, SectionFollowed
    <2>4. CorrectedLines(reading, k) = CorrectDates(reading.sections[k].lines, {s})
      BY <1>3, <1>5, <1>7 DEF CorrectedLines
    <2>. QED  BY <2>1, <2>3, <2>4 DEF SettledReturn
  <1>. QED  BY <1>3, <1>4, <1>8

LEMMA TwiceSwapped ==
  ASSUME NEW p, NEW s, AsPrinted(p, s), NEW k \in DOMAIN p
  PROVE  MisreadWholly(MisreadWholly(p[k])) = p[k]
  <1>1. ASSUME NEW i \in DOMAIN p[k]
        PROVE  [[p[k][i] EXCEPT !.date = SwapString(@)] EXCEPT !.date = SwapString(@)] = p[k][i]
    <2>1. p[k][i] = [date |-> p[k][i].date, kind |-> p[k][i].kind] /\ p[k][i].date \in CalendarDate
      BY PrintedLines
    <2>2. SwapString(SwapString(p[k][i].date)) = p[k][i].date
      BY <2>1, DateFields DEF SwapString, DateOf
    <2>. QED  BY <2>1, <2>2
  <1>2. p[k] = [i \in DOMAIN p[k] |-> p[k][i]]
    BY PrintedLines, SeqDef
  <1>. QED  BY <1>1, <1>2 DEF MisreadWholly

LEMMA WhollyRecovered ==
  ASSUME NEW p, NEW s, AsPrinted(p, s), NEW reading, Shaped(reading, p), reading.currency # {},
         \A k \in DOMAIN p : reading.sections[k].lines = MisreadWholly(p[k]),
         \A d \in reading.statementDate : IsDate(d)
  PROVE  /\ NeedsSwap(reading) /\ MeetsSchema(SwapAll(reading))
         /\ \A k \in DOMAIN p : SettledReturn(reading, p, k)
  <1>1. NeedsSwap(reading)
    <2>1. 1 \in DOMAIN p
      BY FirstSection
    <2>2. PICK i \in DOMAIN p[1] : p[1][i].date.d > 12
      <3>1. TrustedMax({p[1][i] : i \in DOMAIN p[1]}) # {}
        BY <2>1 DEF AsPrinted, InPrintOrder
      <3>. QED  BY <3>1 DEF TrustedMax, LastOf
    <2>. DEFINE d == p[1][i].date
    <2>3. d \in CalendarDate /\ p[1][i] = [date |-> d, kind |-> p[1][i].kind]
      BY <2>1, PrintedLines
    <2>4. reading.sections[1].lines[i] = [p[1][i] EXCEPT !.date = SwapString(@)] /\ i \in DOMAIN reading.sections[1].lines
      BY <2>1 DEF MisreadWholly
    <2>5. reading.sections[1].lines[i].date = SwapString(d)
      BY <2>3, <2>4
    <2>6. SwapString(d).m > 12 /\ SwapString(d).d \in 1 .. 12
      BY <2>2, <2>3, DateFields DEF SwapString, DateOf
    <2>7. reading.sections[1].lines[i] \in LinesOf(reading.sections)
      BY <2>1, <2>4 DEF LinesOf, Shaped
    <2>. HIDE DEF d
    <2>. QED  BY <2>5, <2>6, <2>7 DEF NeedsSwap
  <1>2. /\ Shaped(SwapAll(reading), p) /\ SwapAll(reading).statementDate = reading.statementDate
        /\ SwapAll(reading).currency # {}
        /\ \A k \in DOMAIN p : SwapAll(reading).sections[k].lines = p[k]
    <2>1. /\ Shaped(SwapAll(reading), p) /\ SwapAll(reading).statementDate = reading.statementDate
          /\ SwapAll(reading).currency = reading.currency
          /\ \A k \in DOMAIN p : SwapAll(reading).sections[k].lines = MisreadWholly(reading.sections[k].lines)
      BY SwappedReading
    <2>2. \A k \in DOMAIN p : MisreadWholly(MisreadWholly(p[k])) = p[k]
      BY TwiceSwapped
    <2>. QED  BY <2>1, <2>2
  <1>3. MeetsSchema(SwapAll(reading))
    <2>1. \A l \in LinesOf(SwapAll(reading).sections) : l.date \in CalendarDate
      BY <1>2, PrintedLines DEF LinesOf, Shaped
    <2>. QED  BY <1>2, <2>1, ADateExists DEF MeetsSchema
  <1>4. \A k \in DOMAIN p : CorrectedLines(reading, k) = p[k]
    BY <1>1, <1>2, ValidatedReading DEF CorrectedLines, ReadOf
  <1>5. \A k \in DOMAIN p : SettledReturn(reading, p, k)
    BY <1>4 DEF SettledReturn, Settled
  <1>. QED  BY <1>1, <1>3, <1>5

\* Whichever way the dates were misread.
LEMMA PrintedDatesReturn ==
  ASSUME NEW p \in Seq(Seq(Line)), p # <<>>, NEW s \in CalendarDate, NEW reading, MayBeReadAs(p, s, reading), NEW today
  PROVE  RecoversDates(reading, p, s, today)
  <1>. DEFINE settled == [k \in DOMAIN p |-> Settled(p[k], reading.sections[k].lines)]
              result == ExtractStatement(reading, today, "medium")
  <1>1. SUFFICES ASSUME \A k \in DOMAIN p : InPrintOrder(p[k], s) /\ DOMAIN KeptLines(p[k], today) \cap settled[k] # {}
                 PROVE  /\ result.refusal = "none"
                        /\ DOMAIN result.sections = DOMAIN p
                        /\ \A k \in DOMAIN p : DatesAt(result.sections[k].lines, settled[k])
                                                 = DatesAt(KeptLines(p[k], today), settled[k])
    BY DEF RecoversDates
  <1>2. AsPrinted(p, s)
    BY <1>1 DEF AsPrinted
  <1>3. Shaped(reading, p) /\ reading.currency # {} /\ reading.bank # {} /\ reading.confidence \in {"medium", "high"}
    BY DEF MayBeReadAs, Shaped
  <1>4. /\ MeetsSchema(IF NeedsSwap(reading) THEN SwapAll(reading) ELSE reading)
        /\ \A k \in DOMAIN p : SettledReturn(reading, p, k)
    <2>1. CASE /\ \A k \in DOMAIN p : reading.sections[k].lines = MisreadWholly(p[k])
               /\ \A d \in reading.statementDate : IsDate(d)
      BY <1>2, <1>3, <2>1, WhollyRecovered
    <2>2. CASE /\ \A k \in DOMAIN p : \E wrong \in SUBSET Misreadable(p[k]) :
                      reading.sections[k].lines = MisreadAt(p[k], wrong)
               /\ reading.statementDate # {} /\ reading.statementDate \subseteq {s} \cup Swapped(s)
      BY <1>2, <1>3, <2>2, PartlyRecovered
    <2>. QED  BY <2>1, <2>2 DEF MayBeReadAs
  <1>5. \A k \in DOMAIN p : settled[k] = Settled(p[k], reading.sections[k].lines)
    OBVIOUS
  <1>. HIDE DEF settled, result
  <1>6. \A k \in DOMAIN p : DOMAIN KeptLines(p[k], today) \cap Settled(p[k], reading.sections[k].lines) # {}
    BY <1>1, <1>5
  <1>7. /\ result.refusal = "none" /\ DOMAIN result.sections = DOMAIN p
        /\ \A k \in DOMAIN p : DatesAt(result.sections[k].lines, Settled(p[k], reading.sections[k].lines))
                                 = DatesAt(KeptLines(p[k], today), Settled(p[k], reading.sections[k].lines))
    BY <1>2, <1>3, <1>4, <1>6, DatesAreKept DEF result
  <1>. QED  BY <1>5, <1>7

----------------------------------------------------------------------------
(* Ranks in a finite ordered set                                           *)

Orders(R, S) ==
    \A x, y, z \in S : /\ <<x, x>> \notin R
                       /\ x # y => <<x, y>> \in R \/ <<y, x>> \in R
                       /\ <<x, y>> \in R /\ <<y, z>> \in R => <<x, z>> \in R
Below(S, R, x) == {y \in S : <<y, x>> \in R}
RankIn(S, R) == [x \in S |-> 1 + Cardinality(Below(S, R, x))]

LEMMA RanksAreAll ==
  ASSUME NEW S, IsFiniteSet(S), NEW R, Orders(R, S)
  PROVE  RankIn(S, R) \in Bijection(S, 1 .. Cardinality(S))
  <1>. DEFINE n == Cardinality(S)
              f == RankIn(S, R)
  <1>1. n \in Nat
    BY FS_CardinalityType
  <1>2. ASSUME NEW x \in S
        PROVE  /\ f[x] = 1 + Cardinality(Below(S, R, x)) /\ Cardinality(Below(S, R, x)) \in Nat
               /\ IsFiniteSet(Below(S, R, x)) /\ f[x] \in 1 .. n
    <2>1. IsFiniteSet(S \ {x}) /\ Cardinality(S \ {x}) = n - 1
      BY FS_RemoveElement
    <2>2. Below(S, R, x) \in SUBSET (S \ {x})
      BY DEF Below, Orders
    <2>3. IsFiniteSet(Below(S, R, x)) /\ Cardinality(Below(S, R, x)) <= n - 1
      BY <2>1, <2>2, FS_Subset
    <2>4. Cardinality(Below(S, R, x)) \in Nat
      BY <2>3, FS_CardinalityType
    <2>5. f[x] = 1 + Cardinality(Below(S, R, x))
      BY DEF RankIn
    <2>. HIDE DEF f, n
    <2>. QED  BY <1>1, <2>3, <2>4, <2>5
  <1>3. ASSUME NEW x \in S, NEW y \in S, <<x, y>> \in R PROVE f[x] < f[y]
    <2>1. Below(S, R, x) \in SUBSET Below(S, R, y)
      BY <1>3 DEF Below, Orders
    <2>2. x \in Below(S, R, y) /\ x \notin Below(S, R, x)
      BY <1>3 DEF Below, Orders
    <2>3. /\ Cardinality(Below(S, R, x)) <= Cardinality(Below(S, R, y))
          /\ Cardinality(Below(S, R, x)) # Cardinality(Below(S, R, y))
      BY <1>2, <2>1, <2>2, FS_Subset
    <2>. HIDE DEF f
    <2>. QED  BY <1>2, <2>3
  <1>4. f \in Injection(S, 1 .. n)
    <2>1. ASSUME NEW x \in S, NEW y \in S, x # y PROVE f[x] # f[y]
      <3>1. <<x, y>> \in R \/ <<y, x>> \in R
        BY <2>1 DEF Orders
      <3>2. f[x] < f[y] \/ f[y] < f[x]
        BY <1>3, <3>1
      <3>3. f[x] \in 1 .. n /\ f[y] \in 1 .. n
        BY <1>2
      <3>. HIDE DEF f, n
      <3>. QED  BY <1>1, <3>2, <3>3
    <2>2. f \in [S -> 1 .. n]
      <3>1. f = [x \in S |-> f[x]]
        BY DEF RankIn
      <3>. HIDE DEF f, n
      <3>. QED  BY <1>2, <3>1
    <2>. HIDE DEF f, n
    <2>. QED  BY <2>1, <2>2 DEF Injection, IsInjective
  <1>5. IsFiniteSet(1 .. n) /\ Cardinality(1 .. n) = n
    BY <1>1, FS_Interval
  <1>. HIDE DEF f
  <1>6. f \in Surjection(S, 1 .. n)
    BY <1>4, <1>5, FS_Injection
  <1>. QED  BY <1>4, <1>6 DEF Bijection, f

\* What comes before all others has the first ranks.
LEMMA RanksOfFirst ==
  ASSUME NEW S, IsFiniteSet(S), NEW R, Orders(R, S), NEW F \in SUBSET S,
         \A x \in S, y \in F : <<x, y>> \in R => x \in F
  PROVE  \A x \in S : x \in F <=> RankIn(S, R)[x] <= Cardinality(F)
  <1> SUFFICES ASSUME NEW x \in S PROVE x \in F <=> RankIn(S, R)[x] <= Cardinality(F)
    OBVIOUS
  <1>. DEFINE B == Below(S, R, x)
  <1>1. IsFiniteSet(B) /\ IsFiniteSet(F)
    BY FS_Subset DEF Below
  <1>2. Cardinality(B) \in Nat /\ Cardinality(F) \in Nat
    BY <1>1, FS_CardinalityType
  <1>3. RankIn(S, R)[x] = 1 + Cardinality(B)
    BY DEF RankIn
  <1>4. CASE x \in F
    <2>1. B \in SUBSET (F \ {x})
      BY <1>4 DEF Below, Orders
    <2>2. IsFiniteSet(F \ {x}) /\ Cardinality(F \ {x}) = Cardinality(F) - 1
      BY <1>1, <1>4, FS_RemoveElement
    <2>3. Cardinality(B) <= Cardinality(F) - 1
      BY <2>1, <2>2, FS_Subset
    <2>. QED  BY <1>2, <1>3, <1>4, <2>3
  <1>5. CASE x \notin F
    <2>1. F \in SUBSET B
      BY <1>5 DEF Below, Orders
    <2>2. Cardinality(F) <= Cardinality(B)
      BY <1>1, <2>1, FS_Subset
    <2>. QED  BY <1>2, <1>3, <1>5, <2>2
  <1>. QED  BY <1>4, <1>5

\* How many have one of the first m ranks.
LEMMA CountFirst ==
  ASSUME NEW S, IsFiniteSet(S), NEW f \in Bijection(S, 1 .. Cardinality(S)), NEW m \in Nat
  PROVE  Cardinality({x \in S : f[x] <= m}) = IF m < Cardinality(S) THEN m ELSE Cardinality(S)
  <1>. DEFINE n == Cardinality(S)
              k == IF m < n THEN m ELSE n
              A == {x \in S : f[x] <= m}
              g == [x \in A |-> f[x]]
  <1>1. n \in Nat /\ k \in Nat /\ k <= n /\ k <= m
    BY FS_CardinalityType
  <1>2. /\ \A x \in S : f[x] \in 1 .. n
        /\ \A x, y \in S : f[x] = f[y] => x = y
        /\ \A j \in 1 .. n : \E x \in S : f[x] = j
    BY DEF Bijection, Injection, Surjection, IsInjective
  <1>3. \A x \in A : f[x] \in 1 .. k
    BY <1>1, <1>2
  <1>4. \A j \in 1 .. k : \E x \in A : f[x] = j
    BY <1>1, <1>2
  <1>5. g \in Injection(A, 1 .. k)
    BY <1>2, <1>3 DEF Injection, IsInjective
  <1>6. g \in Surjection(A, 1 .. k)
    BY <1>3, <1>4 DEF Surjection
  <1>. HIDE DEF A, g, k
  <1>7. IsFiniteSet(1 .. k) /\ Cardinality(1 .. k) = k
    BY <1>1, FS_Interval
  <1>8. Cardinality(A) = k
    BY <1>5, <1>6, <1>7, FS_Injection
  <1>. QED  BY <1>8 DEF A, k

----------------------------------------------------------------------------
(* The turns of corrections and the positions of rows                      *)

IsRows(rows) == rows \in Seq([text : STRING, category : Nat, manual : BOOLEAN])
IsCaptured(captured) == captured \in Seq([text : STRING, category : Nat, carried : BOOLEAN])
Own(captured, text) == {c \in OfText(captured, text) : ~captured[c].carried}

LEMMA FiniteText ==
  ASSUME NEW S, NEW things \in Seq(S), NEW text
  PROVE  /\ IsFiniteSet(OfText(things, text)) /\ Cardinality(OfText(things, text)) \in Nat
         /\ OfText(things, text) \subseteq Nat
         /\ \A i \in DOMAIN things : things[i] \in S
  <1>1. DOMAIN things = 1 .. Len(things) /\ Len(things) \in Nat
    BY LenProperties
  <1>2. IsFiniteSet(1 .. Len(things))
    BY <1>1, FS_Interval
  <1>3. OfText(things, text) \in SUBSET (1 .. Len(things))
    BY <1>1 DEF OfText
  <1>4. IsFiniteSet(OfText(things, text))
    BY <1>2, <1>3, FS_Subset
  <1>5. \A i \in DOMAIN things : things[i] \in S
    BY <1>1, ElementOfSeq
  <1>. QED  BY <1>3, <1>4, <1>5, FS_CardinalityType

\* Own ones, then lower categories, then in order of capture.
LEMMA PrecedesIsOrder ==
  ASSUME NEW captured, IsCaptured(captured), NEW t
  PROVE  LET C == OfText(captured, t)
             R == {p \in C \X C : Precedes(captured, p[1], p[2])}
         IN  Orders(R, C) /\ \A x \in C, y \in Own(captured, t) : <<x, y>> \in R => x \in Own(captured, t)
  <1>. DEFINE C == OfText(captured, t)
              R == {p \in C \X C : Precedes(captured, p[1], p[2])}
              Weight(c) == IF captured[c].carried THEN 1 ELSE 0
              Category(c) == captured[c].category
  <1>1. ASSUME NEW c \in C
        PROVE  /\ c \in Int /\ captured[c].category \in Int /\ captured[c].carried \in BOOLEAN
               /\ c \in Own(captured, t) <=> Weight(c) = 0
               /\ Weight(c) \in {0, 1}
    <2>1. c \in Int /\ captured[c] \in [text : STRING, category : Nat, carried : BOOLEAN]
      <3>1. c \in DOMAIN captured
        BY DEF OfText
      <3>2. DOMAIN captured = 1 .. Len(captured)
        BY LenProperties DEF IsCaptured
      <3>3. captured[c] \in [text : STRING, category : Nat, carried : BOOLEAN]
        BY <3>1, <3>2, ElementOfSeq DEF IsCaptured
      <3>. QED  BY <3>1, <3>2, <3>3
    <2>2. captured[c].category \in Int /\ captured[c].carried \in BOOLEAN
      BY <2>1
    <2>. QED  BY <2>1, <2>2 DEF Own
  <1>2. ASSUME NEW c \in C, NEW d \in C
        PROVE  SortsBefore(captured[c], captured[d]) <=>
                  Weight(c) < Weight(d) \/ (Weight(c) = Weight(d) /\ Category(c) < Category(d))
    <2>1. CASE captured[c].carried = captured[d].carried
      <3>1. Weight(c) = Weight(d)
        BY <2>1
      <3>. QED  BY <1>1, <2>1, <3>1 DEF SortsBefore
    <2>2. CASE captured[c].carried = TRUE /\ captured[d].carried = FALSE
      BY <2>2 DEF SortsBefore
    <2>3. CASE captured[c].carried = FALSE /\ captured[d].carried = TRUE
      BY <2>3 DEF SortsBefore
    <2>. QED  BY <1>1, <2>1, <2>2, <2>3
  <1>. HIDE DEF Weight, Category
  <1>3. \A c, d \in C : <<c, d>> \in R <=>
            \/ Weight(c) < Weight(d) \/ (Weight(c) = Weight(d) /\ Category(c) < Category(d))
            \/ c < d /\ ~(Weight(d) < Weight(c) \/ (Weight(d) = Weight(c) /\ Category(d) < Category(c)))
    BY <1>2 DEF Precedes
  <1>4. \A c \in C : Weight(c) \in Int /\ Category(c) \in Int /\ c \in Int
    BY <1>1 DEF Category
  <1>. HIDE DEF C, R
  <1>5. Orders(R, C)
    <2>1. ASSUME NEW x \in C PROVE <<x, x>> \notin R
      BY <1>3, <1>4
    <2>2. ASSUME NEW x \in C, NEW y \in C, x # y PROVE <<x, y>> \in R \/ <<y, x>> \in R
      BY <1>3, <1>4, <2>2
    <2>3. ASSUME NEW x \in C, NEW y \in C, NEW z \in C, <<x, y>> \in R, <<y, z>> \in R PROVE <<x, z>> \in R
      BY <1>3, <1>4, <2>3
    <2>. QED  BY <2>1, <2>2, <2>3 DEF Orders
  <1>6. \A x \in C, y \in C : y \in Own(captured, t) /\ <<x, y>> \in R => x \in Own(captured, t)
    BY <1>1, <1>3
  <1>. QED  BY <1>5, <1>6 DEF C, R, Own

LEMMA TurnsAreRanks ==
  ASSUME NEW captured, IsCaptured(captured), NEW t
  PROVE  LET C == OfText(captured, t)
         IN  /\ \E f \in Bijection(C, 1 .. Cardinality(C)) : \A c \in C : f[c] = Turn(captured, c)
             /\ \A c \in C : c \in Own(captured, t) <=> Turn(captured, c) <= Cardinality(Own(captured, t))
  <1>. DEFINE C == OfText(captured, t)
              R == {p \in C \X C : Precedes(captured, p[1], p[2])}
              F == Own(captured, t)
  <1>1. IsFiniteSet(C)
    BY FiniteText DEF IsCaptured
  <1>2. Orders(R, C) /\ \A x \in C, y \in F : <<x, y>> \in R => x \in F
    BY PrecedesIsOrder
  <1>3. \A c \in C : RankIn(C, R)[c] = Turn(captured, c)
    <2> SUFFICES ASSUME NEW c \in C PROVE RankIn(C, R)[c] = Turn(captured, c)
      OBVIOUS
    <2>1. captured[c].text = t
      BY DEF OfText
    <2>2. {y \in C : <<y, c>> \in R} = {j \in OfText(captured, captured[c].text) : Precedes(captured, j, c)}
      BY <2>1
    <2>. HIDE DEF C, R
    <2>3. RankIn(C, R)[c] = 1 + Cardinality({y \in C : <<y, c>> \in R})
      BY DEF RankIn, Below
    <2>4. Turn(captured, c) = 1 + Cardinality({j \in OfText(captured, captured[c].text) : Precedes(captured, j, c)})
      BY DEF Turn
    <2>. QED  BY <2>2, <2>3, <2>4, Zenon
  <1>4. F \in SUBSET C
    BY DEF Own
  <1>. HIDE DEF R, C, F
  <1>5. RankIn(C, R) \in Bijection(C, 1 .. Cardinality(C))
    BY <1>1, <1>2, RanksAreAll
  <1>6. \A c \in C : c \in F <=> RankIn(C, R)[c] <= Cardinality(F)
    BY <1>1, <1>2, <1>4, RanksOfFirst
  <1>. QED  BY <1>3, <1>5, <1>6 DEF C, F

LEMMA PositionsAreRanks ==
  ASSUME NEW rows, IsRows(rows), NEW t
  PROVE  LET I == OfText(rows, t)
         IN  \E f \in Bijection(I, 1 .. Cardinality(I)) : \A i \in I : f[i] = Position(rows, i)
  <1>. DEFINE I == OfText(rows, t)
              R == {p \in I \X I : p[1] < p[2]}
  <1>1. IsFiniteSet(I) /\ I \subseteq Nat
    BY FiniteText DEF IsRows
  <1>2. Orders(R, I)
    <2>1. \A x, y \in I : (<<x, y>> \in R <=> x < y) /\ x \in Int /\ y \in Int
      BY <1>1
    <2>. HIDE DEF R, I
    <2>2. ASSUME NEW x \in I PROVE <<x, x>> \notin R
      BY <2>1
    <2>3. ASSUME NEW x \in I, NEW y \in I, x # y PROVE <<x, y>> \in R \/ <<y, x>> \in R
      BY <2>1, <2>3
    <2>4. ASSUME NEW x \in I, NEW y \in I, NEW z \in I, <<x, y>> \in R, <<y, z>> \in R PROVE <<x, z>> \in R
      BY <2>1, <2>4
    <2>. QED  BY <2>2, <2>3, <2>4 DEF Orders
  <1>3. \A i \in I : RankIn(I, R)[i] = Position(rows, i)
    <2> SUFFICES ASSUME NEW i \in I PROVE RankIn(I, R)[i] = Position(rows, i)
      OBVIOUS
    <2>1. rows[i].text = t
      BY DEF OfText
    <2>2. {y \in I : <<y, i>> \in R} = {j \in OfText(rows, rows[i].text) : j < i}
      BY <2>1
    <2>. HIDE DEF I, R
    <2>3. RankIn(I, R)[i] = 1 + Cardinality({y \in I : <<y, i>> \in R})
      BY DEF RankIn, Below
    <2>4. Position(rows, i) = 1 + Cardinality({j \in OfText(rows, rows[i].text) : j < i})
      BY DEF Position
    <2>. QED  BY <2>2, <2>3, <2>4, Zenon
  <1>. HIDE DEF R, I
  <1>4. RankIn(I, R) \in Bijection(I, 1 .. Cardinality(I))
    BY <1>1, <1>2, RanksAreAll
  <1>. QED  BY <1>3, <1>4 DEF I

----------------------------------------------------------------------------
(* Which corrections are placed                                            *)

\* The correction whose turn it is at a row.
AtTurn(rows, captured, i) == {c \in OfText(captured, rows[i].text) : Turn(captured, c) = Position(rows, i)}

LEMMA TurnsAreNumbers ==
  ASSUME NEW captured, IsCaptured(captured), NEW c \in DOMAIN captured
  PROVE  LET n == Cardinality(OfText(captured, captured[c].text))
         IN  n \in Nat /\ Turn(captured, c) \in 1 .. n
  <1>. DEFINE t == captured[c].text
              C == OfText(captured, t)
  <1>1. PICK f \in Bijection(C, 1 .. Cardinality(C)) : \A d \in C : f[d] = Turn(captured, d)
    BY TurnsAreRanks
  <1>2. f \in [C -> 1 .. Cardinality(C)]
    BY DEF Bijection, Injection
  <1>3. c \in C
    BY DEF OfText
  <1>4. Cardinality(C) \in Nat
    BY FiniteText DEF IsCaptured
  <1>. QED  BY <1>1, <1>2, <1>3, <1>4

LEMMA OneAtATurn ==
  ASSUME NEW captured, IsCaptured(captured), NEW t, NEW c \in OfText(captured, t), NEW d \in OfText(captured, t),
         Turn(captured, c) = Turn(captured, d)
  PROVE  c = d
  <1>. DEFINE C == OfText(captured, t)
  <1>1. PICK f \in Bijection(C, 1 .. Cardinality(C)) : \A x \in C : f[x] = Turn(captured, x)
    BY TurnsAreRanks
  <1>. QED  BY <1>1 DEF Bijection, Injection, IsInjective

LEMMA EachTurnComes ==
  ASSUME NEW captured, IsCaptured(captured), NEW t, NEW n \in 1 .. Cardinality(OfText(captured, t))
  PROVE  \E c \in OfText(captured, t) : Turn(captured, c) = n
  <1>. DEFINE C == OfText(captured, t)
  <1>1. PICK f \in Bijection(C, 1 .. Cardinality(C)) : \A x \in C : f[x] = Turn(captured, x)
    BY TurnsAreRanks
  <1>. QED  BY <1>1 DEF Bijection, Surjection

LEMMA PositionsAreNumbers ==
  ASSUME NEW rows, IsRows(rows), NEW i \in DOMAIN rows
  PROVE  LET n == Cardinality(OfText(rows, rows[i].text))
         IN  n \in Nat /\ Position(rows, i) \in 1 .. n
  <1>. DEFINE I == OfText(rows, rows[i].text)
  <1>1. PICK f \in Bijection(I, 1 .. Cardinality(I)) : \A d \in I : f[d] = Position(rows, d)
    BY PositionsAreRanks
  <1>2. f \in [I -> 1 .. Cardinality(I)]
    BY DEF Bijection, Injection
  <1>3. i \in I
    BY DEF OfText
  <1>4. Cardinality(I) \in Nat
    BY FiniteText DEF IsRows
  <1>. QED  BY <1>1, <1>2, <1>3, <1>4

\* A row has a correction at its turn, or is left over.
LEMMA LeftOrAtTurn ==
  ASSUME NEW rows, IsRows(rows), NEW captured, IsCaptured(captured), NEW i \in DOMAIN rows
  PROVE  i \in LeftRows(rows, captured) <=> AtTurn(rows, captured, i) = {}
  <1>. DEFINE t == rows[i].text
              n == Cardinality(OfText(captured, t))
  <1>1. n \in Nat /\ Position(rows, i) \in Nat /\ Position(rows, i) >= 1
    BY PositionsAreNumbers, FiniteText DEF IsCaptured
  <1>2. CASE Position(rows, i) > n
    <2>1. \A c \in OfText(captured, t) : Turn(captured, c) <= n
      <3> SUFFICES ASSUME NEW c \in OfText(captured, t) PROVE Turn(captured, c) <= n
        OBVIOUS
      <3>1. c \in DOMAIN captured /\ captured[c].text = t
        BY DEF OfText
      <3>2. Turn(captured, c) \in 1 .. n
        BY <3>1, TurnsAreNumbers
      <3>. QED  BY <1>1, <3>2
    <2>2. \A c \in OfText(captured, t) : Turn(captured, c) # Position(rows, i)
      <3>. HIDE DEF n, t
      <3>. QED  BY <1>1, <1>2, <2>1
    <2>. QED  BY <1>2, <2>2 DEF LeftRows, AtTurn
  <1>3. CASE ~(Position(rows, i) > n)
    <2>1. Position(rows, i) \in 1 .. n
      <3>. HIDE DEF n
      <3>. QED  BY <1>1, <1>3
    <2>2. \E c \in OfText(captured, t) : Turn(captured, c) = Position(rows, i)
      BY <2>1, EachTurnComes
    <2>. QED  BY <1>3, <2>2 DEF LeftRows, AtTurn
  <1>. QED  BY <1>2, <1>3

\* The fallback's row is left over, and what it takes is of another text.
LEMMA FallbackIsOther ==
  ASSUME NEW rows, IsRows(rows), NEW captured, IsCaptured(captured), NEW i \in DOMAIN rows,
         NEW c \in Fallback(rows, captured, i)
  PROVE  /\ i \in LeftRows(rows, captured) /\ c \in DOMAIN captured /\ captured[c].text # rows[i].text
         /\ Fallback(rows, captured, i) = {c} /\ FallbackFits(rows[i], captured[c])
  <1>1. /\ LeftRows(rows, captured) = {i} /\ c \in Unplaced(rows, captured)
        /\ Unmatched(rows, captured) = {c} /\ FallbackFits(rows[i], captured[c])
    BY DEF Fallback, Unmatched
  <1>2. c \in DOMAIN captured /\ Turn(captured, c) > Cardinality(OfText(rows, captured[c].text))
    BY <1>1 DEF Unplaced
  <1>3. Position(rows, i) > Cardinality(OfText(captured, rows[i].text))
    BY <1>1 DEF LeftRows
  <1>4. ASSUME captured[c].text = rows[i].text PROVE FALSE
    <2>1. Turn(captured, c) \in 1 .. Cardinality(OfText(captured, rows[i].text))
          /\ Cardinality(OfText(captured, rows[i].text)) \in Nat
      BY <1>2, <1>4, TurnsAreNumbers
    <2>2. Position(rows, i) \in 1 .. Cardinality(OfText(rows, rows[i].text))
          /\ Cardinality(OfText(rows, rows[i].text)) \in Nat
      BY PositionsAreNumbers
    <2>. QED  BY <1>2, <1>3, <1>4, <2>1, <2>2
  <1>5. Fallback(rows, captured, i) = {c}
    BY <1>1 DEF Fallback
  <1>. QED  BY <1>1, <1>2, <1>4, <1>5

LEMMA PlacedIsOne ==
  ASSUME NEW rows, IsRows(rows), NEW captured, IsCaptured(captured), NEW i \in DOMAIN rows
  PROVE  \A c, d \in PlacedOn(rows, captured, i) : c = d
  <1>1. PlacedOn(rows, captured, i) = AtTurn(rows, captured, i) \cup Fallback(rows, captured, i)
    BY DEF PlacedOn, AtTurn
  <1>2. \A c, d \in AtTurn(rows, captured, i) : c = d
    BY OneAtATurn DEF AtTurn
  <1>3. \A c, d \in Fallback(rows, captured, i) : c = d
    BY FallbackIsOther
  <1>4. AtTurn(rows, captured, i) = {} \/ Fallback(rows, captured, i) = {}
    BY FallbackIsOther, LeftOrAtTurn
  <1>. QED  BY <1>1, <1>2, <1>3, <1>4

\* The first so many corrections of a text return to the first so many rows.
LEMMA FirstReturn ==
  ASSUME NEW rows, IsRows(rows), NEW captured, IsCaptured(captured), NEW t, NEW some \in SUBSET OfText(captured, t),
         \A c \in OfText(captured, t) : c \in some <=> Turn(captured, c) <= Cardinality(some)
  PROVE  Cardinality(Getting(rows, captured, t, some)) = Least(Cardinality(some), Cardinality(OfText(rows, t)))
  <1>. DEFINE I == OfText(rows, t)
              m == Cardinality(some)
  <1>1. m \in Nat /\ m <= Cardinality(OfText(captured, t)) /\ Cardinality(OfText(captured, t)) \in Nat
    <2>1. IsFiniteSet(OfText(captured, t)) /\ Cardinality(OfText(captured, t)) \in Nat
      BY FiniteText DEF IsCaptured
    <2>2. IsFiniteSet(some) /\ m <= Cardinality(OfText(captured, t))
      BY <2>1, FS_Subset
    <2>. QED  BY <2>1, <2>2, FS_CardinalityType
  <1>2. IsFiniteSet(I) /\ Cardinality(I) \in Nat
    BY FiniteText DEF IsRows
  <1>3. PICK f \in Bijection(I, 1 .. Cardinality(I)) : \A i \in I : f[i] = Position(rows, i)
    BY PositionsAreRanks
  <1>4. ASSUME NEW i \in I
        PROVE  PlacedOn(rows, captured, i) \cap some # {} <=> f[i] <= m
    <2>1. i \in DOMAIN rows /\ rows[i].text = t
      BY DEF OfText
    <2>2. f[i] = Position(rows, i) /\ Position(rows, i) \in Nat /\ Position(rows, i) >= 1
      <3>1. Position(rows, i) \in 1 .. Cardinality(OfText(rows, rows[i].text))
        BY <2>1, PositionsAreNumbers
      <3>. QED  BY <1>3, <3>1
    <2>3. ASSUME NEW c \in PlacedOn(rows, captured, i) \cap some PROVE f[i] <= m
      <3>1. c \notin Fallback(rows, captured, i)
        <4>1. captured[c].text = t
          BY DEF OfText
        <4>. QED  BY <2>1, <4>1, FallbackIsOther
      <3>2. Turn(captured, c) = Position(rows, i) /\ c \in OfText(captured, t)
        BY <3>1 DEF PlacedOn
      <3>. QED  BY <2>2, <3>2
    <2>4. ASSUME f[i] <= m PROVE PlacedOn(rows, captured, i) \cap some # {}
      <3>1. Position(rows, i) \in 1 .. Cardinality(OfText(captured, t))
        <4>. HIDE DEF m
        <4>. QED  BY <1>1, <2>2, <2>4
      <3>2. PICK c \in OfText(captured, t) : Turn(captured, c) = Position(rows, i)
        BY <3>1, EachTurnComes
      <3>3. c \in some
        BY <2>2, <2>4, <3>2
      <3>4. c \in PlacedOn(rows, captured, i)
        BY <2>1, <3>2 DEF PlacedOn
      <3>. QED  BY <3>3, <3>4
    <2>. QED  BY <2>3, <2>4
  <1>5. Getting(rows, captured, t, some) = {i \in I : f[i] <= m}
    BY <1>4 DEF Getting
  <1>6. Cardinality({i \in I : f[i] <= m}) = IF m < Cardinality(I) THEN m ELSE Cardinality(I)
    <2>. HIDE DEF I, m
    <2>. QED  BY <1>1, <1>2, CountFirst
  <1>. QED  BY <1>5, <1>6 DEF Least

\* An applied row keeps its text, and its category unless it gets a correction.
LEMMA AppliedRow ==
  ASSUME NEW rows, IsRows(rows), NEW captured, IsCaptured(captured), NEW i \in DOMAIN rows
  PROVE  LET P == PlacedOn(rows, captured, i)
             r == Applied(rows, captured)[i]
         IN  /\ P = {} => r = rows[i]
             /\ \A c \in P : r = Place(rows[i], captured[c])
  <1>. DEFINE P == PlacedOn(rows, captured, i)
  <1>1. Applied(rows, captured)[i] = IF P = {} THEN rows[i] ELSE Place(rows[i], captured[CHOOSE c \in P : TRUE])
    BY DEF Applied
  <1>2. \A c, d \in P : c = d
    BY PlacedIsOne
  <1>. HIDE DEF P
  <1>3. ASSUME NEW c \in P PROVE (CHOOSE d \in P : TRUE) = c
    BY <1>2
  <1>. QED  BY <1>1, <1>3 DEF P

LEMMA AreCarefullyPlaced ==
  ASSUME NEW rows, IsRows(rows), NEW captured, IsCaptured(captured)
  PROVE  CarefullyPlaced(rows, captured)
  <1>1. \A i \in DOMAIN rows : \A c, d \in PlacedOn(rows, captured, i) : c = d
    BY PlacedIsOne
  <1>2. ASSUME NEW t
        PROVE  LET all == OfText(captured, t)
                   own == {c \in all : ~captured[c].carried}
                   room == Cardinality(OfText(rows, t))
               IN  /\ Cardinality(Getting(rows, captured, t, own)) = Least(Cardinality(own), room)
                   /\ Cardinality(Getting(rows, captured, t, all)) = Least(Cardinality(all), room)
    <2>. DEFINE all == OfText(captured, t)
    <2>1. \A c \in all : c \in Own(captured, t) <=> Turn(captured, c) <= Cardinality(Own(captured, t))
      BY TurnsAreRanks
    <2>2. Cardinality(Getting(rows, captured, t, Own(captured, t)))
             = Least(Cardinality(Own(captured, t)), Cardinality(OfText(rows, t)))
      <3>1. Own(captured, t) \in SUBSET all
        BY DEF Own
      <3>. QED  BY <2>1, <3>1, FirstReturn
    <2>3. \A c \in all : c \in all <=> Turn(captured, c) <= Cardinality(all)
      <3> SUFFICES ASSUME NEW c \in all PROVE Turn(captured, c) <= Cardinality(all)
        OBVIOUS
      <3>1. c \in DOMAIN captured /\ captured[c].text = t
        BY DEF OfText
      <3>. QED  BY <3>1, TurnsAreNumbers
    <2>4. Cardinality(Getting(rows, captured, t, all)) = Least(Cardinality(all), Cardinality(OfText(rows, t)))
      BY <2>3, FirstReturn
    <2>. QED  BY <2>2, <2>4 DEF Own
  <1>3. ASSUME NEW i \in DOMAIN rows, rows[i].manual, Applied(rows, captured)[i].category # rows[i].category
        PROVE  OfText(captured, rows[i].text) # {}
    <2>1. PICK c \in PlacedOn(rows, captured, i) : Applied(rows, captured)[i] = Place(rows[i], captured[c])
      BY <1>3, AppliedRow
    <2>2. CASE c \in OfText(captured, rows[i].text)
      BY <2>2
    <2>3. CASE c \in Fallback(rows, captured, i)
      <3>1. rows[i].category = captured[c].category
        BY <1>3, <2>3, FallbackIsOther DEF FallbackFits
      <3>2. rows[i] \in [text : STRING, category : Nat, manual : BOOLEAN]
        BY FiniteText DEF IsRows
      <3>3. Place(rows[i], captured[c]).category = captured[c].category
        BY <3>2 DEF Place
      <3>. QED  BY <1>3, <2>1, <3>1, <3>3
    <2>. QED  BY <2>2, <2>3 DEF PlacedOn
  <1>. QED  BY <1>1, <1>2, <1>3 DEF CarefullyPlaced

----------------------------------------------------------------------------
(* Applying corrections twice                                              *)

Marked(r, x, y) == [r EXCEPT !.category = x, !.manual = y]

LEMMA MarkedTwice ==
  ASSUME NEW r, DOMAIN r = {"text", "category", "manual"}, NEW x, NEW y
  PROVE  /\ Marked(r, x, y) = [text |-> r.text, category |-> x, manual |-> y]
         /\ Marked(Marked(r, x, y), x, y) = Marked(r, x, y)
  <1>. DEFINE q == [r EXCEPT !.category = x, !.manual = y]
              p == [text |-> r.text, category |-> x, manual |-> y]
  <1>1. DOMAIN q = DOMAIN p /\ q.text = p.text /\ q.category = p.category /\ q.manual = p.manual
    OBVIOUS
  <1>2. q = p
    <2>1. q = [k \in DOMAIN q |-> q[k]] /\ p = [k \in DOMAIN p |-> p[k]]
      OBVIOUS
    <2>2. DOMAIN p = {"text", "category", "manual"}
      OBVIOUS
    <2>. HIDE DEF q, p
    <2>3. \A k \in DOMAIN p : q[k] = p[k]
      BY <1>1, <2>2
    <2>. QED  BY <1>1, <2>1, <2>3
  <1>3. q.category = x /\ q.manual = y /\ DOMAIN q = {"text", "category", "manual"} /\ q = [k \in DOMAIN q |-> q[k]]
    OBVIOUS
  <1>. HIDE DEF q, p
  <1>4. [q EXCEPT !.category = x, !.manual = y] = q
    <2>. DEFINE w == [q EXCEPT !.category = x, !.manual = y]
    <2>1. DOMAIN w = DOMAIN q /\ w = [k \in DOMAIN q |-> w[k]]
      OBVIOUS
    <2>2. w.text = q.text /\ w.category = x /\ w.manual = y
      BY <1>3
    <2>. HIDE DEF w
    <2>3. \A k \in DOMAIN q : w[k] = q[k]
      BY <1>3, <2>2
    <2>4. w = q
      BY <1>3, <2>1, <2>3
    <2>. QED  BY <2>4 DEF w
  <1>. QED  BY <1>2, <1>4, Zenon DEF q, p, Marked

LEMMA PlaceTwice ==
  ASSUME NEW r \in [text : STRING, category : Nat, manual : BOOLEAN],
         NEW c \in [text : STRING, category : Nat, carried : BOOLEAN]
  PROVE  /\ Place(r, c) \in [text : STRING, category : Nat, manual : BOOLEAN]
         /\ Place(r, c).text = r.text /\ Place(r, c).category = c.category /\ Place(r, c).manual
         /\ Place(Place(r, c), c) = Place(r, c)
  <1>. DEFINE q == Place(r, c)
  <1>1. DOMAIN r = {"text", "category", "manual"} /\ r.text \in STRING /\ c.category \in Nat
    OBVIOUS
  <1>2. q = [text |-> r.text, category |-> c.category, manual |-> TRUE] /\ Place(q, c) = q
    <2>1. PICK yes : yes = TRUE
      OBVIOUS
    <2>2. \A x : Place(x, c) = Marked(x, c.category, yes)
      BY <2>1, Zenon DEF Place, Marked
    <2>3. /\ q = [text |-> r.text, category |-> c.category, manual |-> yes]
          /\ Marked(q, c.category, yes) = q
      BY <1>1, <2>2, MarkedTwice
    <2>. HIDE DEF q
    <2>. QED  BY <2>1, <2>2, <2>3, Zenon
  <1>. HIDE DEF q
  <1>3. q \in [text : STRING, category : Nat, manual : BOOLEAN] /\ q.text = r.text /\ q.category = c.category /\ q.manual
    BY <1>1, <1>2
  <1>. QED  BY <1>2, <1>3 DEF q

LEMMA AppliedRows ==
  ASSUME NEW rows, IsRows(rows), NEW captured, IsCaptured(captured)
  PROVE  LET B == Applied(rows, captured)
         IN  /\ IsRows(B) /\ DOMAIN B = DOMAIN rows
             /\ \A i \in DOMAIN rows : B[i].text = rows[i].text
  <1>. DEFINE B == Applied(rows, captured)
              Row == [text : STRING, category : Nat, manual : BOOLEAN]
  <1>1. DOMAIN B = DOMAIN rows /\ B = [i \in DOMAIN rows |-> B[i]]
    BY DEF Applied
  <1>2. ASSUME NEW i \in DOMAIN rows PROVE B[i] \in Row /\ B[i].text = rows[i].text
    <2>1. rows[i] \in Row
      BY FiniteText DEF IsRows
    <2>2. CASE PlacedOn(rows, captured, i) = {}
      BY <2>1, <2>2, AppliedRow
    <2>3. CASE PlacedOn(rows, captured, i) # {}
      <3>1. PICK c \in PlacedOn(rows, captured, i) : B[i] = Place(rows[i], captured[c])
        BY <2>3, AppliedRow
      <3>2. c \in DOMAIN captured
        BY FallbackIsOther DEF PlacedOn, OfText
      <3>3. captured[c] \in [text : STRING, category : Nat, carried : BOOLEAN]
        BY <3>2, FiniteText DEF IsCaptured
      <3>. QED  BY <2>1, <3>1, <3>3, PlaceTwice
    <2>. QED  BY <2>2, <2>3
  <1>. HIDE DEF B
  <1>3. IsRows(B)
    <2>1. DOMAIN rows = 1 .. Len(rows) /\ Len(rows) \in Nat
      BY LenProperties DEF IsRows
    <2>2. B \in [1 .. Len(rows) -> Row]
      BY <1>1, <1>2, <2>1
    <2>3. B \in Seq(Row)
      BY <2>1, <2>2, SeqDef
    <2>. QED  BY <2>3 DEF IsRows
  <1>. QED  BY <1>1, <1>2, <1>3 DEF B

LEMMA SameTexts ==
  ASSUME NEW rows, NEW B, DOMAIN B = DOMAIN rows, \A i \in DOMAIN rows : B[i].text = rows[i].text, NEW captured
  PROVE  /\ \A i \in DOMAIN rows : AtTurn(B, captured, i) = AtTurn(rows, captured, i)
         /\ LeftRows(B, captured) = LeftRows(rows, captured)
         /\ Unmatched(B, captured) = Unmatched(rows, captured)
  <1>1. \A t : OfText(B, t) = OfText(rows, t)
    BY DEF OfText
  <1>2. \A i \in DOMAIN rows : Position(B, i) = Position(rows, i)
    BY <1>1 DEF Position
  <1>3. Unplaced(B, captured) = Unplaced(rows, captured)
    BY <1>1 DEF Unplaced
  <1>. QED  BY <1>2, <1>3 DEF AtTurn, LeftRows, Unmatched

LEMMA AppliedTwice ==
  ASSUME NEW rows, IsRows(rows), NEW captured, IsCaptured(captured)
  PROVE  AppliedOnce(rows, captured)
  <1>. DEFINE B == Applied(rows, captured)
  <1>1. IsRows(B) /\ DOMAIN B = DOMAIN rows /\ \A i \in DOMAIN rows : B[i].text = rows[i].text
    BY AppliedRows
  <1>. HIDE DEF B
  <1>2. ASSUME NEW i \in DOMAIN rows PROVE Applied(B, captured)[i] = B[i]
    <2>1. rows[i] \in [text : STRING, category : Nat, manual : BOOLEAN]
      BY FiniteText DEF IsRows
    <2>2. ASSUME NEW c \in DOMAIN captured, c \in PlacedOn(rows, captured, i), c \in PlacedOn(B, captured, i)
          PROVE  Applied(B, captured)[i] = B[i]
      <3>1. captured[c] \in [text : STRING, category : Nat, carried : BOOLEAN]
        BY FiniteText DEF IsCaptured
      <3>2. B[i] = Place(rows[i], captured[c])
        BY <2>2, AppliedRow DEF B
      <3>3. Applied(B, captured)[i] = Place(B[i], captured[c])
        BY <1>1, <2>2, AppliedRow
      <3>. QED  BY <2>1, <3>1, <3>2, <3>3, PlaceTwice
    <2>3. /\ AtTurn(B, captured, i) = AtTurn(rows, captured, i)
          /\ LeftRows(B, captured) = LeftRows(rows, captured)
          /\ Unmatched(B, captured) = Unmatched(rows, captured)
      BY <1>1, SameTexts
    <2>4. CASE AtTurn(rows, captured, i) # {}
      <3>1. PICK c : c \in AtTurn(rows, captured, i)
        BY <2>4
      <3>2. c \in PlacedOn(rows, captured, i) /\ c \in PlacedOn(B, captured, i) /\ c \in DOMAIN captured
        BY <2>3, <3>1 DEF PlacedOn, AtTurn, OfText
      <3>. QED  BY <2>2, <3>2
    <2>5. CASE Fallback(rows, captured, i) # {}
      <3>1. PICK c \in Fallback(rows, captured, i) : TRUE
        BY <2>5
      <3>2. c \in DOMAIN captured /\ c \in PlacedOn(rows, captured, i)
        BY FallbackIsOther DEF PlacedOn
      <3>3. B[i].category = captured[c].category
        <4>1. captured[c] \in [text : STRING, category : Nat, carried : BOOLEAN]
          BY <3>2, FiniteText DEF IsCaptured
        <4>2. B[i] = Place(rows[i], captured[c])
          BY <3>2, AppliedRow DEF B
        <4>. QED  BY <2>1, <4>1, <4>2, PlaceTwice
      <3>4. c \in Fallback(B, captured, i)
        BY <2>3, <3>3 DEF Fallback, FallbackFits
      <3>5. c \in PlacedOn(B, captured, i)
        BY <3>4 DEF PlacedOn
      <3>. QED  BY <2>2, <3>2, <3>5
    <2>6. CASE AtTurn(rows, captured, i) = {} /\ Fallback(rows, captured, i) = {}
      <3>1. PlacedOn(rows, captured, i) = {}
        BY <2>6 DEF PlacedOn, AtTurn
      <3>2. B[i] = rows[i]
        BY <3>1, AppliedRow DEF B
      <3>3. Fallback(B, captured, i) = {}
        BY <2>3, <2>6, <3>2 DEF Fallback
      <3>4. PlacedOn(B, captured, i) = {}
        BY <2>3, <2>6, <3>3 DEF PlacedOn, AtTurn
      <3>. QED  BY <1>1, <3>4, AppliedRow
    <2>. QED  BY <2>4, <2>5, <2>6
  <1>3. Applied(B, captured) = [i \in DOMAIN B |-> Applied(B, captured)[i]] /\ B = [i \in DOMAIN B |-> B[i]]
    BY DEF Applied, B
  <1>. QED  BY <1>1, <1>2, <1>3 DEF AppliedOnce, B

----------------------------------------------------------------------------
(* Every due date, account, range and statement asked for                  *)

\* The worker's due date is the nearest, the API's the last one passed, and the
\* two agree on whether a payment is settled, for every schedule and dates.
THEOREM WorkerAndApiAgree == Spec => []DueDatesAgree
<1>1. Init => DueDatesAgree
  BY DEF Init, DueDatesAgree
<1>2. DueDatesAgree /\ [Next]_vars => DueDatesAgree'
  <2> SUFFICES ASSUME DueDatesAgree, [Next]_vars, asked'.kind = "due"
               PROVE  /\ NearestOfAll(asked'.of.schedule, asked'.of.paid)
                      /\ LatestOfAll(asked'.of.schedule, asked'.of.today)
                      /\ CopiesAgree(asked'.of.schedule, asked'.of.paid, asked'.of.today)
    BY DEF DueDatesAgree
  <2>1. CASE UNCHANGED vars
    BY <2>1 DEF vars, DueDatesAgree
  <2>2. CASE AskDueDate
    <3>1. PICK i \in DueInputs : asked' = [kind |-> "due", of |-> i]
      BY <2>2 DEF AskDueDate, Ask
    <3>2. i.schedule \in Schedule /\ i.paid \in CalendarDate /\ i.today \in CalendarDate
      BY InputsAssumption
    <3>3. NearestOfAll(i.schedule, i.paid) /\ LatestOfAll(i.schedule, i.today)
      BY <3>2, NearestIsNearest, LatestIsLatest
    <3>4. CopiesAgree(i.schedule, i.paid, i.today)
      BY <3>2, CopiesDoAgree
    <3> QED BY <3>1, <3>3, <3>4
  <2>3. CASE AskBalances \/ AskSeriesDates \/ AskExtraction \/ AskPlacing
    BY <2>3 DEF AskBalances, AskSeriesDates, AskExtraction, AskPlacing, Ask
  <2> QED BY <2>1, <2>2, <2>3 DEF Next
<1> QED BY <1>1, <1>2, PTL DEF Spec

\* What was asked was one of the inputs of its kind.
AskedOfInputs ==
    /\ asked.kind \in {"none", "due", "books", "series", "reading", "placing"}
    /\ asked.kind = "books" => asked.of \in BookInputs
    /\ asked.kind = "series" => asked.of \in SeriesInputs
    /\ asked.kind = "reading" => asked.of \in ReadingInputs
    /\ asked.kind = "placing" => asked.of \in PlacingInputs

LEMMA AskedIsAnInput == Spec => []AskedOfInputs
<1>1. Init => AskedOfInputs
  BY DEF Init, AskedOfInputs
<1>2. AskedOfInputs /\ [Next]_vars => AskedOfInputs'
  <2> SUFFICES ASSUME AskedOfInputs, [Next]_vars PROVE AskedOfInputs'
    OBVIOUS
  <2>1. CASE AskDueDate
    BY <2>1 DEF AskDueDate, Ask, AskedOfInputs
  <2>2. CASE AskBalances
    BY <2>2 DEF AskBalances, Ask, AskedOfInputs
  <2>3. CASE AskSeriesDates
    BY <2>3 DEF AskSeriesDates, Ask, AskedOfInputs
  <2>4. CASE AskExtraction
    BY <2>4 DEF AskExtraction, Ask, AskedOfInputs
  <2>5. CASE AskPlacing
    BY <2>5 DEF AskPlacing, Ask, AskedOfInputs
  <2>6. CASE UNCHANGED vars
    BY <2>6 DEF vars, AskedOfInputs
  <2> QED BY <2>1, <2>2, <2>3, <2>4, <2>5, <2>6 DEF Next
<1> QED BY <1>1, <1>2, PTL DEF Spec

\* Whatever the accounts, closings, transactions and rates: every point of a
\* series is the lookup of its day, and a monthly series has the month ends of
\* its range, each a day that can be looked up.
THEOREM SeriesAndLookupAgree == Spec => []SeriesIsLookup
<1>1. AskedOfInputs => SeriesIsLookup
  <2>1. ASSUME AskedOfInputs, asked.kind = "books", NEW day \in asked.of.days
        PROVE  PointIsLookup(asked.of.accounts, day, asked.of.rates)
    <3>1. asked.of \in BookInputs
      BY <2>1 DEF AskedOfInputs
    <3>2. (\A a \in asked.of.accounts : IsAccount(a)) /\ day \in Int
      BY <2>1, <3>1, BooksAssumption
    <3> QED BY <3>2, PointsAreLookups
  <2>2. ASSUME AskedOfInputs, asked.kind = "series"
        PROVE  PointsAreMonthEnds(asked.of.start, asked.of.end)
    <3>1. asked.of \in SeriesInputs
      BY <2>2 DEF AskedOfInputs
    <3>2. /\ asked.of.start \in CalendarDate /\ asked.of.end \in CalendarDate
          /\ NotAfter(Earliest, asked.of.start) /\ NotAfter(asked.of.start, asked.of.end)
      BY <3>1, SeriesAssumption
    <3> QED BY <3>2, MonthlyPoints
  <2> QED BY <2>1, <2>2 DEF SeriesIsLookup
<1> QED BY <1>1, AskedIsAnInput, PTL

\* Whatever the accounts and the tolerance: an account without a listed
\* difference has on every day the balance its anchor alone gives, to within the
\* tolerance, and one without a gap of any size differs from its anchor by one amount.
THEOREM UnlistedIsExplained == Spec => []DiscrepanciesExplain
<1>1. AskedOfInputs => DiscrepanciesExplain
  <2> SUFFICES ASSUME AskedOfInputs, asked.kind = "books", NEW a \in WithAnchor(asked.of.accounts)
               PROVE  DiscrepanciesExplainBalances(a, asked.of.days, asked.of.tolerance)
    BY DEF DiscrepanciesExplain
  <2>1. asked.of \in BookInputs
    BY DEF AskedOfInputs
  <2>2. IsAccount(a) /\ a.anchor # {} /\ asked.of.days \in SUBSET Int /\ asked.of.tolerance \in Nat
    BY <2>1, BooksAssumption DEF WithAnchor, DepositAccounts
  <2> QED BY <2>2, DiscrepanciesAreAll
<1> QED BY <1>1, AskedIsAnInput, PTL

\* Whatever statement was printed and whichever of its dates were read month
\* first, the first of a section too: it is not refused, and each line whose date
\* can be told is kept or left out as printed and committed under its printed
\* date.
THEOREM MisreadDatesReturn == Spec => []DatesRecovered
<1>1. AskedOfInputs => DatesRecovered
  <2>1. ASSUME AskedOfInputs, asked.kind = "reading"
        PROVE  RecoversDates(asked.of.reading, asked.of.printed, asked.of.statementDate, asked.of.today)
    <3>1. asked.of \in ReadingInputs
      BY <2>1 DEF AskedOfInputs
    <3>2. /\ asked.of.printed \in Seq(Seq(Line)) /\ asked.of.printed # <<>>
          /\ asked.of.statementDate \in CalendarDate
          /\ MayBeReadAs(asked.of.printed, asked.of.statementDate, asked.of.reading)
      BY <3>1, ReadingAssumption
    <3> QED BY <3>2, PrintedDatesReturn
  <2> QED BY <2>1 DEF DatesRecovered
<1> QED BY <1>1, AskedIsAnInput, PTL

\* Whatever rows and corrections one date, amount and direction has: no row is
\* asked to take two corrections, each description gets back as many as it has
\* rows, the statement's own before those of a skipped copy, nothing is put over
\* a different correction of another description, and a second finish of the
\* same backfill changes nothing.
THEOREM CorrectionsComeBack == Spec => []CorrectionsReturn
<1>1. AskedOfInputs => CorrectionsReturn
  <2>1. ASSUME AskedOfInputs, asked.kind = "placing"
        PROVE  /\ CarefullyPlaced(asked.of.rows, asked.of.captured)
               /\ AppliedOnce(asked.of.rows, asked.of.captured)
    <3>1. asked.of \in PlacingInputs
      BY <2>1 DEF AskedOfInputs
    <3>2. IsRows(asked.of.rows) /\ IsCaptured(asked.of.captured)
      BY <3>1, PlacingAssumption DEF IsRows, IsCaptured
    <3> QED BY <3>2, AreCarefullyPlaced, AppliedTwice
  <2> QED BY <2>1 DEF CorrectionsReturn
<1> QED BY <1>1, AskedIsAnInput, PTL

=============================================================================
