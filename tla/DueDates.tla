------------------------------ MODULE DueDates ------------------------------
(***************************************************************************)
(* Due dates of recurring payments.  The worker matches a transaction to   *)
(* the due date nearest to it; the API shows a payment's status from the   *)
(* latest due date not after today.  The two are separate copies of one    *)
(* date arithmetic (recurring_payments/cycle.py of both services).         *)
(*                                                                         *)
(* A date is a record of year, month and day; Ordinal counts days.         *)
(***************************************************************************)
EXTENDS Integers

DateOf(y, m, d) == [y |-> y, m |-> m, d |-> d]

IsLeap(y) == (y % 4 = 0 /\ y % 100 # 0) \/ y % 400 = 0
DaysInMonth(y, m) == IF m = 2 THEN (IF IsLeap(y) THEN 29 ELSE 28)
                     ELSE IF m \in {4, 6, 9, 11} THEN 30 ELSE 31

\* The dates there are.
CalendarDate == {t \in [y : Int, m : 1 .. 12, d : 1 .. 31] : t.d <= DaysInMonth(t.y, t.m)}

\* Days before January of year y and before month m of it.
DaysBeforeYear(y) == 365 * (y - 1) + (y - 1) \div 4 - (y - 1) \div 100 + (y - 1) \div 400
DaysBeforeMonth(y, m) ==
    LET before == <<0, 31, 59, 90, 120, 151, 181, 212, 243, 273, 304, 334>>
    IN  before[m] + (IF m > 2 /\ IsLeap(y) THEN 1 ELSE 0)
Ordinal(date) == DaysBeforeYear(date.y) + DaysBeforeMonth(date.y, date.m) + date.d

DaysBetween(a, b) == IF Ordinal(a) >= Ordinal(b) THEN Ordinal(a) - Ordinal(b) ELSE Ordinal(b) - Ordinal(a)
NotAfter(a, b) == Ordinal(a) <= Ordinal(b)

MonthsLater(y, m, delta) == LET total == y * 12 + (m - 1) + delta
                            IN  [y |-> total \div 12, m |-> (total % 12) + 1]

----------------------------------------------------------------------------
(* A schedule is monthly, on a due day, or annual, in a due month as well. *)

Monthly(day) == [frequency |-> "monthly", month |-> 0, day |-> day]
Annual(month, day) == [frequency |-> "annual", month |-> month, day |-> day]
Schedule == {Monthly(day) : day \in 1 .. 31} \cup {Annual(month, day) : month \in 1 .. 12, day \in 1 .. 31}

\* A due day the month lacks falls on its last day.
InstanceIn(y, m, day) == DateOf(y, m, IF day <= DaysInMonth(y, m) THEN day ELSE DaysInMonth(y, m))

InstanceInMonth(s, ym) == InstanceIn(ym.y, ym.m, s.day)
InstanceInYear(s, y) == InstanceIn(y, s.month, s.day)

----------------------------------------------------------------------------
(* Worker: the cycle a transaction belongs to.                             *)

\* Mutant: the other candidate is always the later one.
AdjacentIsNext(s, t) == IF s.frequency = "monthly" THEN InstanceInMonth(s, MonthsLater(t.y, t.m, 1))
                        ELSE InstanceInYear(s, t.y + 1)
Adjacent(s, t) ==
    IF s.frequency = "monthly"
    THEN InstanceInMonth(s, MonthsLater(t.y, t.m, IF t.d < s.day THEN -1 ELSE 1))
    ELSE InstanceInYear(s, IF t.m < s.month \/ (t.m = s.month /\ t.d < s.day) THEN t.y - 1 ELSE t.y + 1)

SamePeriod(s, t) == IF s.frequency = "monthly" THEN InstanceInMonth(s, [y |-> t.y, m |-> t.m])
                    ELSE InstanceInYear(s, t.y)

NearestInstance(s, t) ==
    IF DaysBetween(t, SamePeriod(s, t)) <= DaysBetween(t, Adjacent(s, t)) THEN SamePeriod(s, t) ELSE Adjacent(s, t)

CyclePeriod(s, i) == IF s.frequency = "monthly" THEN <<i.y, i.m>> ELSE <<i.y>>

----------------------------------------------------------------------------
(* API: the status of a payment today.                                     *)

LatestInstance(s, today) ==
    IF NotAfter(SamePeriod(s, today), today) THEN SamePeriod(s, today)
    ELSE IF s.frequency = "monthly" THEN InstanceInMonth(s, MonthsLater(today.y, today.m, -1))
    ELSE InstanceInYear(s, today.y - 1)

NextInstance(s, i) == IF s.frequency = "monthly" THEN InstanceInMonth(s, MonthsLater(i.y, i.m, 1))
                      ELSE InstanceInYear(s, i.y + 1)

\* settled[c]: status of the live match of cycle c, or "none".
StatusOn(s, today, settled, lead) ==
    LET current == LatestInstance(s, today)
        match == settled[CyclePeriod(s, current)]
        nextIsNear == Ordinal(NextInstance(s, current)) - Ordinal(today) <= lead
    IN  CASE match = "pending" -> "pending_review"
          [] match \in {"approved", "auto_applied"} -> IF nextIsNear THEN "due_soon" ELSE "paid"
          [] OTHER -> IF current # today THEN "overdue" ELSE "due_soon"

----------------------------------------------------------------------------
(* Reference definitions: every due date of the years around a date.       *)

Instances(s, t) ==
    IF s.frequency = "monthly" THEN {InstanceInMonth(s, MonthsLater(t.y, t.m, k)) : k \in -3 .. 3}
    ELSE {InstanceInYear(s, y) : y \in t.y - 2 .. t.y + 2}

\* The worker's due date is the nearest of all, whatever the month's length.
NearestOfAll(s, t) ==
    /\ NearestInstance(s, t) \in Instances(s, t)
    /\ \A i \in Instances(s, t) : DaysBetween(t, NearestInstance(s, t)) <= DaysBetween(t, i)

\* The API's due date is the last one not after today, and the next one is the
\* first after it.
LatestOfAll(s, today) ==
    /\ NotAfter(LatestInstance(s, today), today)
    /\ \A i \in Instances(s, today) : NotAfter(i, today) => NotAfter(i, LatestInstance(s, today))
    /\ ~NotAfter(NextInstance(s, LatestInstance(s, today)), today)
    /\ \A i \in Instances(s, today) : ~NotAfter(i, today) => NotAfter(NextInstance(s, LatestInstance(s, today)), i)

\* A transaction settles the cycle that the API asks about from its due date to
\* the eve of the next: with the worker's match the payment is not overdue on
\* any of these days, without it it is from the second on.
CopiesAgree(s, t, today) ==
    LET due == NearestInstance(s, t)
        covers == NotAfter(due, today) /\ ~NotAfter(NextInstance(s, due), today)
        cycles == {CyclePeriod(s, i) : i \in Instances(s, t)}
        unsettled == [c \in cycles |-> "none"]
        settled == [unsettled EXCEPT ![CyclePeriod(s, due)] = "auto_applied"]
    IN  covers => /\ StatusOn(s, today, settled, 0) # "overdue"
                  /\ (StatusOn(s, today, unsettled, 0) = "overdue" <=> today # due)

============================================================================
