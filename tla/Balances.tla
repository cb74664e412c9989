------------------------------ MODULE Balances ------------------------------
(***************************************************************************)
(* Balances of deposit accounts, computed on request from the anchor the   *)
(* user entered, the closing balances printed on statements and the        *)
(* transactions (balances/calculation.py, service.py, repository.py).      *)
(*                                                                         *)
(* Days are day numbers.  An account is [id, type, currency, anchor: set   *)
(* of at most one [balance, date], closings: sequence of [balance, date],  *)
(* oldest record first, txns: sequence of [date, in, out]].  Rates maps a  *)
(* currency to its cached rates, [date, rate], in hundredths.  What may be *)
(* absent is a set of at most one element.                                 *)
(***************************************************************************)
EXTENDS Integers, Sequences, Functions, DueDates

Dated == [balance : Int, date : Int]
IsAccount(a) ==
    /\ a.anchor \subseteq Dated /\ \A k, l \in a.anchor : k = l
    /\ a.closings \in Seq(Dated)
    /\ a.txns \in Seq([date : Int, in : Int, out : Int])

Magnitude(n) == IF n < 0 THEN -n ELSE n

----------------------------------------------------------------------------
(* Known balances and the reference chosen among them.                     *)

Known(balance, date, source, order) ==
    [balance |-> balance, date |-> date, source |-> source, order |-> order]
Anchors(a) == {Known(k.balance, k.date, "anchor", 0) : k \in a.anchor}
Printed(a) == {Known(a.closings[i].balance, a.closings[i].date, "statement_closing", i) : i \in DOMAIN a.closings}
KnownBalances(a) == Anchors(a) \cup Printed(a)

PreferredOver(k, other) == IF k.source # other.source THEN k.source = "anchor" ELSE k.order > other.order

DeduplicateByDate(known) ==
    {k \in known : \A other \in known \ {k} : other.date = k.date => PreferredOver(k, other)}

Rank(k) == IF k.source = "anchor" THEN 0 ELSE 1
Nearer(k, other, target) ==
    LET d == Magnitude(k.date - target)
        e == Magnitude(other.date - target)
    IN  \/ d < e
        \/ d = e /\ Rank(k) < Rank(other)
        \/ d = e /\ Rank(k) = Rank(other) /\ k.date < other.date
ChooseReference(known, target) ==
    LET candidates == DeduplicateByDate(known)
    IN  CHOOSE k \in candidates : \A other \in candidates \ {k} : Nearer(k, other, target)

----------------------------------------------------------------------------
(* Net flow: of an interval by the database, or from running totals.       *)

Flows(a) == [i \in DOMAIN a.txns |-> a.txns[i].in - a.txns[i].out]
NetFlowBetween(a, after, through) ==
    SumFunctionOnSet(Flows(a), {i \in DOMAIN a.txns : after < a.txns[i].date /\ a.txns[i].date <= through})

DailyTotals(a) ==
    [day \in {a.txns[i].date : i \in DOMAIN a.txns} |->
        SumFunctionOnSet(Flows(a), {i \in DOMAIN a.txns : a.txns[i].date = day})]

\* Mutant: the running total leaves out the day itself.
TotalBefore(totals, day) == SumFunctionOnSet(totals, {d \in DOMAIN totals : d < day})
TotalThrough(totals, day) == SumFunctionOnSet(totals, {d \in DOMAIN totals : d <= day})

IndexedNet(totals, after, through) ==
    IF through <= after THEN 0 ELSE TotalThrough(totals, through) - TotalThrough(totals, after)

\* The known date and the target, the earlier first: the flow between them is
\* added going forwards, and taken off again going backwards.
FlowInterval(k, target) == IF target >= k.date THEN <<k.date, target>> ELSE <<target, k.date>>
BalanceFromKnown(k, target, net) == IF target >= k.date THEN k.balance + net ELSE k.balance - net

\* By the database, or by the running totals.
NetByQuery(a, interval) == NetFlowBetween(a, interval[1], interval[2])
NetByIndex(a, interval) == IndexedNet(DailyTotals(a), interval[1], interval[2])

BalanceOnDate(a, target) ==
    LET k == ChooseReference(KnownBalances(a), target)
    IN  BalanceFromKnown(k, target, NetByQuery(a, FlowInterval(k, target)))
PlottedBalance(a, target) ==
    LET k == ChooseReference(KnownBalances(a), target)
    IN  BalanceFromKnown(k, target, NetByIndex(a, FlowInterval(k, target)))

----------------------------------------------------------------------------
(* Conversion to SGD: the nearest cached rate not after the day.           *)

HalfUp(n, d) == IF n >= 0 THEN (2 * n + d) \div (2 * d) ELSE -((d - 2 * n) \div (2 * d))
ToSGD(amount, rate) == HalfUp(amount * rate, 100)

NearestEarlierRate(rates, day) ==
    {r \in rates : r.date <= day /\ \A other \in rates : other.date <= day => other.date <= r.date}

Convert(currency, native, day, rates) ==
    IF currency = "SGD" THEN [sgd |-> {native}, approximate |-> FALSE]
    ELSE LET found == NearestEarlierRate(rates[currency], day)
         IN  [sgd |-> {ToSGD(native, r.rate) : r \in found}, approximate |-> \E r \in found : r.date # day]

----------------------------------------------------------------------------
(* The lookup of one day and the series of many.                           *)

DepositAccounts(accounts) == {a \in accounts : a.type = "deposit"}
WithAnchor(accounts) == {a \in DepositAccounts(accounts) : a.anchor # {}}
Single(S) == CHOOSE x \in S : TRUE

Lookup(a, day, rates) ==
    IF a.anchor = {} THEN [status |-> "anchor_required", native |-> {}, sgd |-> {}, approximate |-> FALSE]
    ELSE LET native == BalanceOnDate(a, day)
             converted == Convert(a.currency, native, day, rates)
         IN  [status |-> IF converted.sgd = {} THEN "fx_unavailable" ELSE "ok",
              native |-> {native}, sgd |-> converted.sgd, approximate |-> converted.approximate]

GetBalances(accounts, day, rates) ==
    LET row == [a \in DepositAccounts(accounts) |-> Lookup(a, day, rates)]
        included == {a \in DOMAIN row : row[a].status = "ok"}
    IN  [accounts |-> row,
         total |-> IF included = {} THEN {} ELSE {SumFunction([a \in included |-> Single(row[a].sgd)])},
         excluded |-> [a \in DOMAIN row \ included |-> row[a].status]]

SeriesPoint(accounts, day, rates) ==
    LET Point(a) == Convert(a.currency, PlottedBalance(a, day), day, rates)
        point == [a \in WithAnchor(accounts) |-> Point(a)]
        included == {a \in DOMAIN point : point[a].sgd # {}}
    IN  [perAccount |-> [a \in DOMAIN point |-> point[a].sgd],
         combined |-> IF included = {} THEN {} ELSE {SumFunction([a \in included |-> Single(point[a].sgd)])},
         approximate |-> {a \in included : point[a].approximate}]

----------------------------------------------------------------------------
(* Which days a lookup and a series are about (calendar dates).            *)

Earliest == DateOf(2000, 1, 1)
MonthEnd(date) == DateOf(date.y, date.m, DaysInMonth(date.y, date.m))
AddMonths(date, n) == LET ym == MonthsLater(date.y, date.m, n) IN InstanceIn(ym.y, ym.m, date.d)

\* The day a month stands for, none when it is still to come.
ResolveMonth(y, m, today) ==
    IF y * 12 + m > today.y * 12 + today.m THEN {}
    ELSE IF y = today.y /\ m = today.m THEN {today} ELSE {MonthEnd(DateOf(y, m, 1))}
ValidLookup(target, today) == NotAfter(target, today) /\ NotAfter(Earliest, target)

DefaultRange(today) == <<AddMonths(today, -12), today>>
Granularity(start, end, requested) ==
    IF requested = "auto" THEN IF Ordinal(end) - Ordinal(start) <= 92 THEN "day" ELSE "month" ELSE requested

\* Mutant: the cursor steps from month to month without returning to its end.
MonthCursorDrifting(start, k) ==
    LET cursor[i \in 0 .. k] == IF i = 0 THEN MonthEnd(start) ELSE AddMonths(cursor[i - 1], 1) IN cursor[k]
MonthCursor(start, k) ==
    LET cursor[i \in 0 .. k] == IF i = 0 THEN MonthEnd(start) ELSE MonthEnd(AddMonths(cursor[i - 1], 1))
    IN  cursor[k]
MonthsSpanned(start, end) == (end.y - start.y) * 12 + end.m - start.m
SeriesMonths(start, end) ==
    {c \in {MonthCursor(start, k) : k \in 0 .. MonthsSpanned(start, end)} : NotAfter(c, end)} \cup {end}
PointCount(start, end, granularity) ==
    IF granularity = "day" THEN Ordinal(end) - Ordinal(start) + 1 ELSE MonthsSpanned(start, end) + 1
ValidRange(start, end, today, granularity) ==
    /\ NotAfter(start, end) /\ NotAfter(end, today) /\ NotAfter(Earliest, start)
    /\ PointCount(start, end, granularity) <= 1500

----------------------------------------------------------------------------
(* Discrepancies: printed balances against the anchor alone, and against   *)
(* one another.  The tolerance is applied by the callers below.            *)

Difference(a, closing) ==
    LET anchor == Single(Anchors(a))
        net == NetByIndex(a, FlowInterval(anchor, closing.date))
    IN  closing.balance - BalanceFromKnown(anchor, closing.date, net)

\* Mutant: computed from the nearest known balance, as the lookup does.
DifferencesFromNearest(a, tolerance) ==
    {c \in DeduplicateByDate(Printed(a)) :
        Magnitude(c.balance - PlottedBalance(a, c.date)) > tolerance}
StatementDifferences(a, tolerance) ==
    {c \in DeduplicateByDate(Printed(a)) : Magnitude(Difference(a, c)) > tolerance}

Consecutive(closings) ==
    {p \in closings \X closings : p[1].date < p[2].date
                                  /\ ~\E c \in closings : p[1].date < c.date /\ c.date < p[2].date}
Gap(a, earlier, later) ==
    later.balance - earlier.balance - IndexedNet(DailyTotals(a), earlier.date, later.date)
PeriodGaps(a, tolerance) ==
    {p \in Consecutive(DeduplicateByDate(Printed(a))) : Magnitude(Gap(a, p[1], p[2])) > tolerance}

----------------------------------------------------------------------------
(* What the views promise.                                                 *)

\* A point of the series is what the lookup returns for its day.
PointIsLookup(accounts, day, rates) ==
    LET point == SeriesPoint(accounts, day, rates)
        lookup == GetBalances(accounts, day, rates)
    IN  /\ point.combined = lookup.total
        /\ \A a \in WithAnchor(accounts) : /\ point.perAccount[a] = lookup.accounts[a].sgd
                                           /\ a \in point.approximate <=> lookup.accounts[a].approximate

\* The points of a monthly series are the month ends of the range and its end;
\* each can be looked up, as the day some month stands for, and a range left to
\* its default is plotted.
PointsAreMonthEnds(start, end) ==
    LET months == {DateOf(start.y + k \div 12, (k % 12) + 1, 1) : k \in 0 .. start.m + MonthsSpanned(start, end)}
        default == DefaultRange(end)
    IN  /\ SeriesMonths(start, end) =
              {end} \cup {d \in {MonthEnd(m) : m \in months} : NotAfter(start, d) /\ NotAfter(d, end)}
        /\ \A d \in SeriesMonths(start, end) : ValidLookup(d, end) /\ ResolveMonth(d.y, d.m, end) = {d}
        /\ NotAfter(AddMonths(Earliest, 12), end) =>
              ValidRange(default[1], default[2], end, Granularity(default[1], default[2], "auto"))

\* An account without a difference has, on every day, the balance its anchor
\* alone gives, to within the tolerance; the statements of one without a gap of
\* any size, as listed at tolerance 0, all differ from the anchor by one amount.
DiscrepanciesExplainBalances(a, days, tolerance) ==
    LET anchor == Single(Anchors(a))
        closings == DeduplicateByDate(Printed(a))
        FromAnchor(day) == BalanceFromKnown(anchor, day, NetByQuery(a, FlowInterval(anchor, day)))
    IN  /\ StatementDifferences(a, tolerance) = {} =>
              \A day \in days : Magnitude(BalanceOnDate(a, day) - FromAnchor(day)) <= tolerance
        /\ PeriodGaps(a, 0) = {} => \A c, e \in closings : Difference(a, c) = Difference(a, e)

============================================================================
