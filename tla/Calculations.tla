---------------------------- MODULE Calculations ----------------------------
(***************************************************************************)
(* The pure calculations of the two services, each asked for one input at  *)
(* a time: a step is one call, and the state is what was asked.            *)
(***************************************************************************)
EXTENDS Integers, Sequences, FiniteSets, TLC, DueDates, Balances, Extraction, Corrections

CONSTANTS
    DueInputs,       \* [schedule, paid, today]: a schedule and two days
    BookInputs,      \* [accounts, days, rates, tolerance]
    SeriesInputs,    \* [start, end]: the range of a monthly series
    ReadingInputs,   \* [printed, statementDate, reading, today]
    PlacingInputs    \* [rows, captured]: one date, amount and direction

\* A payment's schedule has been validated, and a date is one.
ASSUME InputsAssumption ==
    DueInputs \subseteq [schedule : Schedule, paid : CalendarDate, today : CalendarDate]

\* The rows have the types of their columns, the tolerance is no less than zero,
\* and the range of a series has been validated.
ASSUME BooksAssumption ==
    \A b \in BookInputs : /\ \A a \in b.accounts : IsAccount(a)
                         /\ b.days \subseteq Int /\ b.tolerance \in Nat
ASSUME SeriesAssumption ==
    \A r \in SeriesInputs : /\ r.start \in CalendarDate /\ r.end \in CalendarDate
                           /\ NotAfter(Earliest, r.start) /\ NotAfter(r.start, r.end)

\* A statement has a section and a date, and the model read any of its dates that
\* exist both ways month first, or all of them.
ASSUME ReadingAssumption ==
    \A r \in ReadingInputs : /\ r.printed \in Seq(Seq(Line)) /\ r.printed # <<>>
                            /\ r.statementDate \in CalendarDate
                            /\ MayBeReadAs(r.printed, r.statementDate, r.reading)

\* The rows and corrections of one date, amount and direction, in order; a
\* category stands for its identifier.
ASSUME PlacingAssumption ==
    \A p \in PlacingInputs : /\ p.rows \in Seq([text : STRING, category : Nat, manual : BOOLEAN])
                             /\ p.captured \in Seq([text : STRING, category : Nat, carried : BOOLEAN])

VARIABLE asked
vars == <<asked>>

Init == asked = [kind |-> "none"]

Ask(kind, inputs) ==
    /\ asked.kind = "none"
    /\ \E i \in inputs : asked' = [kind |-> kind, of |-> i]

\* One action for each calculation's callers.
AskDueDate == Ask("due", DueInputs)
AskBalances == Ask("books", BookInputs)
AskSeriesDates == Ask("series", SeriesInputs)
AskExtraction == Ask("reading", ReadingInputs)
AskPlacing == Ask("placing", PlacingInputs)

Next == AskDueDate \/ AskBalances \/ AskSeriesDates \/ AskExtraction \/ AskPlacing
Spec == Init /\ [][Next]_vars

----------------------------------------------------------------------------
(* Properties *)

\* Around the end of a month or a year, and with a due day the month lacks, the
\* worker's due date is the nearest of all, the API's is the last one passed,
\* and a payment matched by the one is not overdue for the other (cycle.py of
\* both services, recurring_payments/service.py:88).
DueDatesAgree ==
    asked.kind = "due" =>
        /\ NearestOfAll(asked.of.schedule, asked.of.paid)
        /\ LatestOfAll(asked.of.schedule, asked.of.today)
        /\ CopiesAgree(asked.of.schedule, asked.of.paid, asked.of.today)

\* A point of the series is exactly what the lookup returns for that day, with
\* the combined total and the accounts left out of it (balances/service.py:189),
\* and a monthly series plots every month end of its range and the last day.
SeriesIsLookup ==
    /\ asked.kind = "books" =>
          \A day \in asked.of.days : PointIsLookup(asked.of.accounts, day, asked.of.rates)
    /\ asked.kind = "series" => PointsAreMonthEnds(asked.of.start, asked.of.end)

\* What the discrepancy view does not list is not there: without a difference
\* the nearest known balance and the anchor alone give the same balance on any
\* day, to within the tolerance; without a gap of any size (what is listed at
\* tolerance 0, the default) every statement differs from the anchor by the
\* same amount (balances/calculation.py:262).
DiscrepanciesExplain ==
    asked.kind = "books" =>
        \A a \in WithAnchor(asked.of.accounts) :
            DiscrepanciesExplainBalances(a, asked.of.days, asked.of.tolerance)

\* Dates the model read month first are committed as printed: all dates of a
\* statement it misread wholly; of one it misread in part, the payments' and
\* those of every section from the first purchase on whose date can be told,
\* because it exists one way only or is the section's first and was read right.
\* A line is left out as a future one only when it was printed so
\* (extraction/service.py:226).  What stands before that purchase is not
\* promised: a first date misread is taken as it was read (line 293).
DatesRecovered ==
    asked.kind = "reading" =>
        RecoversDates(asked.of.reading, asked.of.printed, asked.of.statementDate, asked.of.today)

\* Manual corrections return to as many rows as their descriptions allow, the
\* statement's own before those carried over from a skipped copy, never over a
\* different correction of another description, and finishing twice is
\* finishing once (backfill/corrections.py:126).
CorrectionsReturn ==
    asked.kind = "placing" =>
        /\ CarefullyPlaced(asked.of.rows, asked.of.captured)
        /\ AppliedOnce(asked.of.rows, asked.of.captured)

============================================================================
