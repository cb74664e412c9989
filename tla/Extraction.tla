----------------------------- MODULE Extraction -----------------------------
(***************************************************************************)
(* What the worker does with the model's reading of a statement before it  *)
(* is committed (extraction/service.py): the repair of dates read month    *)
(* first, the lines that are no transactions, closing balances, and the    *)
(* grounds of refusal.                                                     *)
(*                                                                         *)
(* A line is [date, kind]: a purchase, a payment (or another line not in   *)
(* date order), or a balance brought forward.  A reading is [sections:     *)
(* sequence of [lines, currency, closing, closingDate], statementDate,     *)
(* bank, currency, confidence].  What may be absent is a set of at most    *)
(* one element.  Lines and sections that are kept keep their positions.    *)
(***************************************************************************)
EXTENDS Integers, Sequences, Functions, DueDates

Line == [date : CalendarDate, kind : {"purchase", "payment", "balance"}]

MaxGap == 45   \* days from the last transaction to the statement's date

IsDate(d) == d.m \in 1 .. 12 /\ d.d \in 1 .. DaysInMonth(d.y, d.m)
SwapString(d) == DateOf(d.y, d.d, d.m)

LinesOf(sections) == UNION {{sections[k].lines[i] : i \in DOMAIN sections[k].lines} : k \in DOMAIN sections}
FirstOf(dates) == {d \in dates : \A e \in dates : NotAfter(d, e)}
LastOf(dates) == {d \in dates : \A e \in dates : NotAfter(e, d)}

----------------------------------------------------------------------------
(* The whole document read month first.                                    *)

NeedsSwap(reading) == \E l \in LinesOf(reading.sections) : l.date.m > 12 /\ l.date.d \in 1 .. 12

SwapSection(s) == [s EXCEPT !.lines = [i \in DOMAIN s.lines |-> [s.lines[i] EXCEPT !.date = SwapString(@)]],
                            !.closingDate = {SwapString(d) : d \in s.closingDate}]
SwapAll(reading) == [reading EXCEPT !.sections = [k \in DOMAIN reading.sections |-> SwapSection(reading.sections[k])]]

\* The schema: a transaction's date and the statement's must exist, a closing
\* date that does not is absent.
MeetsSchema(reading) == /\ \A l \in LinesOf(reading.sections) : IsDate(l.date)
                        /\ \A d \in reading.statementDate : IsDate(d)
Validated(reading) ==
    [reading EXCEPT !.sections =
        [k \in DOMAIN reading.sections |->
            [reading.sections[k] EXCEPT !.closingDate = {d \in @ : IsDate(d)},
                                        !.currency = IF @ = {} THEN reading.currency ELSE @]]]

----------------------------------------------------------------------------
(* Single dates read month first.                                          *)

Swapped(d) == IF d.d > 12 \/ d.d = d.m THEN {} ELSE {SwapString(d)}

\* The latest date that can be read one way only.
TrustedMax(lines) == LastOf({l.date : l \in {x \in lines : x.kind # "payment" /\ x.date.d > 12}})

InWindowAfter(d, trusted) ==
    \A t \in trusted : NotAfter(t, d) /\ Ordinal(d) <= Ordinal(t) + MaxGap
ResolveStatementDate(raw, trusted) ==
    IF trusted = {} THEN {}
    ELSE FirstOf({d \in raw \cup UNION {Swapped(r) : r \in raw} : InWindowAfter(d, trusted)})

\* Mutant: the reading nearest to the last date, before or after it.
NearestReading(read, swapped, last) ==
    IF DaysBetween(swapped, last) < DaysBetween(read, last) THEN swapped ELSE read
\* The reading that moves the list forward least; when neither does, the nearer.
ChosenReading(read, swapped, last) ==
    LET forward == {d \in {read, swapped} : NotAfter(last, d)}
    IN  IF forward = {} THEN NearestReading(read, swapped, last)
        ELSE IF forward = {read, swapped} THEN NearestReading(read, swapped, last)
        ELSE CHOOSE d \in forward : TRUE

CorrectLine(acc, line, statementDate) ==
    LET swapped == Swapped(line.date)
        Put(d, last) == [lines |-> Append(acc.lines, [line EXCEPT !.date = d]), last |-> last]
    IN  IF line.kind = "payment"
        THEN Put(IF swapped # {} /\ swapped = statementDate THEN CHOOSE d \in swapped : TRUE ELSE line.date, acc.last)
        ELSE IF swapped = {} \/ acc.last = {} THEN Put(line.date, {line.date})
        ELSE LET d == ChosenReading(line.date, CHOOSE s \in swapped : TRUE, CHOOSE l \in acc.last : TRUE)
             IN  Put(d, {d})

CorrectDates(lines, statementDate) ==
    LET resolved == ResolveStatementDate(statementDate, TrustedMax({lines[i] : i \in DOMAIN lines}))
        corrected[i \in 0 .. Len(lines)] ==
            IF i = 0 THEN [lines |-> <<>>, last |-> {}] ELSE CorrectLine(corrected[i - 1], lines[i], resolved)
    IN  corrected[Len(lines)].lines

----------------------------------------------------------------------------
(* What is kept, and whether the statement is.                             *)

KeptLines(lines, today) ==
    Restrict(lines, {i \in DOMAIN lines : lines[i].kind # "balance" /\ NotAfter(lines[i].date, today)})

\* A closing balance and its date stay or go together.
ValidateClosing(s, statementDate, documentMax) ==
    LET own == TrustedMax({s.lines[i] : i \in DOMAIN s.lines})
        resolved == ResolveStatementDate(s.closingDate, IF own # {} THEN own ELSE documentMax)
        date == IF s.closing = {} THEN {} ELSE IF resolved # {} THEN resolved ELSE statementDate
    IN  [s EXCEPT !.closing = IF date = {} THEN {} ELSE @, !.closingDate = date]

RankOf(confidence) == CASE confidence = "low" -> 0 [] confidence = "medium" -> 1 [] confidence = "high" -> 2

Prepared(reading, today) ==
    LET swap == NeedsSwap(reading)
        read == Validated(IF swap THEN SwapAll(reading) ELSE reading)
        statementDate == ResolveStatementDate(read.statementDate, TrustedMax(LinesOf(read.sections)))
        Corrected(s) == IF swap THEN s.lines ELSE CorrectDates(s.lines, statementDate)
        kept == [k \in DOMAIN read.sections |->
                    [read.sections[k] EXCEPT !.lines = KeptLines(Corrected(read.sections[k]), today)]]
        closed == [k \in DOMAIN kept |-> ValidateClosing(kept[k], statementDate, TrustedMax(LinesOf(kept)))]
    IN  Restrict(closed, {k \in DOMAIN closed : DOMAIN closed[k].lines # {} \/ closed[k].closing # {}})

Refusal(reading, sections, threshold) ==
    IF reading.bank = {} \/ (\E k \in DOMAIN sections : sections[k].currency = {})
       \/ (DOMAIN sections = {} /\ reading.currency = {})
    THEN "no bank or currency"
    ELSE IF LinesOf(sections) = {} THEN "no transactions"
    ELSE IF RankOf(reading.confidence) < RankOf(threshold) THEN "low confidence" ELSE "none"

ExtractStatement(reading, today, threshold) ==
    IF ~MeetsSchema(IF NeedsSwap(reading) THEN SwapAll(reading) ELSE reading)
    THEN [refusal |-> "schema", sections |-> <<>>]
    ELSE LET sections == Prepared(reading, today)
         IN  [refusal |-> Refusal(reading, sections, threshold), sections |-> sections]

----------------------------------------------------------------------------
(* What the repair promises, of a document as printed and a misreading.    *)

\* The last purchase before line i, none before the first.
Purchases(lines) == {i \in DOMAIN lines : lines[i].kind # "payment"}
PurchaseBefore(lines, i) ==
    {j \in Purchases(lines) : j < i /\ \A k \in Purchases(lines) : k < i => k <= j}

\* As printed, day first: purchases in date order and at most 26 days apart,
\* payments on the statement's date, which is at most 26 days after the last
\* purchase that can be read one way only.
InPrintOrder(lines, statementDate) ==
    LET Close(d, e) == NotAfter(d, e) /\ DaysBetween(d, e) <= 26
        trusted == TrustedMax({lines[i] : i \in DOMAIN lines})
    IN  /\ \A i \in Purchases(lines) : \A j \in PurchaseBefore(lines, i) : Close(lines[j].date, lines[i].date)
        /\ trusted # {} /\ \A t \in trusted : Close(t, statementDate)
        /\ \A i \in DOMAIN lines : lines[i].kind = "payment" => lines[i].date = statementDate

\* What the model may return: every date the wrong way round, or some of those
\* that exist both ways.
MisreadWholly(lines) == [i \in DOMAIN lines |-> [lines[i] EXCEPT !.date = SwapString(@)]]
MisreadAt(lines, wrong) ==
    [i \in DOMAIN lines |-> IF i \in wrong THEN [lines[i] EXCEPT !.date = SwapString(@)] ELSE lines[i]]
Misreadable(lines) == {i \in DOMAIN lines : Swapped(lines[i].date) # {}}
MayBeReadAs(printed, statementDate, reading) ==
    /\ DOMAIN reading = {"sections", "statementDate", "bank", "currency", "confidence"}
    /\ DOMAIN reading.sections = DOMAIN printed
    /\ \A k \in DOMAIN printed : DOMAIN reading.sections[k] = {"lines", "currency", "closing", "closingDate"}
    /\ reading.bank # {} /\ reading.currency # {} /\ reading.confidence \in {"medium", "high"}
    /\ \/ /\ \A k \in DOMAIN printed : reading.sections[k].lines = MisreadWholly(printed[k])
          /\ \A d \in reading.statementDate : IsDate(d)
       \/ /\ \A k \in DOMAIN printed : \E wrong \in SUBSET Misreadable(printed[k]) :
                reading.sections[k].lines = MisreadAt(printed[k], wrong)
          /\ reading.statementDate # {} /\ reading.statementDate \subseteq {statementDate} \cup Swapped(statementDate)

\* The purchases later dates are measured from: those that can be read one way
\* only, and the first when it was read as printed.
ReadFirmly(lines, read) ==
    {j \in Purchases(lines) : Swapped(lines[j].date) = {} \/ (PurchaseBefore(lines, j) = {} /\ read[j] = lines[j])}

\* The lines whose dates can be told: every line of a section misread wholly,
\* payments, and purchases from the first that was read firmly on.
Settled(lines, read) ==
    {i \in DOMAIN lines : \/ read = MisreadWholly(lines)
                          \/ lines[i].kind = "payment"
                          \/ \E j \in ReadFirmly(lines, read) : j <= i}

DatesAt(lines, positions) == [i \in DOMAIN lines \cap positions |-> lines[i].date]

\* The settled lines are kept or left out as the printed ones would be, under
\* their printed dates, section by section, whichever way they were misread.
RecoversDates(reading, printed, statementDate, today) ==
    LET settled == [k \in DOMAIN printed |-> Settled(printed[k], reading.sections[k].lines)]
        result == ExtractStatement(reading, today, "medium")
    IN  (\A k \in DOMAIN printed : /\ InPrintOrder(printed[k], statementDate)
                                   /\ DOMAIN KeptLines(printed[k], today) \cap settled[k] # {}) =>
            /\ result.refusal = "none"
            /\ DOMAIN result.sections = DOMAIN printed
            /\ \A k \in DOMAIN printed : DatesAt(result.sections[k].lines, settled[k])
                                            = DatesAt(KeptLines(printed[k], today), settled[k])

=============================================================================
