--------------------------- MODULE MCCalculations ---------------------------
(* Inputs of the calculations around their edges.                          *)
EXTENDS Verdicts

Day(y, m, d) == DateOf(y, m, d)

\* Every day of the winter of a leap year, with the due days its months lack.
Winter == {Day(2023, 12, d) : d \in 1 .. 31} \cup {Day(2024, 1, d) : d \in 1 .. 31}
          \cup {Day(2024, 2, d) : d \in 1 .. 29} \cup {Day(2024, 3, d) : d \in 1 .. 31}
Marked == {t \in Winter : t.d \in {1, 14, 16, 28, 29, 31}}
Schedules == {Monthly(d) : d \in {1, 15, 29, 30, 31}}
             \cup {Annual(md[1], md[2]) : md \in {<<1, 1>>, <<2, 29>>, <<12, 31>>}}
MCDueInputs == [schedule : Schedules, paid : Winter, today : Marked]

\* All graphs between three descriptions and three others; all directed graphs
\* of three; dates, amounts, accounts and closing balances of short statements.
TableOf(edges) == [x \in Text |-> [y \in Text |-> IF x = y THEN 100 ELSE IF <<x, y>> \in edges THEN 90 ELSE 0]]
Inverted(edges) == {<<e[2], e[1]>> : e \in edges}
Statement(name, txns, accounts) ==
    [bank |-> "b", hash |-> name, ingestedAt |-> 1, accounts |-> accounts, txns |-> txns]
Row(date, amount, text) == [date |-> date, amount |-> amount, text |-> text]
SameDay(texts) == [i \in DOMAIN texts |-> Row(1, 1, texts[i])]
Bipartite == {[a |-> Statement("a", SameDay(<<"p", "q", "r">>), <<>>), b |-> Statement("b", SameDay(<<"u", "v", "w">>), <<>>),
               score |-> TableOf(e \cup Inverted(e))] : e \in SUBSET ({"p", "q", "r"} \X {"u", "v", "w"})}
Pqr == {"p", "q", "r"}
Directed == {[a |-> Statement("a", SameDay(x), <<>>), b |-> Statement("b", SameDay(y), <<>>), score |-> TableOf(e)] :
                x \in {<<"p", "q">>, <<"q", "p", "r">>, <<"p", "p", "r">>},
                y \in {<<"p", "r">>, <<"r", "q">>, <<"q", "q", "p">>, <<"p", "q", "r">>},
                e \in SUBSET {t \in Pqr \X Pqr : t[1] # t[2]}}
Rows == {Row(d, n, "p") : d \in {1, 2}, n \in {1, 2}}
Fact(id, closing) == [id |-> id, closing |-> closing]
Facts == {Fact(1, "c"), Fact(1, "none"), Fact(2, "c")}
Short(name) == {Statement(name, txns, accounts) :
                  txns \in {<<x>> : x \in Rows} \cup {<<x, y>> : x \in Rows, y \in Rows},
                  accounts \in {<<>>} \cup {<<f>> : f \in Facts} \cup {<<Fact(1, "d"), Fact(1, "c")>>}}
MCMatchInputs == Bipartite \cup Directed \cup [a : Short("a"), b : Short("b"), score : {TableOf({})}]

\* One account in every constellation of a few days, beside an anchored one in
\* SGD, one without an anchor and a card.
UpToTwo(S) == {<<>>} \cup {<<x>> : x \in S} \cup {<<x, y>> : x \in S, y \in S}
Closings == [balance : {-1, 1}, date : {1, 3, 4}]
Txns == [date : {2, 3, 4}, in : {1}, out : {0}] \cup [date : {3}, in : {0}, out : {2}]
Account(id, type, currency, anchor, closings, txns) ==
    [id |-> id, type |-> type, currency |-> currency, anchor |-> anchor, closings |-> closings, txns |-> txns]
Others == {Account("s", "deposit", "SGD", {[balance |-> 5, date |-> 2]}, <<>>, <<[date |-> 3, in |-> 1, out |-> 0]>>),
           Account("n", "deposit", "USD", {}, <<[balance |-> 1, date |-> 2]>>, <<>>),
           Account("c", "credit_card", "SGD", {}, <<>>, <<>>)}
Rates == [USD |-> {[date |-> 2, rate |-> 135], [date |-> 4, rate |-> 150]}]
Books1 == {Account("x", "deposit", currency, {[balance |-> 0, date |-> d]}, cs, ts) :
             currency \in {"SGD", "USD"}, d \in {2, 3}, cs \in UpToTwo(Closings), ts \in UpToTwo(Txns)}
MCBookInputs == {[accounts |-> {x} \cup Others, days |-> 1 .. 5, rates |-> Rates, tolerance |-> t] :
                    x \in Books1, t \in {0, 1}}

MCSeriesInputs == {r \in [start : Marked, end : Marked \cup {Day(2024, 12, 30), Day(2025, 2, 28)}] :
                      NotAfter(r.start, r.end)}

\* Three lines around the turn of the year, days of the month that exist both
\* ways among them, read rightly, in part or wholly the wrong way round.
Pool == {Day(2025, 12, 9), Day(2025, 12, 20), Day(2026, 1, 2), Day(2026, 1, 5), Day(2026, 1, 13), Day(2026, 2, 1),
         Day(2026, 2, 3), Day(2026, 3, 2)}
Kinds == {<<"purchase", "purchase", "purchase">>, <<"payment", "purchase", "purchase">>,
          <<"purchase", "balance", "purchase">>, <<"purchase", "purchase", "payment">>}
Lines3 == {[i \in 1 .. 3 |-> [date |-> d[i], kind |-> k[i]]] : d \in Pool \X Pool \X Pool, k \in Kinds}
Documents == {p \in Lines3 \X Pool : InPrintOrder(p[1], p[2])}
Second == <<[date |-> Day(2026, 1, 13), kind |-> "purchase"], [date |-> Day(2026, 2, 3), kind |-> "purchase"]>>
SectionRead(lines, closingDate) == [lines |-> lines, currency |-> {}, closing |-> {1}, closingDate |-> {closingDate}]
ReadingOf(lines, second, statementDate, closingDate) ==
    [sections |-> <<SectionRead(lines, closingDate), SectionRead(second, closingDate)>>, statementDate |-> statementDate,
     bank |-> {"b"}, currency |-> {"SGD"}, confidence |-> "high"]
InputOf(p, reading, today) ==
    [printed |-> <<p[1], Second>>, statementDate |-> p[2], reading |-> reading, today |-> today]
Todays == {Day(2026, 1, 31), Day(2026, 4, 1)}
PartlyWrong(p) ==
    {InputOf(p, ReadingOf(MisreadAt(p[1], wrong), MisreadAt(Second, second), date, p[2]), today) :
        wrong \in SUBSET Misreadable(p[1]), second \in SUBSET Misreadable(Second),
        date \in {{p[2]}, IF Swapped(p[2]) = {} THEN {p[2]} ELSE Swapped(p[2])}, today \in Todays}
WhollyWrong(p) ==
    {InputOf(p, ReadingOf(MisreadWholly(p[1]), MisreadWholly(Second), date, SwapString(p[2])), today) :
        date \in {{p[2]}, {}}, today \in Todays}
MCReadingInputs == UNION {PartlyWrong(p) \cup WhollyWrong(p) : p \in Documents}

\* Up to two rows and three corrections of two descriptions.
RowsHeld == UpToTwo([text : {"t", "u"}, category : {0}, manual : {FALSE}] \cup [text : {"t", "u"}, category : {1, 2}, manual : {TRUE}])
Corrected == [text : {"t", "u"}, category : {1, 2}, carried : BOOLEAN]
MCPlacingInputs == [rows : RowsHeld, captured : UpToTwo(Corrected) \cup [1 .. 3 -> Corrected]]

============================================================================
