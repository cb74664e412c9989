----------------------------- MODULE Corrections -----------------------------
(***************************************************************************)
(* How the backfill's finish puts manual corrections back on the rows that *)
(* a statement has for one date, amount and direction: by description      *)
(* first, and a single one left over on the single row left over.          *)
(* Rows and corrections are in order, a row [text, category, manual], a    *)
(* correction [text, category, carried], and each is named by its position *)
(* there.  Descriptions are compared with their spaces collapsed, so a     *)
(* text stands for a collapsed description.                                *)
(***************************************************************************)
EXTENDS Naturals, FiniteSets

OfText(things, text) == {i \in DOMAIN things : things[i].text = text}

\* The kept copy's own corrections first; the sort is stable.
SortsBefore(c, d) == IF c.carried = d.carried THEN c.category < d.category ELSE d.carried
Precedes(captured, j, i) ==
    SortsBefore(captured[j], captured[i]) \/ (j < i /\ ~SortsBefore(captured[i], captured[j]))

\* Their places among the corrections, and the rows, of their text.
Turn(captured, c) ==
    1 + Cardinality({j \in OfText(captured, captured[c].text) : Precedes(captured, j, c)})
Position(rows, i) == 1 + Cardinality({j \in OfText(rows, rows[i].text) : j < i})

LeftRows(rows, captured) ==
    {i \in DOMAIN rows : Position(rows, i) > Cardinality(OfText(captured, rows[i].text))}
Unplaced(rows, captured) ==
    {c \in DOMAIN captured : Turn(captured, c) > Cardinality(OfText(rows, captured[c].text))}

Place(row, c) == [row EXCEPT !.category = c.category, !.manual = TRUE]

\* A carried correction that found no row gives way to an own one of its text.
GivesWay(captured, c) ==
    captured[c].carried /\ \E i \in OfText(captured, captured[c].text) : ~captured[i].carried
Unmatched(rows, captured) == {c \in Unplaced(rows, captured) : ~GivesWay(captured, c)}

\* Mutant of FallbackFits: whatever the row holds.
FallbackFitsAny(row, c) == row.category = row.category

\* Never over a different manual correction.
FallbackFits(row, c) == ~row.manual \/ row.category = c.category

\* The correction the strict fallback puts on row i, if any.
Fallback(rows, captured, i) ==
    {c \in Unmatched(rows, captured) : /\ LeftRows(rows, captured) = {i} /\ Unmatched(rows, captured) = {c}
                                       /\ FallbackFits(rows[i], captured[c])}
PlacedOn(rows, captured, i) ==
    {c \in OfText(captured, rows[i].text) : Turn(captured, c) = Position(rows, i)} \cup Fallback(rows, captured, i)

Applied(rows, captured) ==
    [i \in DOMAIN rows |->
        LET placed == PlacedOn(rows, captured, i)
        IN  IF placed = {} THEN rows[i] ELSE Place(rows[i], captured[CHOOSE c \in placed : TRUE])]

----------------------------------------------------------------------------
(* What it promises.                                                       *)

Least(m, n) == IF m < n THEN m ELSE n

\* The rows of a text that get one of some corrections.
Getting(rows, captured, text, some) == {i \in OfText(rows, text) : PlacedOn(rows, captured, i) \cap some # {}}

\* No row is asked to take two corrections; of a description's corrections as
\* many return as it has rows, and as many of the statement's own; and a row of
\* another description takes one only if it holds no different correction.
CarefullyPlaced(rows, captured) ==
    /\ \A i \in DOMAIN rows : \A c, d \in PlacedOn(rows, captured, i) : c = d
    /\ \A t \in {captured[c].text : c \in DOMAIN captured} :
          LET all == OfText(captured, t)
              own == {c \in all : ~captured[c].carried}
              room == Cardinality(OfText(rows, t))
          IN  /\ Cardinality(Getting(rows, captured, t, own)) = Least(Cardinality(own), room)
              /\ Cardinality(Getting(rows, captured, t, all)) = Least(Cardinality(all), room)
    /\ \A i \in DOMAIN rows :
          LET row == Applied(rows, captured)[i]
          IN  rows[i].manual /\ row.category # rows[i].category => OfText(captured, rows[i].text) # {}

\* Applying the same corrections again changes nothing.
AppliedOnce(rows, captured) ==
    Applied(Applied(rows, captured), captured) = Applied(rows, captured)
==============================================================================
