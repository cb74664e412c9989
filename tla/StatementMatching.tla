-------------------------- MODULE StatementMatching --------------------------
(***************************************************************************)
(* The rule that judges whether two statements are probably one            *)
(* (duplicates/matching.py).  A transaction is its group (date, amount,    *)
(* direction, currency) and its normalized description; how similar two    *)
(* descriptions are is a table.  Dates are day numbers.                    *)
(***************************************************************************)
EXTENDS Integers, FiniteSets, Sequences

CONSTANTS
    Text,    \* normalized descriptions
    Score,   \* Score[x][y]: similarity of x to y, in percent
    Floor    \* similarity from which two descriptions match, in percent

SideIndex(a) == DOMAIN a.txns
GroupOf(t) == [date |-> t.date, amount |-> t.amount]
GroupsOf(a) == {GroupOf(a.txns[i]) : i \in SideIndex(a)}
InGroup(a, g) == {i \in SideIndex(a) : GroupOf(a.txns[i]) = g}
TextAt(a, i) == a.txns[i].text

Least(S) == CHOOSE i \in S : \A j \in S : i <= j

----------------------------------------------------------------------------
(* Stage 1: equal descriptions are paired in order.                        *)

RECURSIVE PairEqual(_, _, _, _)
PairEqual(a, b, left, right) ==
    IF left = {} THEN {}
    ELSE LET i == Least(left)
             alike == {j \in right : TextAt(b, j) = TextAt(a, i)}
         IN  IF alike = {} THEN PairEqual(a, b, left \ {i}, right)
             ELSE {<<i, Least(alike)>>} \cup PairEqual(a, b, left \ {i}, right \ {Least(alike)})

Lefts(pairs) == {p[1] : p \in pairs}
Rights(pairs) == {p[2] : p \in pairs}

----------------------------------------------------------------------------
(* Stage 2: the rest by augmenting paths over the edges at or above the    *)
(* floor, the most similar first.                                          *)

Similar(x, y) == Score[x][y] >= Floor

\* The neighbours of i, best first, ties by position.
RECURSIVE InOrder(_, _, _, _)
InOrder(a, b, i, right) ==
    LET near == {j \in right : Similar(TextAt(a, i), TextAt(b, j))}
        ScoreOf(j) == Score[TextAt(a, i)][TextAt(b, j)]
    IN  IF near = {} THEN <<>>
        ELSE LET best == Least({j \in near : \A k \in near : ScoreOf(k) <= ScoreOf(j)})
             IN  <<best>> \o InOrder(a, b, i, near \ {best})

\* One search from left: the matching (right index -> left index, as pairs),
\* the rights seen, and whether an augmenting path was found.
RECURSIVE Augment(_, _, _, _)
Augment(adjacent, left, order, search) ==
    IF order = <<>> \/ search.found THEN search
    ELSE LET j == Head(order)
             owner == {p[1] : p \in {x \in search.match : x[2] = j}}
             seen == [search EXCEPT !.seen = @ \cup {j}]
             moved == IF owner = {} THEN [seen EXCEPT !.found = TRUE]
                      ELSE LET o == CHOOSE x \in owner : TRUE IN Augment(adjacent, o, adjacent[o], seen)
         IN  IF j \in search.seen THEN Augment(adjacent, left, Tail(order), search)
             ELSE IF moved.found
                  THEN [moved EXCEPT !.match = {p \in @ : p[2] # j} \cup {<<left, j>>}]
                  ELSE Augment(adjacent, left, Tail(order), moved)

RECURSIVE MaximumMatching(_, _, _)
MaximumMatching(adjacent, todo, match) ==
    IF todo = {} THEN match
    ELSE LET i == Least(todo)
             search == Augment(adjacent, i, adjacent[i], [match |-> match, seen |-> {}, found |-> FALSE])
         IN  MaximumMatching(adjacent, todo \ {i}, search.match)

\* Mutant: each in turn takes the most similar one that is free.
RECURSIVE GreedyPairs(_, _, _)
GreedyPairs(adjacent, todo, match) ==
    IF todo = {} THEN match
    ELSE LET i == Least(todo)
             free == SelectSeq(adjacent[i], LAMBDA j : j \notin Rights(match))
         IN  GreedyPairs(adjacent, todo \ {i}, IF free = <<>> THEN match ELSE match \cup {<<i, Head(free)>>})
Greedy(a, b, left, right) == GreedyPairs([i \in left |-> InOrder(a, b, i, right)], left, {})
PairSimilar(a, b, left, right) == MaximumMatching([i \in left |-> InOrder(a, b, i, right)], left, {})

PairGroup(a, b, g) ==
    LET equal == PairEqual(a, b, InGroup(a, g), InGroup(b, g))
    IN  equal \cup PairSimilar(a, b, InGroup(a, g) \ Lefts(equal), InGroup(b, g) \ Rights(equal))

MatchTransactions(a, b) == UNION {PairGroup(a, b, g) : g \in GroupsOf(a) \cap GroupsOf(b)}

----------------------------------------------------------------------------
(* The verdict.  Ratios are in percent.                                    *)

Size(a) == Len(a.txns)
Smaller(a, b) == IF Size(a) <= Size(b) THEN Size(a) ELSE Size(b)
Dates(a) == {a.txns[i].date : i \in SideIndex(a)}

PeriodsOverlap(a, b) ==
    /\ Dates(a) # {} /\ Dates(b) # {}
    /\ \E d \in Dates(a), e \in Dates(b) : d <= e
    /\ \E d \in Dates(a), e \in Dates(b) : e <= d

MeetsRatio(matched, a, b, ratio) == Smaller(a, b) > 0 /\ 100 * matched >= ratio * Smaller(a, b)

\* accounts: the statement's sections that name one, [id, closing]; of two with
\* one name the later counts when the statement is compared to.
Identifiers(a) == {a.accounts[k].id : k \in DOMAIN a.accounts}
AccountRelation(a, b) ==
    IF Identifiers(a) = {} \/ Identifiers(b) = {} THEN "not_applicable"
    ELSE IF Identifiers(a) \cap Identifiers(b) # {} THEN "shared" ELSE "conflict"

Overwritten(b, k) == \E n \in DOMAIN b.accounts : n > k /\ b.accounts[n].id = b.accounts[k].id
ClosingBalancesAgree(a, b) ==
    \E j \in DOMAIN a.accounts, k \in DOMAIN b.accounts :
        a.accounts[j] = b.accounts[k] /\ a.accounts[j].closing # "none" /\ ~Overwritten(b, k)

IsDuplicate(a, b, settings) ==
    /\ a.bank = b.bank
    /\ PeriodsOverlap(a, b)
    /\ AccountRelation(a, b) # "conflict"
    /\ MeetsRatio(Cardinality(MatchTransactions(a, b)), a, b, settings.ratio)
    /\ Smaller(a, b) >= settings.minimum \/ (AccountRelation(a, b) = "shared" /\ ClosingBalancesAgree(a, b))

\* The held statement an extracted file repeats: the most matches, then the
\* earliest ingested.
ProbableDuplicateOf(incoming, held, settings) ==
    LET found == {h \in held : h.hash # incoming.hash /\ IsDuplicate(h, incoming, settings)}
        Matches(h) == Cardinality(MatchTransactions(h, incoming))
    IN  {h \in found : \A o \in found :
            Matches(o) < Matches(h) \/ (Matches(o) = Matches(h) /\ h.ingestedAt <= o.ingestedAt)}

----------------------------------------------------------------------------
(* Reference definitions and what the rule promises.                       *)

OneToOne(pairs) == \A p, q \in pairs : p[1] = q[1] <=> p[2] = q[2]
Edges(a, b) == {p \in SideIndex(a) \X SideIndex(b) :
                   /\ GroupOf(a.txns[p[1]]) = GroupOf(b.txns[p[2]])
                   /\ TextAt(a, p[1]) = TextAt(b, p[2]) \/ Similar(TextAt(a, p[1]), TextAt(b, p[2]))}
EqualPairs(a, b, pairs) == {p \in pairs : TextAt(a, p[1]) = TextAt(b, p[2])}

\* No one-to-one pairing of what stage 1 leaves has more pairs.
RemainderIsMaximum(a, b) ==
    LET pairs == MatchTransactions(a, b)
        equal == EqualPairs(a, b, pairs)
        rest == {p \in Edges(a, b) : p[1] \notin Lefts(equal) /\ p[2] \notin Rights(equal)}
    IN  /\ pairs \subseteq Edges(a, b) /\ OneToOne(pairs)
        /\ \A other \in SUBSET rest : OneToOne(other) => Cardinality(other) <= Cardinality(pairs \ equal)

\* No one-to-one pairing at all has more pairs.
CountIsMaximum(a, b) ==
    \A other \in SUBSET Edges(a, b) : OneToOne(other) => Cardinality(other) <= Cardinality(MatchTransactions(a, b))

\* A second copy of a held statement is found, if it is not too small to tell.
CopyIsFound(a, held, settings) ==
    Size(a) >= settings.minimum => ProbableDuplicateOf([a EXCEPT !.hash = "copy"], held, settings) # {}

NamesOnce(a) == \A k \in DOMAIN a.accounts : ~Overwritten(a, k)
SymmetricScores == \A x, y \in Text : Score[x][y] = Score[y][x]

=============================================================================
