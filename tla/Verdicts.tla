------------------------------ MODULE Verdicts ------------------------------
(***************************************************************************)
(* Calculations with one more, the verdict of the duplicate rule on two    *)
(* statements.  Its matching is recursive, so it is kept apart from the    *)
(* calculations that are proved about.                                     *)
(***************************************************************************)
EXTENDS Calculations

CONSTANTS
    MatchInputs,     \* [a, b, score]: two statements and how similar texts are
    Text, Floor,     \* of the descriptions matched
    RatioPercent, MinimumTransactions   \* settings of the duplicate rule

Matching(Score) == INSTANCE StatementMatching

Rule == [ratio |-> RatioPercent, minimum |-> MinimumTransactions]

AskDuplicate == Ask("match", MatchInputs)

AskAny == Next \/ AskDuplicate
AskSpec == Init /\ [][AskAny]_vars

----------------------------------------------------------------------------
(* Properties *)

\* What is left when equal descriptions are paired is matched as completely as
\* possible, one to one, whatever the similarities, and a second copy of a
\* statement is always found among those held; when similarity is
\* symmetric and neither statement names an account twice, the verdict does not
\* depend on which statement comes first (duplicates/matching.py:202, 278).
MatchingIsComplete ==
    asked.kind = "match" =>
        LET a == asked.of.a
            b == asked.of.b
            Alike(x, y) == Matching(asked.of.score)!IsDuplicate(x, y, Rule)
            once == Matching(asked.of.score)!NamesOnce(a) /\ Matching(asked.of.score)!NamesOnce(b)
        IN  /\ Matching(asked.of.score)!RemainderIsMaximum(a, b)
            /\ Matching(asked.of.score)!CopyIsFound(a, {a, b}, Rule)
            /\ (Matching(asked.of.score)!SymmetricScores /\ once) => (Alike(a, b) <=> Alike(b, a))

\* The comment of the rule: pairing equal descriptions first cannot change the
\* count (duplicates/matching.py:12).
EqualFirstLosesNothing ==
    (asked.kind = "match" /\ Matching(asked.of.score)!SymmetricScores) =>
        Matching(asked.of.score)!CountIsMaximum(asked.of.a, asked.of.b)

============================================================================
