----------------------- MODULE MCStatementDuplicates -----------------------
(* Instances of StatementDuplicates for TLC.                               *)
EXTENDS StatementDuplicates, TLC

CONSTANTS h1, h2, h3

\* Two or three copies of one statement, found under the loose tolerance only.
AllPairs == {{h1, h2}, {h1, h3}, {h2, h3}}
TwoSettings == {"loose", "strict"}
TwoCopiesUnderLoose == [s \in TwoSettings |-> IF s = "loose" THEN {{h1, h2}} ELSE {}]
ThreeCopiesUnderLoose == [s \in TwoSettings |-> IF s = "loose" THEN AllPairs ELSE {}]

\* Copies are interchangeable: every pair of them matches, or none does.
HashSymmetry == Permutations(Hash)
============================================================================
