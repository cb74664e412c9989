----------------------------- MODULE MCAccounts -----------------------------
(* An instance of Accounts for TLC.                                        *)
EXTENDS Accounts, TLC

CONSTANTS a1, a2, k1, k2, s1, s2, b1, q1, q2

TheIds == [a \in Account |-> IF a = a1 THEN 1 ELSE 2]
TheCurrencies == [k \in Key |-> "SGD"]

\* s2 prints both accounts, the second one first.
TheSections == [s \in Statement |-> IF s = s1 THEN <<k1>> ELSE <<k2, k1>>]

\* What k1 is can be read only on s2.
TheTypes == [s \in Statement |-> [k \in Key |-> IF s = s1 THEN "unknown" ELSE "deposit"]]

RequestSymmetry == Permutations(Request)
============================================================================
