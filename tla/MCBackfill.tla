----------------------------- MODULE MCBackfill -----------------------------
(* Three copies, the third perhaps converted, the first perhaps without *)
(* its PDF, any of them corrected by the user.                     *)
EXTENDS Backfill

CONSTANTS h1, h2, h3

TheRanks == [h \in Hash |-> CASE h = h1 -> 1 [] h = h2 -> 2 [] OTHER -> 3]
AllPairs == {{h1, h2}, {h2, h3}, {h1, h3}}
Chain == {{h1, h2}, {h2, h3}}

Starts ==
    {s \in [drive : {Hash, Hash \ {h1}}, converted : {{}, {h3}}, corrected : {{}, {h2}, {h1, h2}, Hash},
            dismissed : {{}, {{h1, h2}}}] :
        Cardinality(s.dismissed) + Cardinality(s.converted) + Cardinality(Hash \ s.drive) < 3}
==============================================================================
