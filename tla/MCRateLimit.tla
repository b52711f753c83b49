---------------------------- MODULE MCRateLimit ----------------------------
(* Four requests of one key, so that its bucket runs dry, and one of       *)
(* another key, whose call makes the store forget.                         *)
EXTENDS RateLimit, TLC

CONSTANTS k1, k2, r1, r2, r3, r4, r5

MCKeyOf == [r \in Request |-> IF r = r5 THEN k2 ELSE k1]

\* The requests of one key are alike.
Symmetric == Permutations({r1, r2, r3, r4})
=============================================================================
