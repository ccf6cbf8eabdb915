------------------------- MODULE MCLoginRateLimiter -------------------------
(***************************************************************************)
(* An instance of LoginRateLimiter for TLC: fewer entries than keys, so    *)
(* that buckets are displaced inside their windows.                        *)
(***************************************************************************)
EXTENDS LoginRateLimiter, TLC

CONSTANTS i1, i2, a1, a2

Symmetry == Permutations({i1, i2}) \union Permutations({a1, a2})
=============================================================================
