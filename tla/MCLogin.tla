------------------------------ MODULE MCLogin ------------------------------
(***************************************************************************)
(* An instance of Login for TLC.  Accounts, passwords, waiting logins and  *)
(* waiting setups are interchangeable.                                     *)
(***************************************************************************)
EXTENDS Login, TLC

CONSTANTS a1, a2, p1, p2, r1, r2, r3, q1, q2, s1

Symmetry == Permutations({a1, a2}) \union Permutations({p1, p2})
            \union Permutations({r1, r2, r3}) \union Permutations({q1, q2})
=============================================================================
