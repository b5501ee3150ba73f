----------------------------- MODULE MCLimiter ------------------------------
(***************************************************************************)
(* A small instance of Limiter for TLC.                                    *)
(***************************************************************************)
EXTENDS Limiter, TLC

CONSTANTS r1, r2, r3, o1, o2, i1, i2

MCSymmetry == Permutations({r1, r2, r3}) \cup Permutations({i1, i2})
                 \cup Permutations({o1, o2})

=============================================================================
