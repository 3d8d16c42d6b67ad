-------------------------- MODULE MCCrossSettlement --------------------------
(***************************************************************************)
(* A small instance of the saga for TLC: two workers; two contents sent    *)
(* under one settlement id, one of which expires before the other.         *)
(***************************************************************************)
EXTENDS CrossSettlement, TLC

CONSTANTS w1, w2, r1, r2

MCWorkers == {w1, w2}
MCRequests == {r1, r2}
MCExpiresAt == r1 :> 1 @@ r2 :> 2

Symmetry == Permutations(MCWorkers)
=============================================================================
