--------------------------- MODULE MCSupplyLedger ---------------------------
(***************************************************************************)
(* A small instance of the supply ledger for TLC.                          *)
(***************************************************************************)
EXTENDS SupplyLedger, TLC

CONSTANTS w1, w2, o1, o2, a1, a2, e1, built

MCWriters == {w1, w2}
MCOps == {o1, o2}
MCAssets == {a1, a2}
MCEvidence == {e1}

Symmetry ==
  Permutations(MCWriters) \cup Permutations(MCOps) \cup Permutations(MCAssets)
=============================================================================
