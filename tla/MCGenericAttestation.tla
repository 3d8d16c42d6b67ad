------------------------ MODULE MCGenericAttestation ------------------------
(***************************************************************************)
(* A small instance for TLC: two validators of which one is faulty, two    *)
(* requests at a time, an EVM network with and without the finalized tag,  *)
(* one that is disabled and a Canton network; blocks that say different    *)
(* things and one in which the transaction fails.                          *)
(***************************************************************************)
EXTENDS GenericAttestation, TLC

CONSTANTS b1, b2, b3, v1, v2, x, y, o1, o2

config(type, confirmations, tag) ==
  [ networkType |-> type, confirmations |-> confirmations,
    requireFinalizedTag |-> tag, enabled |-> TRUE ]

MCNetworks ==
  { config("EVM", 1, TRUE), config("EVM", 2, FALSE), config("CANTON", 1, TRUE),
    [config("EVM", 1, TRUE) EXCEPT !.enabled = FALSE] }

MCValidators == <<v1, v2>>
MCClaimsOf == b1 :> x @@ b2 :> y @@ b3 :> x

Symmetry == Permutations(Observers)
=============================================================================
