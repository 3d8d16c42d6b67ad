------------------------- MODULE MCNetworkContracts -------------------------
(***************************************************************************)
(* The contracts on the two networks, for TLC.  They share no state, and   *)
(* each side trusts nothing but signatures: TLC explores the behaviours of *)
(* one side while the other rests, and side never changes.                 *)
(*                                                                         *)
(* Two operations on one asset, amounts of one and two and three addresses *)
(* of which one is faulty; two intents and one attestation record.         *)
(***************************************************************************)
EXTENDS Gateway, DamlInterop, TLC

CONSTANTS o1, o2, a1, t1, t2

MCWindows == {<<0, 1>>, <<1, 2>>}

VARIABLE side

contractVars == <<side, vars, interopVars>>

ContractsInit == side \in {"EVM", "CANTON"} /\ Init /\ InteropInit

ContractsNext ==
  \/ side = "EVM" /\ Next /\ UNCHANGED <<side, interopVars>>
  \/ side = "CANTON" /\ InteropNext /\ UNCHANGED <<side, vars>>

ContractsSpec == ContractsInit /\ [][ContractsNext]_contractVars

Symmetry == Permutations({o1, o2}) \cup Permutations({t1, t2})
=============================================================================
