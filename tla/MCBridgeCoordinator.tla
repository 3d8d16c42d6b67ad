------------------------- MODULE MCBridgeCoordinator -------------------------
(***************************************************************************)
(* The coordinators for TLC.  The tables of the two directions are         *)
(* translated from two source files; OneTable states that they differ in   *)
(* the names of two stages only, so that a behaviour of one direction is a *)
(* behaviour of the other, and the instance uses the table of LockMint.    *)
(***************************************************************************)
EXTENDS BridgeCoordinator, LockMint, BurnRelease, TLC

CONSTANTS w1, w2

MCWorkers == {w1, w2}

backName(stage) ==
  CASE stage = "SOURCE_LOCK" -> "SOURCE_BURN"
    [] stage = "DESTINATION_MINT" -> "DESTINATION_RELEASE"
    [] OTHER -> stage

ASSUME OneTable ==
  /\ BurnReleaseStage = {backName(g) : g \in LockMintStage}
  /\ BurnReleaseSteps =
       [s \in DOMAIN LockMintSteps |->
          [LockMintSteps[s] EXCEPT !.stage = backName(@),
                                   !.requires = {backName(g) : g \in @}]]
=============================================================================
