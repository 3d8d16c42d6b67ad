----------------------------- MODULE BurnRelease -----------------------------
(***************************************************************************)
(* The switch of EvmToCantonBurnReleaseCoordinator.run                     *)
(* (packages/core/src/burn-release-coordinator.ts): per state, the stage   *)
(* whose evidence the branch looks for or produces, the evidence it        *)
(* requires, and the transition for a positive and for a negative outcome. *)
(***************************************************************************)
LOCAL Branch(stage, requires, ok, fail) ==
  [stage |-> stage, requires |-> requires, ok |-> ok, fail |-> fail]

LOCAL Plain(to) == Branch("NONE", {}, to, to)

BurnReleaseStage ==
  { "SOURCE_BURN", "SOURCE_CONFIRMATION", "SOURCE_FINALITY", "ATTESTATION",
    "DESTINATION_RELEASE", "DESTINATION_CONFIRMATION", "DESTINATION_FINALITY",
    "RECONCILIATION" }

BurnReleaseSteps ==
  [ CREATED |-> Branch("NONE", {}, "POLICY_CHECKED", "POLICY_REJECTED"),
    POLICY_CHECKED |-> Plain("SOURCE_PREPARING"),
    SOURCE_PREPARING |->
      Branch("SOURCE_BURN", {}, "SOURCE_SUBMITTED", "SOURCE_SUBMITTED"),
    SOURCE_SUBMITTED |->
      Branch("SOURCE_CONFIRMATION", {"SOURCE_BURN"},
             "SOURCE_CONFIRMED", "SOURCE_FAILED"),
    SOURCE_CONFIRMED |->
      Branch("SOURCE_FINALITY", {"SOURCE_BURN"},
             "SOURCE_FINALIZED", "SOURCE_FAILED"),
    SOURCE_FINALIZED |-> Plain("ATTESTATION_PENDING"),
    ATTESTATION_PENDING |->
      Branch("ATTESTATION", {"SOURCE_FINALITY"},
             "ATTESTED", "ATTESTATION_FAILED"),
    ATTESTED |-> Plain("DESTINATION_PREPARING"),
    DESTINATION_PREPARING |->
      Branch("DESTINATION_RELEASE", {"ATTESTATION"},
             "DESTINATION_SUBMITTED", "DESTINATION_SUBMITTED"),
    DESTINATION_SUBMITTED |->
      Branch("DESTINATION_CONFIRMATION", {"DESTINATION_RELEASE"},
             "DESTINATION_CONFIRMED", "DESTINATION_FAILED"),
    DESTINATION_CONFIRMED |->
      Branch("DESTINATION_FINALITY", {"DESTINATION_RELEASE"},
             "DESTINATION_FINALIZED", "DESTINATION_FAILED"),
    DESTINATION_FINALIZED |-> Plain("RECONCILIATION_PENDING"),
    RECONCILIATION_PENDING |->
      Branch("RECONCILIATION", {}, "RECONCILED", "RECONCILIATION_FAILED"),
    RECONCILED |-> Plain("COMPLETED") ]
=============================================================================
