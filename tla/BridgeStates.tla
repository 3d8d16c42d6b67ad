---------------------------- MODULE BridgeStates ----------------------------
(***************************************************************************)
(* The closed transition graph of a bridge operation: the states of        *)
(* model.ts and the forward table, the terminal set and canTransition of   *)
(* transaction-engine.ts.  Shared by the durable engine and by the two     *)
(* coordinators that drive it.                                             *)
(***************************************************************************)

\* BRIDGE_STATES of model.ts.
BridgeState ==
  { "CREATED", "POLICY_CHECKED", "POLICY_REJECTED",
    "SOURCE_PREPARING", "SOURCE_SUBMITTED", "SOURCE_CONFIRMED",
    "SOURCE_FINALIZED", "SOURCE_FAILED",
    "ATTESTATION_PENDING", "ATTESTED", "ATTESTATION_FAILED",
    "DESTINATION_PREPARING", "DESTINATION_SUBMITTED",
    "DESTINATION_CONFIRMED", "DESTINATION_FINALIZED", "DESTINATION_FAILED",
    "RECONCILIATION_PENDING", "RECONCILED", "RECONCILIATION_FAILED",
    "COMPLETED", "EXPIRED", "MANUAL_REVIEW" }

terminal ==
  { "COMPLETED", "POLICY_REJECTED", "SOURCE_FAILED", "ATTESTATION_FAILED",
    "DESTINATION_FAILED", "EXPIRED", "RECONCILIATION_FAILED",
    "MANUAL_REVIEW" }

\* The forward edges, as a relation: the table of the engine.
forward ==
  { <<"CREATED", "POLICY_CHECKED">>,
    <<"CREATED", "POLICY_REJECTED">>,
    <<"POLICY_CHECKED", "SOURCE_PREPARING">>,
    <<"SOURCE_PREPARING", "SOURCE_SUBMITTED">>,
    <<"SOURCE_PREPARING", "SOURCE_FAILED">>,
    <<"SOURCE_SUBMITTED", "SOURCE_CONFIRMED">>,
    <<"SOURCE_SUBMITTED", "SOURCE_FAILED">>,
    <<"SOURCE_CONFIRMED", "SOURCE_FINALIZED">>,
    <<"SOURCE_CONFIRMED", "SOURCE_FAILED">>,
    <<"SOURCE_FINALIZED", "ATTESTATION_PENDING">>,
    <<"ATTESTATION_PENDING", "ATTESTED">>,
    <<"ATTESTATION_PENDING", "ATTESTATION_FAILED">>,
    <<"ATTESTED", "DESTINATION_PREPARING">>,
    <<"DESTINATION_PREPARING", "DESTINATION_SUBMITTED">>,
    <<"DESTINATION_PREPARING", "DESTINATION_FAILED">>,
    <<"DESTINATION_SUBMITTED", "DESTINATION_CONFIRMED">>,
    <<"DESTINATION_SUBMITTED", "DESTINATION_FAILED">>,
    <<"DESTINATION_CONFIRMED", "DESTINATION_FINALIZED">>,
    <<"DESTINATION_CONFIRMED", "DESTINATION_FAILED">>,
    <<"DESTINATION_FINALIZED", "RECONCILIATION_PENDING">>,
    <<"RECONCILIATION_PENDING", "RECONCILED">>,
    <<"RECONCILIATION_PENDING", "RECONCILIATION_FAILED">>,
    <<"RECONCILED", "COMPLETED">> }

\* No state leaves the terminal set; every other state may be expired or
\* handed to an operator, and otherwise moves along a forward edge.
canTransition(from, to) ==
  /\ from \notin terminal
  /\ to \in {"MANUAL_REVIEW", "EXPIRED"} \/ <<from, to>> \in forward
=============================================================================
