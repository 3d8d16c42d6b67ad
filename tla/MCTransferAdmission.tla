------------------------- MODULE MCTransferAdmission -------------------------
(***************************************************************************)
(* The registries and the policy that decide whether a transfer may begin, *)
(* for TLC: identities, policies, and assets with their networks.  A       *)
(* transfer takes its facts from each of them by itself; they share no     *)
(* state, so that TLC explores the behaviours of one while the others      *)
(* rest: registry never changes.                                           *)
(*                                                                         *)
(* Two identities prove the control of one locator with two challenges in  *)
(* overlapping calls; two versions of a policy with up to two rules each   *)
(* are replaced during a preflight; one representation of an asset is      *)
(* discovered by two overlapping calls.                                    *)
(***************************************************************************)
EXTENDS IdentityRegistry, PolicyEngine, Registries, TLC

CONSTANTS i1, i2, l1, c1, c2, v1, v2, u1, u2, f1, n1, n2, a1, r1, h1,
          k1, k2, d1, d2

rule(when, outcome) == [when |-> when, outcome |-> outcome]

always == rule([kind |-> "ALWAYS"], "ALLOW")
unbound ==
  rule([kind |-> "MISSING_REQUIRED_BINDING", sides |-> {"SENDER", "RECEIVER"}],
       "DENY")
large == rule([kind |-> "AMOUNT_GREATER_THAN", amount |-> 1], "REQUIRES_APPROVAL")

\* One rule of every kind by itself, and rules that disagree in both orders.
MCRules ==
  { <<always>>, <<unbound>>, <<large>>,
    <<always, unbound>>, <<unbound, always>>, <<large, unbound>>,
    <<rule([kind |-> "AMOUNT_AT_MOST", amount |-> 1], "ALLOW")>>,
    <<rule([kind |-> "ASSET_STATUS_IN", statuses |-> {"PAUSED"}], "DENY"), always>>,
    <<rule([kind |-> "OPERATION_IN", operations |-> {"BRIDGE"}], "ALLOW")>>,
    <<rule([kind |-> "NETWORK_PAIR_IN", pairs |-> {<<n1, n2>>}], "ALLOW")>>,
    <<always, rule([kind |-> "METADATA_EQUALS", key |-> k1, value |-> k2], "DENY")>>,
    <<rule([kind |-> "METADATA_MISSING", key |-> k1], "REQUIRES_APPROVAL"), always>> }

MCDefinitions == [rules : MCRules, defaultOutcome : {"DENY"}]

plain ==
  [ amount |-> 1, assetStatus |-> "ACTIVE", operation |-> "BRIDGE",
    networks |-> <<n1, n2>>, bound |-> {"SENDER", "RECEIVER"},
    metadata |-> k1 :> k1 ]

\* A plain input, and those that differ from it in one place or in two.
MCInputs ==
  { plain, [plain EXCEPT !.amount = 2], [plain EXCEPT !.assetStatus = "PAUSED"],
    [plain EXCEPT !.operation = "TRANSFER", !.networks = <<n1, None>>],
    [plain EXCEPT !.amount = 2, !.bound = {"SENDER"}],
    [plain EXCEPT !.metadata = k1 :> k2], [plain EXCEPT !.metadata = k1 :> None] }

VARIABLE registry

admissionVars == <<registry, identityVars, policyVars, registryVars>>

AdmissionInit ==
  /\ registry \in {"IDENTITY", "POLICY", "ASSET"}
  /\ IdentityInit /\ PolicyInit /\ RegistriesInit

AdmissionNext ==
  \/ /\ registry = "IDENTITY" /\ IdentityNext
     /\ UNCHANGED <<registry, policyVars, registryVars>>
  \/ /\ registry = "POLICY" /\ PolicyNext
     /\ UNCHANGED <<registry, identityVars, registryVars>>
  \/ /\ registry = "ASSET" /\ RegistriesNext
     /\ UNCHANGED <<registry, identityVars, policyVars>>

AdmissionSpec == AdmissionInit /\ [][AdmissionNext]_admissionVars
=============================================================================
