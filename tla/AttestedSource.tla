--------------------------- MODULE AttestedSource ---------------------------
(***************************************************************************)
(* What the generic attestation service promises to those who act on its   *)
(* attestations (packages/core/src/generic-attestation.ts), whatever the   *)
(* source network does and however the validators look at it: the source   *)
(* settles on one content for good, and an honest validator signs nothing  *)
(* else.  GenericAttestation implements it; WorkflowEngine is built on it. *)
(***************************************************************************)
EXTENDS Undefined, Naturals, FiniteSets

CONSTANTS
  validatorIds,  \* the configured validators
  Faulty,        \* those that do not follow the protocol
  Claims,        \* the contents that are attested
  Threshold      \* the threshold that requests and verifiers use

\* The validators are listed; the faulty ones do not reach the threshold.
ASSUME SourceConstants ==
  /\ None \notin Claims /\ IsFiniteSet(validatorIds)
  /\ Threshold \in Nat /\ Faulty \subseteq validatorIds
  /\ Cardinality(Faulty) < Threshold

VARIABLES
  settled,  \* what the source network says for good
  signed    \* genuine signatures of honest validators: pairs of id and claims

sourceVars == <<settled, signed>>

SourceInit == settled = None /\ signed = {}

\* The event becomes final.
Settle(c) ==
  /\ settled = None
  /\ settled' = c
  /\ UNCHANGED signed

\* Enough validators have observed it, and sign.
Attest(honest, c) ==
  /\ c = settled
  /\ signed' = signed \cup (honest \X {c})
  /\ UNCHANGED settled

SourceNext ==
  \E c \in Claims :
    Settle(c) \/ \E honest \in SUBSET (validatorIds \ Faulty) : Attest(honest, c)

SourceSpec == SourceInit /\ [][SourceNext]_sourceVars
=============================================================================
