---------------------------- MODULE DamlInterop -----------------------------
(***************************************************************************)
(* The Canton side (contracts/daml/daml/InterWeave/Interop.daml): the      *)
(* workflow BridgeIntent, LockedAsset, ReleaseAuthorization, ReleasedAsset *)
(* and the validators' AttestationRecord.                                  *)
(*                                                                         *)
(* The ledger is the set of its active contracts.  A consuming choice is   *)
(* one atomic transaction that archives its contract and creates the next  *)
(* one; the signatories of a contract may also archive it.  A contract of  *)
(* the workflow remembers the intent it comes from, which stands for its   *)
(* contract id and holding.  Asset, amount, receiver and destination are   *)
(* one value, its terms.  Attestations are written by the validators.      *)
(***************************************************************************)
EXTENDS Undefined, Naturals, FiniteSets

CONSTANTS
  Operations,       \* operation ids
  Terms,            \* asset, amount, receiver and destination network
  MaxIntents,       \* bound of the number of intents
  MaxAttestations,  \* bound of the number of attestation records
  MaxLedgerTime     \* bound of the ledger time

LedgerTime == 0..MaxLedgerTime

\* The ensure clause: validFrom is before expiresAt.
AttestationRecord ==
  {a \in [operationId : Operations, terms : Terms, validFrom : LedgerTime,
          expiresAt : LedgerTime, thresholdVerified : BOOLEAN] :
     a.validFrom < a.expiresAt}

ASSUME InteropConstants ==
  /\ MaxIntents \in Nat /\ MaxAttestations \in Nat /\ MaxLedgerTime \in Nat
  /\ None \notin AttestationRecord \cup LedgerTime

VARIABLES
  contracts,     \* active contracts of the workflow
  attestations,  \* active attestation records
  ledgerTime,    \* ledger time
  intents,       \* history: number of intents created
  attested       \* history: attestation records ever created

interopVars == <<contracts, attestations, ledgerTime, intents, attested>>

\* The workflow's templates.  expiresAt is the end of an intent or of a
\* release authorization, at the time of the lock or of the release.
Contract ==
  [ template : {"BridgeIntent", "LockedAsset", "ReleaseAuthorization",
                "ReleasedAsset"},
    intent : 1..MaxIntents, operationId : Operations, terms : Terms,
    expiresAt : LedgerTime \cup {None}, at : LedgerTime \cup {None},
    attestation : AttestationRecord \cup {None} ]

InteropInit ==
  /\ contracts = {}
  /\ attestations = {}
  /\ ledgerTime = 0
  /\ intents = 0
  /\ attested = {}
-----------------------------------------------------------------------------
\* The owner and the operator create an intent together; nothing keeps them
\* from creating a second one for the operation.
CreateIntent(o, t, e) ==
  /\ intents < MaxIntents
  /\ intents' = intents + 1
  /\ contracts' = contracts \cup
       {[template |-> "BridgeIntent", intent |-> intents + 1, operationId |-> o,
         terms |-> t, expiresAt |-> e, at |-> None, attestation |-> None]}
  /\ UNCHANGED <<attestations, ledgerTime, attested>>

\* A consuming choice on c creates d.
replace(c, d) == contracts' = (contracts \ {c}) \cup {d}

\* Lock, by the owner.
Lock(c) ==
  /\ c.template = "BridgeIntent"
  /\ ledgerTime < c.expiresAt
  /\ replace(c, [c EXCEPT !.template = "LockedAsset", !.expiresAt = None,
                          !.at = ledgerTime])
  /\ UNCHANGED <<attestations, ledgerTime, intents, attested>>

\* Mutant: the window of the attestation is not checked.
authorizesAnytime(a, c) ==
  a.operationId = c.operationId /\ a.terms = c.terms /\ a.thresholdVerified

\* The assertions of AuthorizeRelease.
authorizes(a, c) ==
  /\ a.operationId = c.operationId /\ a.terms = c.terms
  /\ a.validFrom <= ledgerTime /\ ledgerTime < a.expiresAt
  /\ a.thresholdVerified

\* AuthorizeRelease, by the operator: the attestation is fetched, and stays
\* on the ledger.
AuthorizeRelease(c, a) ==
  /\ c.template = "LockedAsset"
  /\ authorizes(a, c)
  /\ replace(c, [c EXCEPT !.template = "ReleaseAuthorization", !.at = None,
                          !.expiresAt = a.expiresAt, !.attestation = a])
  /\ UNCHANGED <<attestations, ledgerTime, intents, attested>>

\* The choice ExecuteRelease, by the owner.
ExecuteAuthorization(c) ==
  /\ c.template = "ReleaseAuthorization"
  /\ ledgerTime < c.expiresAt
  /\ replace(c, [c EXCEPT !.template = "ReleasedAsset", !.expiresAt = None,
                          !.at = ledgerTime])
  /\ UNCHANGED <<attestations, ledgerTime, intents, attested>>

\* Archive, by the owner and the operator together.
ArchiveContract(c) ==
  /\ contracts' = contracts \ {c}
  /\ UNCHANGED <<attestations, ledgerTime, intents, attested>>
-----------------------------------------------------------------------------
\* The validator operator records an attestation, and may archive it.
Attest(a) ==
  /\ a \notin attested
  /\ Cardinality(attested) < MaxAttestations
  /\ attestations' = attestations \cup {a}
  /\ attested' = attested \cup {a}
  /\ UNCHANGED <<contracts, ledgerTime, intents>>

ArchiveAttestation(a) ==
  /\ attestations' = attestations \ {a}
  /\ UNCHANGED <<contracts, ledgerTime, intents, attested>>

\* External: the ledger time.
LedgerTick ==
  /\ ledgerTime < MaxLedgerTime
  /\ ledgerTime' = ledgerTime + 1
  /\ UNCHANGED <<contracts, attestations, intents, attested>>

InteropNext ==
  \/ \E o \in Operations, t \in Terms, e \in LedgerTime : CreateIntent(o, t, e)
  \/ \E c \in contracts : Lock(c)
  \/ \E c \in contracts, a \in attestations : AuthorizeRelease(c, a)
  \/ \E c \in contracts : ExecuteAuthorization(c)
  \/ \E c \in contracts : ArchiveContract(c)
  \/ \E a \in AttestationRecord : Attest(a)
  \/ \E a \in attestations : ArchiveAttestation(a)
  \/ LedgerTick

InteropSpec == InteropInit /\ [][InteropNext]_interopVars
-----------------------------------------------------------------------------
\* Types; from the authorization on a contract carries its attestation.
InteropTypeOK ==
  /\ contracts \subseteq Contract
  /\ attestations \subseteq attested /\ attested \subseteq AttestationRecord
  /\ ledgerTime \in LedgerTime
  /\ intents \in 0..MaxIntents
  /\ \A c \in contracts :
       /\ c.expiresAt # None
            <=> c.template \in {"BridgeIntent", "ReleaseAuthorization"}
       /\ c.at # None <=> c.template \in {"LockedAsset", "ReleasedAsset"}
       /\ c.attestation # None <=>
            c.template \in {"ReleaseAuthorization", "ReleasedAsset"}

\* A release took place within the window of a threshold-verified attestation
\* of its operation and terms, although the attestation was looked at by an
\* earlier choice of another party and may have been archived since.
ReleasedAsAttested ==
  \A c \in contracts : c.template = "ReleasedAsset" =>
    LET a == c.attestation
    IN  /\ a \in attested
        /\ a.operationId = c.operationId /\ a.terms = c.terms
        /\ a.thresholdVerified
        /\ a.validFrom <= c.at /\ c.at < a.expiresAt

\* "... and prevent duplicate authorization/release" (ADR 0017), read for an
\* operation: it is not released twice.
OneReleasePerOperation ==
  \A c, d \in contracts :
    /\ c.template = "ReleasedAsset" /\ d.template = "ReleasedAsset"
    /\ c.operationId = d.operationId
    => c = d
=============================================================================
