------------------------- MODULE GenericAttestation -------------------------
(***************************************************************************)
(* GenericAttestationService.request and verifyGenericAttestation          *)
(* (packages/core/src/generic-attestation.ts) on top of SourceFinality:    *)
(* the validators are asked one after the other, each looks at the source  *)
(* network on its own and has its finality assessed, and the record is     *)
(* stored once.  Several requests for the one attestation id run at the    *)
(* same time, and each of the awaits lets the source network move.         *)
(*                                                                         *)
(* Claims stand for everything that a request and an observation are       *)
(* compared by.  A faulty validator observes and signs anything.           *)
(***************************************************************************)
EXTENDS SourceFinality, Sequences, FiniteSets

CONSTANTS
  Validators,  \* the configured validators, in their order
  Faulty,      \* those that do not follow the protocol
  Claims,      \* the contents a request can state
  claimsOf,    \* what the event in each block says
  Threshold    \* the threshold of the requests

validatorIds == {Validators[i] : i \in DOMAIN Validators}

\* The constructor refuses two validators with one identity or key; the
\* faulty ones do not reach the threshold.
ASSUME AttestationConstants ==
  /\ Validators \in Seq(validatorIds)
  /\ Cardinality(validatorIds) = Len(Validators)
  /\ claimsOf \in [Blocks -> Claims] /\ None \notin Claims
  /\ Threshold \in Nat /\ Faulty \subseteq validatorIds
  /\ Cardinality(Faulty) < Threshold

\* The clock: before, in and after the interval of validFrom and expiresAt.
Clock == {"early", "valid", "expired"}

VARIABLES
  record,    \* the row of generic_attestations: claims and outcome
  asked,     \* the claims of the request that each process works on
  turn,      \* the validator it asks next
  accepted,  \* the validators accepted so far, with the observed position
  signed,    \* the genuine signatures of honest validators: id and claims
  clock

request == <<asked, turn, accepted>>
serviceVars == <<record, request, signed, clock>>
vars == <<finalityVars, serviceVars>>

Init ==
  /\ FinalityInit
  /\ record = None
  /\ asked = [o \in Observers |-> None]
  /\ turn = [o \in Observers |-> 0]
  /\ accepted = [o \in Observers |-> {}]
  /\ signed = {}
  /\ clock = "early"

\* request() ends, by returning or by throwing.
Leave(o) ==
  /\ asked' = [asked EXCEPT ![o] = None]
  /\ turn' = [turn EXCEPT ![o] = 0]
  /\ accepted' = [accepted EXCEPT ![o] = {}]

\* request up to the loop.  An id that has a record is answered with it, or
\* with CONFLICT; outside of the interval nobody is asked.
Request(o, c) ==
  /\ asked[o] = None
  /\ record = None
  /\ asked' = [asked EXCEPT ![o] = c]
  /\ turn' = [turn EXCEPT ![o] =
                IF clock = "valid" /\ Threshold <= Len(Validators)
                  THEN 1 ELSE Len(Validators) + 1]
  /\ UNCHANGED <<finalityVars, record, accepted, signed, clock>>

isAsked(o, v) == turn[o] \in DOMAIN Validators /\ Validators[turn[o]] = v

\* An honest validator begins to observe.
Observe(o, v) ==
  /\ isAsked(o, v)
  /\ v \notin Faulty
  /\ GetReceipt(o)
  /\ UNCHANGED serviceVars

\* observationMismatch finds nothing.
observationMatches(c, b, canonical, outcome) ==
  claimsOf[b] = c /\ canonical /\ outcome = "SATISFIED"

\* Its observation arrives and is compared with the request.
Judge(o, v, outcome) ==
  /\ isAsked(o, v)
  /\ Assess(o, outcome)
  /\ accepted' = IF observationMatches(asked[o], receipt[o],
                                       receipt[o] = source.block, outcome)
                   THEN [accepted EXCEPT ![o] = @ \cup {<<v, source.depth>>}]
                   ELSE accepted
  /\ turn' = [turn EXCEPT ![o] = @ + 1]
  /\ UNCHANGED <<record, asked, signed, clock>>

\* SOURCE_NOT_FOUND or PROVIDER_ERROR of v.
Missing(o, v) ==
  /\ isAsked(o, v)
  /\ receipt' = [receipt EXCEPT ![o] = None]
  /\ turn' = [turn EXCEPT ![o] = @ + 1]
  /\ UNCHANGED <<network, source, submission, assessment, record, asked, accepted,
                 signed, clock>>

\* A faulty validator sends the observation that suits it.
ObserveFaulty(o, v) ==
  /\ isAsked(o, v)
  /\ v \in Faulty
  /\ \E position \in 1..MaxDepth :
       accepted' = [accepted EXCEPT ![o] = @ \cup {<<v, position>>}]
  /\ turn' = [turn EXCEPT ![o] = @ + 1]
  /\ UNCHANGED <<finalityVars, record, asked, signed, clock>>

\* Mutant: agreement is enough.
agreedByAny(o) == Cardinality({a[2] : a \in accepted[o]}) = 1

\* The threshold is reached and the observed positions agree.
agreed(o) ==
  /\ Cardinality(accepted[o]) >= Threshold
  /\ Cardinality({a[2] : a \in accepted[o]}) = 1

\* The accepted validators sign.
Sign(o) ==
  /\ turn[o] = Len(Validators) + 1
  /\ agreed(o)
  /\ signed' = signed \cup ({a[1] : a \in accepted[o]} \ Faulty) \X {asked[o]}
  /\ turn' = [turn EXCEPT ![o] = @ + 1]
  /\ UNCHANGED <<finalityVars, record, asked, accepted, clock>>

\* store.save, after the signatures or from persist: the first one is kept,
\* a later one is a CONFLICT.
Save(o) ==
  /\ \/ turn[o] = Len(Validators) + 2
     \/ turn[o] = Len(Validators) + 1 /\ ~agreed(o)
  /\ record' = IF record # None THEN record
               ELSE [ claims |-> asked[o],
                      outcome |-> IF agreed(o) THEN "VERIFIED" ELSE "REJECTED" ]
  /\ Leave(o)
  /\ UNCHANGED <<finalityVars, signed, clock>>

\* The process dies or a signer throws.
Abandon(o) ==
  /\ asked[o] # None
  /\ Leave(o)
  /\ receipt' = [receipt EXCEPT ![o] = None]
  /\ UNCHANGED <<network, source, submission, assessment, record, signed, clock>>

Tick ==
  /\ clock' = CASE clock = "early" -> "valid" [] clock = "valid" -> "expired"
                [] OTHER -> clock
  /\ clock' # clock
  /\ UNCHANGED <<finalityVars, record, request, signed>>

Next ==
  \/ SourceMoves /\ UNCHANGED serviceVars
  \/ Tick
  \/ \E o \in Observers :
       \/ \E c \in Claims : Request(o, c)
       \/ \E v \in validatorIds :
            \/ Observe(o, v) \/ Missing(o, v) \/ ObserveFaulty(o, v)
            \/ \E outcome \in FinalityOutcome : Judge(o, v, outcome)
       \/ Sign(o) \/ Save(o) \/ Abandon(o)

Spec == Init /\ [][Next]_vars
-----------------------------------------------------------------------------
\* Types; the validators of a list of accepted ones have been asked.
TypeOK ==
  /\ FinalityTypeOK
  /\ record \in [claims : Claims, outcome : {"VERIFIED", "REJECTED"}] \cup {None}
  /\ asked \in [Observers -> Claims \cup {None}]
  /\ turn \in [Observers -> 0..(Len(Validators) + 2)]
  /\ accepted \in [Observers -> SUBSET (validatorIds \X (1..MaxDepth))]
  /\ signed \subseteq validatorIds \X Claims
  /\ clock \in Clock
  /\ \A o \in Observers : asked[o] = None <=> turn[o] = 0

\* The block of the transaction stays.
stays == source.final \/ source.depth >= MaxReorg

Promise ==
  INSTANCE AttestedSource
    WITH settled <- IF stays THEN claimsOf[source.block] ELSE None

\* "Provider errors, claim mismatches, insufficient threshold, disagreement,
\* and expiry fail closed" (ADR 0024): although validators are faulty and the
\* network was reorganized while they looked, honest ones sign only what the
\* source network says for good.
KeepsPromise == Promise!SourceSpec

\* "Requests and results are immutable" (ADR 0024): requests that run side by
\* side for one id may judge differently, and yet a VERIFIED record is of
\* claims that honest validators signed.
VerifiedIsSigned ==
  record # None /\ record.outcome = "VERIFIED" =>
    \E v \in validatorIds \ Faulty : <<v, record.claims>> \in signed
=============================================================================
