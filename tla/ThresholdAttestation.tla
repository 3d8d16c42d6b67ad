------------------------ MODULE ThresholdAttestation ------------------------
(***************************************************************************)
(* From the source network to a verified attestation: ValidatorService     *)
(* (packages/core/src/validator-service.ts), which observes the source     *)
(* network on its own and signs, and AttestationAggregator                 *)
(* (threshold-attestation.ts), which judges a list of signatures by the    *)
(* validator set in force.                                                 *)
(*                                                                         *)
(* verifyAndSign awaits the source provider; the network and the clock     *)
(* move in between.  A faulty validator signs anything.  Signatures are    *)
(* relayed by anybody, in any number and order; the signedAt of one is not *)
(* signed.  The source network has one event of the operation at a time,   *)
(* which may be replaced until it is final; content stands for everything  *)
(* that the statement and the observation are compared by.                 *)
(***************************************************************************)
EXTENDS ValidatorSets, Sequences, SequencesExt

CONSTANTS
  Faulty,        \* validators that do not follow the protocol
  Contents,      \* what an event of the source network says
  Attestations,  \* unsigned attestations: a content and a validity interval
  MaxSignatures  \* bound of the number of signatures of one call

SourceEvent == [content : Contents, final : BOOLEAN]

Signature == [validatorId : Validators, signedAt : Time, genuine : BOOLEAN]

\* The operator of the sets never lets faulty members reach the threshold.
ASSUME AttestationConstants ==
  /\ Faulty \subseteq Validators
  /\ Attestations \subseteq [content : Contents, interval : Interval]
  /\ MaxSignatures \in Nat
  /\ None \notin SourceEvent
  /\ \A s \in Candidates : Cardinality(DOMAIN s.members \cap Faulty) < s.threshold

VARIABLES
  source,     \* external: the event of the source network
  checking,   \* what verifyAndSign of each honest validator works on
  observed,   \* the observation it was given
  signed,     \* the pairs of a validator and an attestation that it signed
  satisfied,  \* history: the attestations answered SATISFIED
  now

validator == <<checking, observed>>
vars == <<sets, source, validator, signed, satisfied, now>>

Init ==
  /\ RegistryInit
  /\ source = None
  /\ checking = [v \in Validators |-> None]
  /\ observed = [v \in Validators |-> None]
  /\ signed = {}
  /\ satisfied = {}
  /\ now = 0
-----------------------------------------------------------------------------
\* External: the event is included, replaced or dropped by a reorganization,
\* or becomes final.
SourceMoves(e) ==
  /\ source # None => ~source.final
  /\ source' = e
  /\ UNCHANGED <<sets, validator, signed, satisfied, now>>

\* register, as in ValidatorSets.
RegisterSet(id, s) ==
  /\ Register(id, s)
  /\ UNCHANGED <<source, validator, signed, satisfied, now>>

\* verifyAndSign up to the request to the source provider.
VerifyAndSign(v, a) ==
  /\ v \notin Faulty
  /\ checking[v] = None
  /\ covers(a.interval, now)
  /\ checking' = [checking EXCEPT ![v] = a]
  /\ UNCHANGED <<sets, source, observed, signed, satisfied, now>>

\* The provider reads the source network.
Observe(v) ==
  /\ checking[v] # None
  /\ observed[v] = None
  /\ source # None
  /\ observed' = [observed EXCEPT ![v] = source]
  /\ UNCHANGED <<sets, source, checking, signed, satisfied, now>>

\* The comparisons of verifyAndSign.
matches(o, a) == o.content = a.content /\ o.final

\* Every comparison holds and signAttestation finds the attestation in force.
Sign(v) ==
  /\ observed[v] # None
  /\ matches(observed[v], checking[v])
  /\ now < checking[v].interval.until
  /\ signed' = signed \cup {<<v, checking[v]>>}
  /\ checking' = [checking EXCEPT ![v] = None]
  /\ observed' = [observed EXCEPT ![v] = None]
  /\ UNCHANGED <<sets, source, satisfied, now>>

\* A provider error, no observation, a mismatch or an expired attestation.
Reject(v) ==
  /\ checking[v] # None
  /\ observed[v] # None =>
       ~matches(observed[v], checking[v]) \/ now >= checking[v].interval.until
  /\ checking' = [checking EXCEPT ![v] = None]
  /\ observed' = [observed EXCEPT ![v] = None]
  /\ UNCHANGED <<sets, source, signed, satisfied, now>>
-----------------------------------------------------------------------------
\* Mutant: a validator counts as often as it is listed.
distinctAny(signatures) == TRUE

\* The set "seen" of #check.
distinct(signatures) ==
  \A i, j \in DOMAIN signatures :
    signatures[i].validatorId = signatures[j].validatorId => i = j

\* A signature over attestation a that the verifier accepts can exist.
exists(g, a) ==
  g.genuine => <<g.validatorId, a>> \in signed \/ g.validatorId \in Faulty

\* One round of the loop of #check: a member, enabled at signedAt, with a
\* genuine signature of its own key made before the attestation expires.
accepted(s, g, a) ==
  /\ g.validatorId \in DOMAIN s.members
  /\ covers(s.members[g.validatorId], g.signedAt)
  /\ g.signedAt < a.interval.until
  /\ g.genuine

\* result: SATISFIED, which one rejected signature prevents.
isSatisfied(s, signatures, a) ==
  /\ now < a.interval.until
  /\ distinct(signatures)
  /\ \A i \in DOMAIN signatures : accepted(s, signatures[i], a)
  /\ Len(signatures) >= s.threshold

\* aggregate and verify, with the set in force when a becomes valid.  Another
\* answer than SATISFIED changes nothing.
Verify(id, a, signatures) ==
  /\ resolves(id, a.interval.from)
  /\ isSatisfied(sets[id], signatures, a)
  /\ \A i \in DOMAIN signatures : exists(signatures[i], a)
  /\ satisfied' = satisfied \cup {a}
  /\ UNCHANGED <<sets, source, validator, signed, now>>

\* External: the clock.
Tick ==
  /\ now < MaxTime
  /\ now' = now + 1
  /\ UNCHANGED <<sets, source, validator, signed, satisfied>>

Next ==
  \/ \E e \in SourceEvent \cup {None} : SourceMoves(e)
  \/ \E id \in SetIds, s \in Candidates : RegisterSet(id, s)
  \/ \E v \in Validators, a \in Attestations : VerifyAndSign(v, a)
  \/ \E v \in Validators : Observe(v) \/ Sign(v) \/ Reject(v)
  \/ \E id \in SetIds, a \in Attestations :
       \E signatures \in BoundedSeq(Signature, MaxSignatures) :
         Verify(id, a, signatures)
  \/ Tick

Spec == Init /\ [][Next]_vars
-----------------------------------------------------------------------------
\* Types; a validator works on attestations that are in force.
TypeOK ==
  /\ SetsTypeOK
  /\ source \in SourceEvent \cup {None}
  /\ checking \in [Validators -> Attestations \cup {None}]
  /\ observed \in [Validators -> SourceEvent \cup {None}]
  /\ signed \subseteq (Validators \ Faulty) \X Attestations
  /\ satisfied \subseteq Attestations
  /\ now \in Time
  /\ \A v \in Validators :
       /\ observed[v] # None => checking[v] # None
       /\ checking[v] # None => checking[v].interval.from <= now

\* "Any missing evidence, provider error, mismatch ... fails closed" (ADR
\* 0013) and "only distinct, enabled members ... count" (ADR 0014): whatever
\* signatures are relayed, an attestation is answered SATISFIED only when the
\* source network has finalized what it states; the source may have been
\* reorganized, and sets rotated, while the validators looked.
SatisfiedIsFinal ==
  \A a \in satisfied : source = [content |-> a.content, final |-> TRUE]
=============================================================================
