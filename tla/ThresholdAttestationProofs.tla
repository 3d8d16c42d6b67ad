--------------------- MODULE ThresholdAttestationProofs ---------------------
(***************************************************************************)
(* The validator sets and the threshold attestation, for any number of     *)
(* validators, sets, members that come and go, attestations, and lists of  *)
(* signatures of any length.                                               *)
(*                                                                         *)
(* A set is judged at the boundaries of its members' intervals and holds   *)
(* in between, since nobody leaves between a time and the last boundary    *)
(* before it.  A list of distinct members that reaches the threshold names *)
(* an honest one, who signed what the source network has finalized.        *)
(***************************************************************************)
EXTENDS ThresholdAttestation, FiniteSetTheorems, WellFoundedInduction, TLAPS

\* The registry: every registered set was admitted, and no two overlap.
SetsInv ==
  /\ SetsTypeOK
  /\ \A a \in SetIds : sets[a] # None =>
       /\ assertValidatorSet(sets[a])
       /\ \A b \in SetIds : sets[b] # None /\ a # b =>
            ~intervalsOverlap(sets[a].interval, sets[b].interval)

\* The validators: a final observation is still what the source says, and
\* whoever has observed works on an attestation.
ObservationInv ==
  /\ source \in SourceEvent \cup {None}
  /\ checking \in [Validators -> Attestations \cup {None}]
  /\ observed \in [Validators -> SourceEvent \cup {None}]
  /\ \A v \in Validators : observed[v] # None =>
       checking[v] \in Attestations /\ (observed[v].final => source = observed[v])

\* The honest signatures are over what the source says for good.
SignedIsFinal ==
  /\ signed \subseteq Validators \X Attestations /\ satisfied \subseteq Attestations
  /\ \A p \in signed : source = [content |-> p[2].content, final |-> TRUE]

ThresholdInv == SetsInv /\ ObservationInv /\ SignedIsFinal /\ SatisfiedIsFinal
-----------------------------------------------------------------------------
LEMMA CandidateType ==
  ASSUME NEW s \in Candidates
  PROVE  /\ s.threshold \in Nat /\ s.interval \in Interval
         /\ DOMAIN s.members \subseteq Validators
         /\ \A v \in DOMAIN s.members : s.members[v] \in Interval
<1>1. PICK M \in SUBSET Validators :
        s \in [threshold : 1..Cardinality(M), interval : Interval,
               members : [M -> Interval]]
  BY SetConstants DEF ValidatorSet
<1>2. Cardinality(M) \in Nat
  BY SetConstants, FS_Subset, FS_CardinalityType
<1> QED
  BY <1>1, <1>2

LEMMA IntervalType ==
  ASSUME NEW i \in Interval
  PROVE  /\ i.from \in Nat /\ i.until \in Nat /\ i.from < i.until
         /\ i.from =< MaxTime
BY SetConstants DEF Interval, Time, Never

\* The least element, with which the induction is made.
LEMMA LeastNumber ==
  ASSUME NEW T, T \subseteq Nat, T # {}
  PROVE  \E m \in T : \A k \in T : m =< k
<1>1. PICK m \in T : \A k \in T : ~(<<k, m>> \in OpToRel(<, Nat))
  BY WFMin, NatLessThanWellFounded
<1>2. \A k \in T : ~(k < m)
  BY <1>1 DEF OpToRel
<1> QED
  BY <1>2

\* Of the boundaries that are not later than t, one is the last.
LEMMA LastBoundary ==
  ASSUME NEW s \in Candidates, NEW t \in Time, covers(s.interval, t)
  PROVE  \E b \in boundaries(s) :
           b =< t /\ \A c \in boundaries(s) : c =< t => c =< b
<1>1. t \in Nat
  BY SetConstants DEF Time
<1>2. boundaries(s) \subseteq Nat
  <2>1. \A v \in DOMAIN s.members :
          s.members[v].from \in Nat /\ s.members[v].until \in Nat
    BY CandidateType, IntervalType
  <2>2. s.interval.from \in Nat
    BY CandidateType, IntervalType
  <2> QED
    BY <2>1, <2>2 DEF boundaries
<1>3. s.interval.from \in boundaries(s) /\ s.interval.from =< t
  <2>1. /\ s.interval.from \in Nat /\ s.interval.from < s.interval.until
        /\ s.interval.from =< MaxTime
    BY CandidateType, IntervalType
  <2> QED
    BY <2>1, SetConstants DEF boundaries, covers, Never
<1>4. PICK T : T = {t - c : c \in {b \in boundaries(s) : b =< t}}
  OBVIOUS
<1>5. T \subseteq Nat /\ T # {}
  BY <1>1, <1>2, <1>3, <1>4
<1>6. PICK m \in T : \A k \in T : m =< k
  BY <1>5, LeastNumber
<1>7. PICK b \in boundaries(s) : b =< t /\ m = t - b
  BY <1>4, <1>6
<1>8. ASSUME NEW c \in boundaries(s), c =< t PROVE c =< b
  <2>1. t - c \in T
    BY <1>4, <1>8
  <2>2. t - b =< t - c
    BY <1>6, <1>7, <2>1
  <2> QED
    BY <1>1, <1>2, <1>7, <1>8, <2>2
<1> QED
  BY <1>7, <1>8

\* assertValidatorSet looks at the boundaries only, and yet the set reaches
\* its threshold at every time that its interval covers.
LEMMA ThresholdBetweenBoundaries ==
  ASSUME NEW s \in Candidates, assertValidatorSet(s), NEW t \in Time,
         covers(s.interval, t)
  PROVE  Cardinality(enabled(s, t)) >= s.threshold
<1>1. PICK b \in boundaries(s) :
        b =< t /\ \A c \in boundaries(s) : c =< t => c =< b
  BY LastBoundary
<1>2. t \in Nat /\ t =< MaxTime /\ MaxTime \in Nat
  BY SetConstants DEF Time
<1>3. /\ s.interval.from \in Nat /\ s.interval.until \in Nat
      /\ s.interval.from =< b /\ b < s.interval.until /\ t < s.interval.until
  BY CandidateType, IntervalType DEF boundaries, covers
<1>4. b \in Nat
  <2>1. \A v \in DOMAIN s.members :
          s.members[v].from \in Nat /\ s.members[v].until \in Nat
    BY CandidateType, IntervalType
  <2> QED
    BY <1>3, <2>1 DEF boundaries
<1>5. ASSUME NEW v \in enabled(s, b) PROVE v \in enabled(s, t)
  <2>1. /\ v \in DOMAIN s.members /\ s.members[v].from =< b /\ b < s.members[v].until
    BY DEF enabled, covers
  <2>2. s.members[v].from \in Nat /\ s.members[v].until \in Nat
    BY <2>1, CandidateType, IntervalType
  <2>3. ASSUME s.members[v].until =< t PROVE FALSE
    <3>1. s.members[v].until # Never /\ covers(s.interval, s.members[v].until)
      BY <1>2, <1>3, <1>4, <2>1, <2>2, <2>3 DEF Never, covers
    <3>2. s.members[v].until \in boundaries(s)
      BY <2>1, <3>1 DEF boundaries
    <3> QED
      BY <1>1, <1>4, <2>1, <2>2, <2>3, <3>2
  <2> QED
    BY <1>1, <1>2, <1>4, <2>1, <2>2, <2>3 DEF enabled, covers
<1>6. IsFiniteSet(enabled(s, t))
  <2>1. enabled(s, t) \subseteq Validators
    BY CandidateType DEF enabled
  <2> QED
    BY <2>1, SetConstants, FS_Subset
<1>7. /\ Cardinality(enabled(s, b)) =< Cardinality(enabled(s, t))
      /\ IsFiniteSet(enabled(s, b))
  <2>1. PICK A, B : A = enabled(s, b) /\ B = enabled(s, t)
    OBVIOUS
  <2>2. A \subseteq B /\ IsFiniteSet(B)
    BY <1>5, <1>6, <2>1
  <2>3. IsFiniteSet(A) /\ Cardinality(A) =< Cardinality(B)
    BY <2>2, FS_Subset
  <2> QED
    BY <2>1, <2>3
<1>8. Cardinality(enabled(s, b)) \in Nat /\ Cardinality(enabled(s, t)) \in Nat
  BY <1>6, <1>7, FS_CardinalityType
<1>9. Cardinality(enabled(s, b)) >= s.threshold /\ s.threshold \in Nat
  BY CandidateType DEF assertValidatorSet
<1> QED
  BY <1>7, <1>8, <1>9

\* As many distinct members as the threshold asks for: one is honest.
LEMMA HonestMember ==
  ASSUME NEW s \in Candidates, NEW a, NEW signatures \in BoundedSeq(Signature, MaxSignatures),
         isSatisfied(s, signatures, a)
  PROVE  \E i \in DOMAIN signatures :
           signatures[i].genuine /\ signatures[i].validatorId \notin Faulty
<1>1. PICK n \in Nat : signatures \in [1..n -> Signature] /\ Len(signatures) = n
  BY AttestationConstants DEF BoundedSeq, SeqOf
<1>2. /\ n >= s.threshold /\ s.threshold \in Nat
      /\ \A i, j \in 1..n : signatures[i].validatorId = signatures[j].validatorId => i = j
      /\ \A i \in 1..n : /\ signatures[i].genuine
                         /\ signatures[i].validatorId \in DOMAIN s.members
  BY <1>1, CandidateType DEF isSatisfied, distinct, accepted
<1>3. SUFFICES ASSUME \A i \in 1..n : signatures[i].validatorId \in Faulty PROVE FALSE
  BY <1>1, <1>2
<1>4. PICK f, F : /\ f = [i \in 1..n |-> signatures[i].validatorId]
                  /\ F = DOMAIN s.members \cap Faulty
  OBVIOUS
<1>5. f \in Injection(1..n, F)
  <2>1. f \in [1..n -> F]
    BY <1>2, <1>3, <1>4
  <2>2. \A i, j \in 1..n : f[i] = f[j] => i = j
    BY <1>2, <1>4
  <2> QED
    BY <2>1, <2>2 DEF Injection, IsInjective
<1>6. IsFiniteSet(F)
  <2>1. F \subseteq Validators
    BY <1>4, CandidateType
  <2> QED
    BY <2>1, SetConstants, FS_Subset
<1>7. IsFiniteSet(1..n) /\ Cardinality(1..n) = n
  BY FS_Interval
<1>8. Cardinality(1..n) =< Cardinality(F)
  BY <1>5, <1>6, FS_Injection
<1>9. Cardinality(F) < s.threshold /\ Cardinality(F) \in Nat
  BY <1>4, <1>6, AttestationConstants, FS_CardinalityType
<1> QED
  BY <1>2, <1>7, <1>8, <1>9
-----------------------------------------------------------------------------
\* A set that is admitted keeps the registry in order.
LEMMA RegistryStep ==
  ASSUME SetsInv, NEW id \in SetIds, NEW s \in Candidates, Register(id, s)
  PROVE  SetsInv'
<1>1. /\ sets \in [SetIds -> Candidates \cup {None}]
      /\ sets' = [sets EXCEPT ![id] = s] /\ sets[id] = None
      /\ assertValidatorSet(s)
      /\ \A b \in SetIds : sets[b] # None => ~intervalsOverlap(s.interval, sets[b].interval)
  BY DEF SetsInv, SetsTypeOK, Register, registerAdmits
<1>2. /\ sets' \in [SetIds -> Candidates \cup {None}] /\ sets'[id] = s
      /\ \A b \in SetIds \ {id} : sets'[b] = sets[b]
  BY <1>1
<1>3. ASSUME NEW a \in SetIds, sets'[a] # None PROVE assertValidatorSet(sets'[a])
  BY <1>1, <1>2, <1>3 DEF SetsInv
<1>4. ASSUME NEW a \in SetIds, sets'[a] # None, NEW b \in SetIds, sets'[b] # None, a # b
      PROVE  ~intervalsOverlap(sets'[a].interval, sets'[b].interval)
  <2>1. CASE a = id
    BY <1>1, <1>2, <1>4, <2>1
  <2>2. CASE b = id
    BY <1>1, <1>2, <1>4, <2>2 DEF intervalsOverlap
  <2>3. CASE a # id /\ b # id
    BY <1>2, <1>4, <2>3 DEF SetsInv
  <2> QED
    BY <2>1, <2>2, <2>3
<1> QED
  BY <1>2, <1>3, <1>4 DEF SetsInv, SetsTypeOK

\* The source moves only as long as nothing final has been observed.
LEMMA SourceStep ==
  ASSUME ThresholdInv, NEW e \in SourceEvent \cup {None}, SourceMoves(e)
  PROVE  ThresholdInv'
<1>1. /\ source' = e /\ (source # None => ~source.final)
      /\ UNCHANGED <<sets, checking, observed, signed, satisfied>>
  BY DEF SourceMoves, validator
<1>2. ASSUME NEW c \in Contents PROVE source # [content |-> c, final |-> TRUE]
  <2>1. None \notin SourceEvent /\ source \in SourceEvent \cup {None}
    BY AttestationConstants DEF ThresholdInv, ObservationInv
  <2>2. ASSUME source = [content |-> c, final |-> TRUE] PROVE FALSE
    <3>1. source.final
      <4>1. source.final = TRUE
        BY <2>2
      <4> QED
        BY <4>1, Zenon
    <3>2. source = None
      BY <1>1, <3>1
    <3> QED
      <4>1. [content |-> c, final |-> TRUE] \in SourceEvent
        BY DEF SourceEvent
      <4> QED
        BY <2>1, <2>2, <3>2, <4>1, Zenon
  <2> QED
    BY <2>2
<1>3. signed = {} /\ satisfied = {}
  <2>1. \A a \in Attestations : a.content \in Contents
    BY AttestationConstants
  <2>2. ASSUME NEW p \in signed PROVE FALSE
    BY <1>2, <2>1 DEF ThresholdInv, SignedIsFinal
  <2>3. ASSUME NEW a \in satisfied PROVE FALSE
    BY <1>2, <2>1 DEF ThresholdInv, SignedIsFinal, SatisfiedIsFinal
  <2> QED
    BY <2>2, <2>3
<1>4. \A v \in Validators : observed[v] # None => ~observed[v].final
  BY <1>1 DEF ThresholdInv, ObservationInv
<1>5. ObservationInv'
  BY <1>1, <1>4 DEF ThresholdInv, ObservationInv
<1>6. SetsInv'
  BY <1>1 DEF ThresholdInv, SetsInv, SetsTypeOK
<1> QED
  BY <1>1, <1>3, <1>5, <1>6 DEF ThresholdInv, SignedIsFinal, SatisfiedIsFinal

\* A validator observes, signs and rejects.
LEMMA ValidatorStep ==
  ASSUME ThresholdInv, NEW v \in Validators,
         (\E a \in Attestations : VerifyAndSign(v, a)) \/ Observe(v) \/ Sign(v) \/ Reject(v)
  PROVE  ThresholdInv'
<1>0. UNCHANGED <<sets, source, satisfied>>
  BY DEF VerifyAndSign, Observe, Sign, Reject
<1>1. ObservationInv'
  <2>1. ASSUME NEW a \in Attestations, VerifyAndSign(v, a) PROVE ObservationInv'
    BY <2>1 DEF VerifyAndSign, ThresholdInv, ObservationInv
  <2>2. CASE Observe(v)
    BY <2>2 DEF Observe, ThresholdInv, ObservationInv
  <2>3. CASE Sign(v) \/ Reject(v)
    BY <1>0, <2>3 DEF Sign, Reject, ThresholdInv, ObservationInv
  <2> QED
    BY <2>1, <2>2, <2>3
<1>2. SignedIsFinal'
  <2>1. CASE Sign(v)
    <3>1. PICK c : c = checking[v].content
      OBVIOUS
    <3>2. observed[v] \in SourceEvent /\ observed[v].content = c
          /\ observed[v].final /\ source = observed[v]
      BY <2>1, <3>1 DEF Sign, matches, ThresholdInv, ObservationInv
    <3>3. observed[v].final = TRUE
      <4>1. observed[v].final \in BOOLEAN
        BY <3>2 DEF SourceEvent
      <4> QED
        BY <3>2, <4>1, Zenon
    <3>4. source = [content |-> c, final |-> TRUE]
      BY <3>2, <3>3 DEF SourceEvent
    <3>5. signed' = signed \cup {<<v, checking[v]>>}
      BY <2>1 DEF Sign
    <3>6. checking[v] \in Attestations
      BY <2>1 DEF Sign, ThresholdInv, ObservationInv
    <3>7. signed' \subseteq Validators \X Attestations
      BY <3>5, <3>6 DEF ThresholdInv, SignedIsFinal
    <3>8. ASSUME NEW p \in signed'
          PROVE  source = [content |-> p[2].content, final |-> TRUE]
      <4>1. CASE p = <<v, checking[v]>>
        <5>1. p[2].content = c
          BY <3>1, <4>1
        <5> QED
          BY <3>4, <5>1
      <4>2. CASE p \in signed
        BY <4>2 DEF ThresholdInv, SignedIsFinal
      <4> QED
        BY <3>5, <3>8, <4>1, <4>2
    <3> QED
      BY <1>0, <3>7, <3>8 DEF ThresholdInv, SignedIsFinal
  <2>2. CASE UNCHANGED signed
    BY <1>0, <2>2 DEF ThresholdInv, SignedIsFinal
  <2> QED
    BY <2>1, <2>2 DEF VerifyAndSign, Observe, Reject
<1>3. SetsInv' /\ SatisfiedIsFinal'
  BY <1>0 DEF ThresholdInv, SetsInv, SetsTypeOK, SatisfiedIsFinal
<1> QED
  BY <1>1, <1>2, <1>3 DEF ThresholdInv

\* A list that is answered SATISFIED holds an honest signature.
LEMMA VerifyStep ==
  ASSUME ThresholdInv, NEW id \in SetIds, NEW a \in Attestations,
         NEW signatures \in BoundedSeq(Signature, MaxSignatures),
         Verify(id, a, signatures)
  PROVE  ThresholdInv'
<1>1. /\ isSatisfied(sets[id], signatures, a) /\ satisfied' = satisfied \cup {a}
      /\ \A i \in DOMAIN signatures : exists(signatures[i], a)
      /\ UNCHANGED <<sets, source, checking, observed, signed>>
  BY DEF Verify, validator
<1>2. sets[id] \in Candidates
  BY DEF Verify, resolves, ThresholdInv, SetsInv, SetsTypeOK
<1>3. PICK i \in DOMAIN signatures :
        signatures[i].genuine /\ signatures[i].validatorId \notin Faulty
  BY <1>1, <1>2, HonestMember
<1>4. <<signatures[i].validatorId, a>> \in signed
  BY <1>1, <1>3 DEF exists
<1>5. source = [content |-> a.content, final |-> TRUE]
  BY <1>4 DEF ThresholdInv, SignedIsFinal
<1>6. SatisfiedIsFinal'
  BY <1>1, <1>5 DEF ThresholdInv, SatisfiedIsFinal
<1> QED
  BY <1>1, <1>6
     DEF ThresholdInv, SetsInv, SetsTypeOK, ObservationInv, SignedIsFinal

LEMMA ThresholdInvariance == Spec => []ThresholdInv
<1>1. Init => ThresholdInv
  BY DEF Init, RegistryInit, ThresholdInv, SetsInv, SetsTypeOK, ObservationInv,
         SignedIsFinal, SatisfiedIsFinal
<1>2. ThresholdInv /\ [Next]_vars => ThresholdInv'
  <2> SUFFICES ASSUME ThresholdInv, [Next]_vars PROVE ThresholdInv'
    OBVIOUS
  <2>1. ASSUME NEW id \in SetIds, NEW s \in Candidates, RegisterSet(id, s)
        PROVE  ThresholdInv'
    <3>1. SetsInv'
      BY <2>1, RegistryStep DEF RegisterSet, ThresholdInv
    <3> QED
      BY <2>1, <3>1 DEF RegisterSet, ThresholdInv, ObservationInv, SignedIsFinal,
         SatisfiedIsFinal, validator
  <2>2. CASE Tick \/ UNCHANGED vars
    BY <2>2 DEF Tick, vars, validator, ThresholdInv, SetsInv, SetsTypeOK,
       ObservationInv, SignedIsFinal, SatisfiedIsFinal
  <2> QED
    BY <2>1, <2>2, SourceStep, ValidatorStep, VerifyStep DEF Next
<1> QED
  BY <1>1, <1>2, PTL DEF Spec
-----------------------------------------------------------------------------
\* One set at most judges an attestation, and it can always reach its
\* threshold.
THEOREM RegistryCorrect == Spec => []OneSetJudges
<1>1. ASSUME SetsInv PROVE OneSetJudges
  <2> SUFFICES ASSUME NEW t \in Time, NEW a \in SetIds, resolves(a, t)
               PROVE  /\ \A b \in SetIds : resolves(b, t) => a = b
                      /\ Cardinality(enabled(sets[a], t)) >= sets[a].threshold
    BY DEF OneSetJudges
  <2>1. /\ sets[a] # None /\ sets[a] \in Candidates /\ covers(sets[a].interval, t)
        /\ assertValidatorSet(sets[a])
    BY <1>1 DEF resolves, SetsInv, SetsTypeOK
  <2>2. Cardinality(enabled(sets[a], t)) >= sets[a].threshold
    BY <2>1, ThresholdBetweenBoundaries
  <2>3. ASSUME NEW b \in SetIds, resolves(b, t), a # b PROVE FALSE
    <3>1. sets[b] # None /\ sets[b] \in Candidates /\ covers(sets[b].interval, t)
      BY <1>1, <2>3 DEF resolves, SetsInv, SetsTypeOK
    <3>2. /\ sets[a].interval.from \in Nat /\ sets[a].interval.until \in Nat
          /\ sets[b].interval.from \in Nat /\ sets[b].interval.until \in Nat
          /\ t \in Nat
      BY <2>1, <3>1, CandidateType, IntervalType, SetConstants DEF Time
    <3>3. intervalsOverlap(sets[a].interval, sets[b].interval)
      BY <2>1, <3>1, <3>2 DEF covers, intervalsOverlap
    <3> QED
      BY <1>1, <2>1, <2>3, <3>1, <3>3 DEF SetsInv
  <2> QED
    BY <2>2, <2>3
<1> QED
  BY <1>1, ThresholdInvariance, PTL DEF ThresholdInv

\* Whatever signatures are relayed, an attestation is answered SATISFIED only
\* when the source network has finalized what it states.
THEOREM AttestationCorrect == Spec => []SatisfiedIsFinal
BY ThresholdInvariance, PTL DEF ThresholdInv
=============================================================================
