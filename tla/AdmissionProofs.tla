--------------------------- MODULE AdmissionProofs ---------------------------
(***************************************************************************)
(* What is known before a transfer begins, for any number of identities,   *)
(* challenges, rules, versions, discoveries and observers: the registries, *)
(* the policy, and the attestation of an event of the source network.      *)
(***************************************************************************)
EXTENDS GenericAttestation, IdentityRegistry, PolicyEngine, Registries,
        FiniteSetTheorems, TLAPS

-----------------------------------------------------------------------------
\* The asset registry.  Evidence is stored together with the representation
\* it is about, and the representation was there before it.
RegistriesInv ==
  /\ representations \in [RepresentationIds -> Representation \cup {None}]
  /\ DOMAIN evidence = RepresentationIds
  /\ discovering \in
       [Discoveries ->
          [id : RepresentationIds, representation : Representation] \cup {None}]
  /\ \A r \in RepresentationIds : evidence[r] # None =>
       /\ representations[r] # None
       /\ representations[r].discoveredCapabilities = evidence[r]

LEMMA RegistriesInvariance == RegistriesSpec => []RegistriesInv
<1> USE RegistriesConstants
<1>1. RegistriesInit => RegistriesInv
  BY DEF RegistriesInit, RegistriesInv
<1>2. RegistriesInv /\ [RegistriesNext]_registryVars => RegistriesInv'
  <2> SUFFICES ASSUME RegistriesInv, [RegistriesNext]_registryVars
               PROVE  RegistriesInv'
    OBVIOUS
  <2> USE DEF RegistriesInv
  <2>1. ASSUME NEW r \in RepresentationIds, NEW a \in AssetIds, NEW n \in NetworkIds,
               NEW c \in ChainIds \cup {None}, NEW e \in BOOLEAN,
               NEW k \in SUBSET Capabilities, RegisterRepresentation(r, a, n, c, e, k)
        PROVE  RegistriesInv'
    <3>1. PICK p : p = [assetId |-> a, chainId |-> c, enabled |-> e,
                        discoveredCapabilities |-> k]
      OBVIOUS
    <3>2. p \in Representation
      BY <3>1 DEF Representation
    <3>3. /\ representations' = [representations EXCEPT ![r] = p]
          /\ UNCHANGED <<evidence, discovering>> /\ evidence[r] = None
      BY <2>1, <3>1 DEF RegisterRepresentation
    <3> QED
      BY <3>2, <3>3
  <2>2. ASSUME NEW d \in Discoveries, NEW r \in RepresentationIds, Discover(d, r)
        PROVE  RegistriesInv'
    BY <2>2 DEF Discover
  <2>3. ASSUME NEW d \in Discoveries, NEW k \in SUBSET Capabilities, Discovered(d, k)
        PROVE  RegistriesInv'
    <3>1. PICK r \in RepresentationIds, q \in Representation :
            discovering[d] = [id |-> r, representation |-> q]
      BY <2>3 DEF Discovered
    <3>2. PICK p : p = [q EXCEPT !.discoveredCapabilities = k]
      OBVIOUS
    <3>3. p \in Representation /\ p.discoveredCapabilities = k
      BY <3>2 DEF Representation
    <3>4. /\ representations' = [representations EXCEPT ![r] = p]
          /\ evidence' = [evidence EXCEPT ![r] = k]
          /\ discovering' = [discovering EXCEPT ![d] = None]
      BY <2>3, <3>1, <3>2 DEF Discovered
    <3> QED
      BY <3>3, <3>4
  <2>4. ASSUME NEW d \in Discoveries, DiscoveryFails(d) PROVE RegistriesInv'
    BY <2>4 DEF DiscoveryFails
  <2>5. CASE UNCHANGED <<representations, evidence, discovering>>
    BY <2>5
  <2> QED
    BY <2>1, <2>2, <2>3, <2>4, <2>5 DEF RegistriesNext, registryVars, RegisterNetwork,
                                       SetNetworkEnabled, RegisterAsset
<1> QED
  BY <1>1, <1>2, PTL DEF RegistriesSpec

\* A capability in effect is in the stored evidence, whichever discoveries
\* overlapped and whatever the representation was registered with.
THEOREM CapabilitiesCorrect == RegistriesSpec => []EffectiveIsEvidenced
<1>1. RegistriesInv => EffectiveIsEvidenced
  BY DEF RegistriesInv, EffectiveIsEvidenced, effectiveCapabilities
<1> QED
  BY <1>1, RegistriesInvariance, PTL
-----------------------------------------------------------------------------
\* The identity registry.  A call remembers a time that is past: what is
\* active now was active then, so the search with the old time misses nothing.
IdentityInv ==
  /\ bindings \in [Identities -> SUBSET NetworkIdentity]
  /\ IsFiniteSet(allBindings)
  /\ challenges \in [Challenges -> Challenge \cup {None}]
  /\ call \in [Callers -> Call \cup {None}]
  /\ now \in Time
  /\ \A v \in Callers : call[v] # None => call[v].now =< now
  /\ OneActiveBinding

\* Who is active later was active before.
LEMMA ActiveBefore ==
  ASSUME NEW b \in NetworkIdentity, NEW s \in Nat, NEW t \in Nat, s =< t, active(b, t)
  PROVE  active(b, s)
BY RegistryConstants DEF NetworkIdentity, Time, active

\* A step after which the bindings are those of before and at most d, whose
\* locator is free when it is active.
LEMMA BindingIsAdded ==
  ASSUME IdentityInv, NEW d \in NetworkIdentity,
         bindings' \in [Identities -> SUBSET NetworkIdentity],
         allBindings' \subseteq allBindings \cup {d}, UNCHANGED now,
         \A b \in allBindings :
           active(b, now) /\ active(d, now) => b.locator # d.locator,
         challenges' \in [Challenges -> Challenge \cup {None}],
         \A v \in Callers : call'[v] \in {call[v], None},
         call' \in [Callers -> Call \cup {None}]
  PROVE  IdentityInv'
<1>1. IsFiniteSet(allBindings')
  BY FS_AddElement, FS_Subset DEF IdentityInv
<1>2. OneActiveBinding'
  BY DEF IdentityInv, OneActiveBinding, active
<1> QED
  BY <1>1, <1>2 DEF IdentityInv

\* The same without a new binding.
LEMMA BindingsRest ==
  ASSUME IdentityInv, UNCHANGED bindings, now' \in Time, now =< now',
         challenges' \in [Challenges -> Challenge \cup {None}],
         call' \in [Callers -> Call \cup {None}],
         \A v \in Callers : call'[v] = call[v] \/ (call'[v] # None => call'[v].now =< now)
  PROVE  IdentityInv'
<1> USE RegistryConstants
<1>1. allBindings' = allBindings
  BY DEF allBindings
<1>2. now \in Nat /\ now' \in Nat
  BY DEF IdentityInv, Time
<1>3. allBindings \subseteq NetworkIdentity
  BY DEF IdentityInv, allBindings
<1>4. OneActiveBinding'
  <2> SUFFICES ASSUME NEW b \in allBindings, NEW d \in allBindings, active(b, now'),
                      active(d, now'), b.locator = d.locator
               PROVE  b = d
    BY <1>1 DEF OneActiveBinding, active
  <2>1. active(b, now) /\ active(d, now)
    BY <1>2, <1>3, ActiveBefore
  <2> QED
    BY <2>1 DEF IdentityInv, OneActiveBinding
<1>5. ASSUME NEW v \in Callers, call'[v] # None PROVE call'[v].now =< now'
  <2>1. call'[v] \in Call
    BY <1>5
  <2>2. call'[v].now \in Nat
    BY <2>1 DEF Call, Time
  <2>3. call'[v].now =< now
    BY <1>5 DEF IdentityInv
  <2> QED
    BY <1>2, <2>2, <2>3
<1> QED
  BY <1>1, <1>4, <1>5 DEF IdentityInv

\* verifyChallenge after the await.
LEMMA IdentityBinds ==
  ASSUME IdentityInv, NEW v \in Callers, Bind(v) PROVE IdentityInv'
<1> USE RegistryConstants
<1>1. PICK c \in Call : c = call[v]
  BY DEF Bind, IdentityInv
<1>2. PICK i \in Identities : i = c.challenge.identityId
  BY DEF Call, Challenge
<1>3. /\ call' = [call EXCEPT ![v] = None] /\ UNCHANGED now
      /\ call' \in [Callers -> Call \cup {None}]
      /\ \A u \in Callers : call'[u] \in {call[u], None}
  BY DEF Bind, IdentityInv
<1>4. now \in Nat /\ c.now \in Nat /\ c.now =< now /\ now \in Time
  BY <1>1 DEF IdentityInv, Time, Call
<1>5. CASE taken(v)
  <2>1. UNCHANGED <<bindings, challenges>>
    BY <1>5 DEF Bind
  <2> QED
    BY <1>3, <1>4, <2>1, BindingsRest DEF IdentityInv
<1>6. CASE ~taken(v)
  <2>1. PICK d : d = newBinding(v)
    OBVIOUS
  <2>2. /\ Cardinality(allBindings) < MaxBindings
        /\ bindings' = [bindings EXCEPT ![i] = @ \cup {d}]
        /\ challenges' = [challenges EXCEPT ![c.challengeId] =
                            [c.challenge EXCEPT !.consumed = TRUE]]
    BY <1>1, <1>2, <1>6, <2>1 DEF Bind, addBinding, consume
  <2>3. Cardinality(allBindings) \in Nat
    BY FS_CardinalityType DEF IdentityInv
  <2>4. d \in NetworkIdentity /\ d.locator = c.challenge.locator
    <3>1. Cardinality(allBindings) + 1 \in 1..MaxBindings
      BY <2>2, <2>3
    <3> QED
      BY <1>1, <2>1, <3>1 DEF newBinding, NetworkIdentity, Call, Challenge
  <2>5. bindings' \in [Identities -> SUBSET NetworkIdentity]
    BY <2>2, <2>4 DEF IdentityInv
  <2>6. allBindings' \subseteq allBindings \cup {d}
    BY <2>2 DEF IdentityInv, allBindings
  <2>7. challenges' \in [Challenges -> Challenge \cup {None}]
    <3>1. [c.challenge EXCEPT !.consumed = TRUE] \in Challenge
      BY DEF Call, Challenge
    <3> QED
      BY <2>2, <3>1 DEF IdentityInv
  <2>8. ASSUME NEW b \in allBindings, active(b, now) PROVE b.locator # d.locator
    <3>1. b \in NetworkIdentity
      BY DEF IdentityInv, allBindings
    <3>2. active(b, c.now)
      BY <1>4, <2>8, <3>1, ActiveBefore
    <3> QED
      BY <1>1, <1>6, <2>4, <3>2 DEF taken
  <2> QED
    BY <1>3, <2>4, <2>5, <2>6, <2>7, <2>8, BindingIsAdded
<1> QED
  BY <1>5, <1>6

LEMMA IdentityInvariance == IdentitySpec => []IdentityInv
<1> USE RegistryConstants
<1>1. IdentityInit => IdentityInv
  <2> SUFFICES ASSUME IdentityInit PROVE IdentityInv
    OBVIOUS
  <2>1. allBindings = {}
    BY DEF IdentityInit, allBindings
  <2>2. IsFiniteSet(allBindings)
    BY <2>1, FS_EmptySet
  <2> QED
    BY <2>1, <2>2 DEF IdentityInit, IdentityInv, OneActiveBinding, Time
<1>2. IdentityInv /\ [IdentityNext]_identityVars => IdentityInv'
  <2> SUFFICES ASSUME IdentityInv, [IdentityNext]_identityVars PROVE IdentityInv'
    OBVIOUS
  <2>0. /\ now \in Nat /\ now \in Time
        /\ challenges \in [Challenges -> Challenge \cup {None}]
        /\ call \in [Callers -> Call \cup {None}]
    BY DEF IdentityInv, Time
  <2>1. ASSUME NEW c \in Challenges, NEW i \in Identities, NEW l \in Locators,
               NEW e \in Time, IssueChallenge(c, i, l, e)
        PROVE  IdentityInv'
    <3>1. PICK h : h = [identityId |-> i, locator |-> l, expiresAt |-> e,
                        consumed |-> FALSE]
      OBVIOUS
    <3>2. h \in Challenge
      BY <3>1 DEF Challenge
    <3>3. challenges' = [challenges EXCEPT ![c] = h] /\ UNCHANGED <<bindings, call, now>>
      BY <2>1, <3>1 DEF IssueChallenge
    <3> QED
      BY <2>0, <3>2, <3>3, BindingsRest
  <2>2. ASSUME NEW v \in Callers, NEW c \in Challenges, NEW e \in Time \cup {None},
               VerifyChallenge(v, c, e)
        PROVE  IdentityInv'
    <3>1. PICK h : h = [challengeId |-> c, challenge |-> challenges[c], now |-> now,
                        expiresAt |-> e]
      OBVIOUS
    <3>2. h \in Call /\ h.now = now
      BY <2>0, <2>2, <3>1 DEF Call, VerifyChallenge
    <3>3. call' = [call EXCEPT ![v] = h] /\ UNCHANGED <<bindings, challenges, now>>
      BY <2>2, <3>1 DEF VerifyChallenge
    <3> QED
      BY <2>0, <3>2, <3>3, BindingsRest
  <2>3. ASSUME NEW v \in Callers, Refuse(v) PROVE IdentityInv'
    BY <2>0, <2>3, BindingsRest DEF Refuse
  <2>4. ASSUME NEW v \in Callers, Bind(v) PROVE IdentityInv'
    BY <2>4, IdentityBinds
  <2>5. ASSUME NEW i \in Identities, NEW b \in bindings[i], RevokeBinding(i, b)
        PROVE  IdentityInv'
    <3>1. b \in NetworkIdentity
      BY DEF IdentityInv
    <3>2. PICK d : d = [b EXCEPT !.revoked = TRUE]
      OBVIOUS
    <3>3. d \in NetworkIdentity /\ d.revoked
      BY <3>1, <3>2 DEF NetworkIdentity
    <3>4. /\ bindings' = [bindings EXCEPT ![i] = (@ \ {b}) \cup {d}]
          /\ UNCHANGED <<challenges, call, now>>
      BY <2>5, <3>2 DEF RevokeBinding
    <3>5. bindings' \in [Identities -> SUBSET NetworkIdentity]
      BY <3>3, <3>4 DEF IdentityInv
    <3>6. allBindings' \subseteq allBindings \cup {d}
      BY <3>4 DEF IdentityInv, allBindings
    <3>7. ~active(d, now)
      BY <3>3 DEF active
    <3> QED
      BY <2>0, <3>3, <3>4, <3>5, <3>6, <3>7, BindingIsAdded
  <2>6. CASE IdentityTick
    <3>1. now' \in Time /\ now =< now'
      BY <2>0, <2>6 DEF IdentityTick, Time
    <3> QED
      BY <2>0, <2>6, <3>1, BindingsRest DEF IdentityTick
  <2>7. CASE UNCHANGED <<bindings, challenges, call, now>>
    BY <2>0, <2>7, BindingsRest
  <2> QED
    BY <2>1, <2>2, <2>3, <2>4, <2>5, <2>6, <2>7 DEF IdentityNext, identityVars,
                                                   CreateIdentity
<1> QED
  BY <1>1, <1>2, PTL DEF IdentitySpec

\* One active binding of a locator, however many calls overlap and however old
\* the time is that they search with.
THEOREM BindingCorrect == IdentitySpec => []OneActiveBinding
<1>1. IdentityInv => OneActiveBinding
  BY DEF IdentityInv
<1> QED
  BY <1>1, IdentityInvariance, PTL
-----------------------------------------------------------------------------
\* A nonempty set of natural numbers has a least element.
LEMMA LeastNumber ==
  ASSUME NEW T, T \subseteq Nat, T # {}
  PROVE  \E m \in T : \A k \in T : m =< k
<1>1. PICK m \in T : \A k \in T : ~(<<k, m>> \in OpToRel(<, Nat))
  BY WFMin, NatLessThanWellFounded
<1>2. \A k \in T : ~(k < m)
  BY <1>1 DEF OpToRel
<1> QED
  BY <1>2

\* Induction over the subsets of a finite set, for a property given as the
\* set P of those that have it.
LEMMA SubsetInduction ==
  ASSUME NEW S, IsFiniteSet(S), NEW P,
         \A t \in SUBSET S : (\A u \in SUBSET t : u # t => u \in P) => t \in P
  PROVE  \A t \in SUBSET S : t \in P
<1> DEFINE T == {Cardinality(t) : t \in {t \in SUBSET S : t \notin P}}
<1>1. \A t \in SUBSET S : IsFiniteSet(t) /\ Cardinality(t) \in Nat
  BY FS_Subset, FS_CardinalityType
<1>2. SUFFICES ASSUME T # {} PROVE FALSE
  OBVIOUS
<1>3. PICK m \in T : \A k \in T : m =< k
  <2>1. T \subseteq Nat
    BY <1>1
  <2> HIDE DEF T
  <2> QED
    BY <1>2, <2>1, LeastNumber
<1>4. PICK t \in SUBSET S : t \notin P /\ m = Cardinality(t)
  BY <1>3
<1>5. ASSUME NEW u \in SUBSET t, u # t PROVE u \in P
  <2>1. Cardinality(u) < Cardinality(t)
    BY <1>1, <1>5, FS_Subset
  <2>2. u \in SUBSET S /\ (u \notin P => Cardinality(u) \in T)
    OBVIOUS
  <2>3. Cardinality(u) \in Nat /\ Cardinality(t) \in Nat
    BY <1>1, <2>2
  <2> HIDE DEF T
  <2> QED
    BY <1>3, <1>4, <2>1, <2>2, <2>3
<1> QED
  BY <1>4, <1>5

LEMMA MaxIsElement ==
  ASSUME NEW S, S \subseteq Nat, IsFiniteSet(S)
  PROVE  \A t \in SUBSET S : t # {} => Max(t) \in t
<1> DEFINE P == {t \in SUBSET S : t # {} => \E x \in t : \A y \in t : x >= y}
<1>1. ASSUME NEW t \in SUBSET S, \A u \in SUBSET t : u # t => u \in P PROVE t \in P
  <2>1. SUFFICES ASSUME t # {} PROVE \E x \in t : \A y \in t : x >= y
    OBVIOUS
  <2>2. PICK z \in t : TRUE
    BY <2>1
  <2>3. t \ {z} \in P
    BY <1>1
  <2>4. CASE t \ {z} = {}
    <3>1. \A y \in t : z >= y
      BY <2>4
    <3> QED
      BY <3>1
  <2>5. CASE t \ {z} # {}
    <3>1. PICK x \in t \ {z} : \A y \in t \ {z} : x >= y
      BY <2>3, <2>5
    <3>2. x \in Nat /\ z \in Nat /\ \A y \in t : y = z \/ x >= y
      BY <3>1
    <3>3. CASE x >= z
      <4>1. \A y \in t : x >= y
        BY <3>2, <3>3
      <4> QED
        BY <4>1
    <3>4. CASE ~(x >= z)
      <4>1. ASSUME NEW y \in t PROVE z >= y
        <5>1. y \in Nat
          OBVIOUS
        <5> QED
          BY <3>2, <3>4, <5>1
      <4> QED
        BY <4>1
    <3> QED
      BY <3>3, <3>4
  <2> QED
    BY <2>4, <2>5
<1> HIDE DEF P
<1>2. \A t \in SUBSET S : t \in P
  BY <1>1, SubsetInduction
<1> QED
  BY <1>2 DEF P, Max
-----------------------------------------------------------------------------
\* The policy.  What the reduce over the matched rules comes to: the order of
\* the rules is irrelevant.
dominant(rules, s) ==
  LET met == {rules[n].outcome : n \in s}
  IN  IF "DENY" \in met THEN "DENY"
      ELSE IF "REQUIRES_APPROVAL" \in met THEN "REQUIRES_APPROVAL" ELSE "ALLOW"

\* Outcome o of the next rule against what was found so far.
stronger(o, before) == IF strength(o) > strength(before) THEN o ELSE before

isReduced(rules, S, g) ==
  g = [s \in SUBSET S |->
         IF s = {} THEN "ALLOW"
         ELSE stronger(rules[Max(s)].outcome, g[s \ {Max(s)}])]

LEMMA StrongestIsReduced ==
  ASSUME NEW rules, NEW S
  PROVE  strongest(rules, S) = (CHOOSE g : isReduced(rules, S, g))[S]
BY Zenon DEF strongest, MapThenFoldSet, isReduced, stronger

LEMMA DominantSteps ==
  ASSUME NEW rules, NEW s, NEW m \in s, \A n \in s : rules[n].outcome \in Outcome
  PROVE  dominant(rules, s) = stronger(rules[m].outcome, dominant(rules, s \ {m}))
<1>1. PICK o \in Outcome : o = rules[m].outcome
  OBVIOUS
<1>2. PICK met, rest : /\ met = {rules[n].outcome : n \in s}
                       /\ rest = {rules[n].outcome : n \in s \ {m}}
  OBVIOUS
<1>3. \A x : x \in met <=> x = o \/ x \in rest
  BY <1>1, <1>2
<1>4. /\ dominant(rules, s) =
           IF "DENY" \in met THEN "DENY"
           ELSE IF "REQUIRES_APPROVAL" \in met THEN "REQUIRES_APPROVAL" ELSE "ALLOW"
      /\ dominant(rules, s \ {m}) =
           IF "DENY" \in rest THEN "DENY"
           ELSE IF "REQUIRES_APPROVAL" \in rest THEN "REQUIRES_APPROVAL" ELSE "ALLOW"
  BY <1>2 DEF dominant
<1>5. /\ strength("DENY") = 3 /\ strength("REQUIRES_APPROVAL") = 2
      /\ strength("ALLOW") = 1
  BY DEF strength
<1> QED
  BY <1>1, <1>3, <1>4, <1>5 DEF stronger, Outcome

LEMMA StrongestIsDominant ==
  ASSUME NEW rules, NEW S, S \subseteq Nat, IsFiniteSet(S),
         \A n \in S : rules[n].outcome \in Outcome
  PROVE  strongest(rules, S) = dominant(rules, S)
<1>1. ASSUME NEW t \in SUBSET S, t # {}
      PROVE  /\ Max(t) \in t
             /\ dominant(rules, t) =
                  stronger(rules[Max(t)].outcome, dominant(rules, t \ {Max(t)}))
  <2>1. PICK m \in t : m = Max(t)
    BY <1>1, MaxIsElement
  <2>2. \A n \in t : rules[n].outcome \in Outcome
    OBVIOUS
  <2>3. dominant(rules, t) = stronger(rules[m].outcome, dominant(rules, t \ {m}))
    BY <2>2, DominantSteps, ZenonT(60)
  <2> QED
    BY <2>1, <2>3, Zenon
<1>2. dominant(rules, {}) = "ALLOW"
  BY DEF dominant
<1>3. isReduced(rules, S, [s \in SUBSET S |-> dominant(rules, s)])
  BY <1>1, <1>2 DEF isReduced
<1>4. PICK g : g = CHOOSE f : isReduced(rules, S, f)
  OBVIOUS
<1>5. isReduced(rules, S, g)
  BY <1>3, <1>4
<1> DEFINE P == {t \in SUBSET S : g[t] = dominant(rules, t)}
<1>6. ASSUME NEW t \in SUBSET S, \A u \in SUBSET t : u # t => u \in P PROVE t \in P
  <2> SUFFICES g[t] = dominant(rules, t)
    OBVIOUS
  <2>1. CASE t = {}
    BY <1>2, <1>5, <2>1 DEF isReduced
  <2>2. CASE t # {}
    <3>0. PICK m \in t : m = Max(t)
      BY <1>1, <2>2
    <3>1. PICK r : m = Max(t) /\ r = t \ {m}
      BY <3>0
    <3>2. r \in P
      BY <1>6, <3>1
    <3>3. g[t] = stronger(rules[m].outcome, g[r])
      BY <1>5, <2>2, <3>1 DEF isReduced
    <3>4. dominant(rules, t) = stronger(rules[m].outcome, dominant(rules, r))
      BY <1>1, <2>2, <3>1
    <3> QED
      BY <3>2, <3>3, <3>4
  <2> QED
    BY <2>1, <2>2
<1> HIDE DEF P
<1>7. S \in P
  BY <1>6, SubsetInduction
<1> QED
  BY <1>4, <1>7, StrongestIsReduced DEF P


\* evaluate of a version in force.
judgement(definition, input) ==
  LET met == outcomes(definition, input)
  IN  IF "DENY" \in met THEN "DENY"
      ELSE IF "REQUIRES_APPROVAL" \in met THEN "REQUIRES_APPROVAL"
      ELSE IF "ALLOW" \in met THEN "ALLOW"
      ELSE definition.defaultOutcome

LEMMA EvaluateIsJudgement ==
  ASSUME NEW p \in PolicyVersion, p.status = "ACTIVE", NEW input
  PROVE  evaluate(p, input) = judgement(p.definition, input)
<1>1. PICK d \in Definitions : d = p.definition
  BY DEF PolicyVersion
<1>2. PICK rules, S : rules = d.rules /\ S = matches(rules, input)
  OBVIOUS
<1>3. PICK n \in Nat : DOMAIN rules = 1..n
  <2>1. PICK T : rules \in Seq(T)
    BY <1>2, PolicyConstants, Zenon
  <2> QED
    BY <2>1
<1>4. S \subseteq Nat /\ IsFiniteSet(S)
  <2>1. S \subseteq 1..n
    BY <1>2, <1>3 DEF matches
  <2> QED
    <3>1. IsFiniteSet(1..n)
      BY FS_Interval
    <3>2. S \subseteq Nat
      BY <2>1
    <3>3. IsFiniteSet(S)
      BY <2>1, <3>1, FS_Subset, Zenon
    <3> QED
      BY <3>2, <3>3
<1>5. \A k \in S : rules[k].outcome \in Outcome
  BY <1>2, PolicyConstants DEF matches
<1>6. strongest(rules, S) = dominant(rules, S)
  BY <1>4, <1>5, StrongestIsDominant
<1>7. evaluate(p, input) = IF S = {} THEN d.defaultOutcome ELSE dominant(rules, S)
  BY <1>1, <1>2, <1>6 DEF evaluate
<1>8. PICK met : met = {rules[k].outcome : k \in S}
  OBVIOUS
<1>9. outcomes(d, input) = met
  BY <1>2, <1>8, Zenon DEF outcomes
<1>10. CASE S = {}
  <2>1. met = {}
    BY <1>8, <1>10
  <2>2. judgement(d, input) = d.defaultOutcome
    BY <1>9, <2>1 DEF judgement
  <2> QED
    BY <1>1, <1>7, <1>10, <2>2
<1>11. CASE S # {}
  <2>1. "DENY" \in met \/ "REQUIRES_APPROVAL" \in met \/ "ALLOW" \in met
    BY <1>5, <1>8, <1>11 DEF Outcome
  <2>2. dominant(rules, S) =
          IF "DENY" \in met THEN "DENY"
          ELSE IF "REQUIRES_APPROVAL" \in met THEN "REQUIRES_APPROVAL" ELSE "ALLOW"
    BY <1>8 DEF dominant
  <2> QED
    BY <1>1, <1>7, <1>9, <1>11, <2>1, <2>2 DEF judgement
<1> QED
  BY <1>10, <1>11

\* Version v is, or was, in force with definition d.
wasInForce(v, d) ==
  /\ v \in Versions /\ policies[v] \in PolicyVersion
  /\ policies[v].status # "DRAFT" /\ policies[v].definition = d

PolicyInv ==
  /\ policies \in [Versions -> PolicyVersion \cup {None}]
  /\ \A u, v \in activeVersions : u = v
  /\ preflight \in
       [Preflights -> [input : Inputs, version : Versions \cup {None},
                       policy : PolicyVersion \cup {None}] \cup {None}]
  /\ \A c \in Preflights : preflight[c] # None /\ preflight[c].version # None =>
       /\ preflight[c].policy \in PolicyVersion
       /\ preflight[c].policy.status = "ACTIVE"
       /\ wasInForce(preflight[c].version, preflight[c].policy.definition)
  /\ decided # None =>
       \/ decided.version = None /\ decided.outcome = "DENY"
       \/ /\ decided.version # None
          /\ \E d \in Definitions :
               /\ wasInForce(decided.version, d)
               /\ decided.outcome = judgement(d, decided.input)

\* The registry changes: what was in force stays known with its definition.
LEMMA PoliciesMove ==
  ASSUME PolicyInv, UNCHANGED <<preflight, decided>>,
         policies' \in [Versions -> PolicyVersion \cup {None}],
         \A u, v \in activeVersions' : u = v,
         \A v \in Versions : policies[v] \in PolicyVersion /\ policies[v].status # "DRAFT" =>
           /\ policies'[v] \in PolicyVersion /\ policies'[v].status # "DRAFT"
           /\ policies'[v].definition = policies[v].definition
  PROVE  PolicyInv'
<1>1. \A v, d : wasInForce(v, d) => wasInForce(v, d)'
  BY DEF wasInForce
<1> QED
  BY <1>1 DEF PolicyInv

LEMMA PolicyInvariance == PolicySpec => []PolicyInv
<1> USE PolicyConstants
<1>1. PolicyInit => PolicyInv
  BY DEF PolicyInit, PolicyInv, activeVersions
<1>2. PolicyInv /\ [PolicyNext]_policyVars => PolicyInv'
  <2> SUFFICES ASSUME PolicyInv, [PolicyNext]_policyVars PROVE PolicyInv'
    OBVIOUS
  <2>0. policies \in [Versions -> PolicyVersion \cup {None}]
    BY DEF PolicyInv
  <2>1. ASSUME NEW v \in Versions, NEW d \in Definitions,
               NEW s \in {"DRAFT", "ACTIVE", "RETIRED"}, Register(v, d, s)
        PROVE  PolicyInv'
    <3>1. PICK p : p = [status |-> s, definition |-> d]
      OBVIOUS
    <3>2. p \in PolicyVersion /\ p.status = s
      BY <3>1 DEF PolicyVersion
    <3>3. /\ policies[v] = None /\ policies' = [policies EXCEPT ![v] = p]
          /\ s = "ACTIVE" => activeVersions = {}
          /\ UNCHANGED <<preflight, decided>>
      BY <2>1, <3>1 DEF Register
    <3>4. \A u, w \in activeVersions' : u = w
      BY <2>0, <3>2, <3>3 DEF PolicyInv, activeVersions
    <3> QED
      BY <2>0, <3>2, <3>3, <3>4, PoliciesMove
  <2>2. ASSUME NEW v \in Versions, ActivateVersion(v) PROVE PolicyInv'
    <3>1. /\ policies[v] \in PolicyVersion
          /\ UNCHANGED <<preflight, decided>>
          /\ policies' = [u \in Versions |->
               IF u = v THEN [policies[v] EXCEPT !.status = "ACTIVE"]
               ELSE IF u \in activeVersions THEN [policies[u] EXCEPT !.status = "RETIRED"]
               ELSE policies[u]]
      BY <2>0, <2>2 DEF ActivateVersion
    <3>2. ASSUME NEW p \in PolicyVersion, NEW s \in {"ACTIVE", "RETIRED"}
          PROVE  /\ [p EXCEPT !.status = s] \in PolicyVersion
                 /\ [p EXCEPT !.status = s].status = s
                 /\ [p EXCEPT !.status = s].definition = p.definition
      BY DEF PolicyVersion
    <3>3. ASSUME NEW u \in Versions
          PROVE  /\ policies'[u] \in PolicyVersion \cup {None}
                 /\ u = v => policies'[u] \in PolicyVersion
                 /\ u # v => (policies'[u] = None \/ policies'[u].status # "ACTIVE")
                 /\ policies[u] \in PolicyVersion /\ policies[u].status # "DRAFT" =>
                      /\ policies'[u] \in PolicyVersion /\ policies'[u].status # "DRAFT"
                      /\ policies'[u].definition = policies[u].definition
      <4>1. CASE u = v
        BY <3>1, <3>2, <4>1
      <4>2. CASE u # v /\ u \in activeVersions
        <5>1. policies[u] \in PolicyVersion
          BY <2>0, <4>2 DEF activeVersions
        <5> QED
          BY <3>1, <3>2, <4>2, <5>1
      <4>3. CASE u # v /\ u \notin activeVersions
        BY <2>0, <3>1, <4>3 DEF activeVersions
      <4> QED
        BY <4>1, <4>2, <4>3
    <3>4. \A u, w \in activeVersions' : u = w
      BY <3>3 DEF activeVersions
    <3>5. policies' \in [Versions -> PolicyVersion \cup {None}]
      BY <3>1, <3>3
    <3> QED
      BY <3>1, <3>3, <3>4, <3>5, PoliciesMove
  <2>3. ASSUME NEW c \in Preflights, NEW i \in Inputs, GetActive(c, i) PROVE PolicyInv'
    <3>1. UNCHANGED <<policies, decided>>
      BY <2>3 DEF GetActive
    <3>2. ASSUME NEW v \in activeVersions,
                 preflight' = [preflight EXCEPT ![c] =
                   [input |-> i, version |-> v, policy |-> policies[v]]]
          PROVE  PolicyInv'
      <4>1. /\ v \in Versions /\ policies[v] \in PolicyVersion
            /\ policies[v].status = "ACTIVE"
        BY <2>0 DEF activeVersions
      <4>2. wasInForce(v, policies[v].definition)
        BY <4>1 DEF wasInForce
      <4>3. PICK r : r = [input |-> i, version |-> v, policy |-> policies[v]]
        OBVIOUS
      <4>4. /\ r \in [input : Inputs, version : Versions \cup {None},
                      policy : PolicyVersion \cup {None}]
            /\ r.version = v /\ r.policy = policies[v]
        BY <4>1, <4>3
      <4>5. preflight' = [preflight EXCEPT ![c] = r]
        BY <3>2, <4>3
      <4> QED
        BY <3>1, <4>1, <4>2, <4>4, <4>5 DEF PolicyInv, wasInForce, activeVersions
    <3>3. ASSUME preflight' = [preflight EXCEPT ![c] =
                   [input |-> i, version |-> None, policy |-> None]]
          PROVE  PolicyInv'
      <4>1. PICK r : r = [input |-> i, version |-> None, policy |-> None]
        OBVIOUS
      <4>2. /\ r \in [input : Inputs, version : Versions \cup {None},
                      policy : PolicyVersion \cup {None}]
            /\ r.version = None
        BY <4>1
      <4>3. preflight' = [preflight EXCEPT ![c] = r]
        BY <3>3, <4>1
      <4> QED
        BY <3>1, <4>2, <4>3 DEF PolicyInv, wasInForce, activeVersions
    <3> QED
      BY <2>3, <3>2, <3>3 DEF GetActive
  <2>4. ASSUME NEW c \in Preflights, Decide(c) PROVE PolicyInv'
    <3>1. PICK r \in [input : Inputs, version : Versions \cup {None},
                      policy : PolicyVersion \cup {None}] : r = preflight[c]
      BY <2>4 DEF Decide, PolicyInv
    <3>2. /\ UNCHANGED policies /\ preflight' = [preflight EXCEPT ![c] = None]
          /\ preflight[c] # None
          /\ decided' = [ input |-> r.input, version |-> r.version,
                          outcome |-> IF r.version = None THEN "DENY"
                                      ELSE evaluate(r.policy, r.input) ]
      BY <2>4, <3>1 DEF Decide
    <3>3. CASE r.version = None
      <4>1. decided'.version = None /\ decided'.outcome = "DENY"
        BY <3>2, <3>3
      <4> QED
        BY <3>2, <4>1 DEF PolicyInv, wasInForce, activeVersions
    <3>4. CASE r.version # None
      <4>1. /\ r.policy \in PolicyVersion /\ r.policy.status = "ACTIVE"
            /\ wasInForce(r.version, r.policy.definition)
        BY <3>1, <3>2, <3>4 DEF PolicyInv
      <4>2. PICK d \in Definitions : d = r.policy.definition
        BY <4>1 DEF PolicyVersion
      <4>3. /\ decided'.version = r.version /\ decided'.input = r.input
            /\ decided'.outcome = judgement(d, r.input)
        BY <3>2, <3>4, <4>1, <4>2, EvaluateIsJudgement
      <4>4. wasInForce(r.version, d)'
        BY <3>2, <4>1, <4>2 DEF wasInForce
      <4> QED
        BY <3>2, <3>4, <4>3, <4>4 DEF PolicyInv, wasInForce, activeVersions
    <3> QED
      BY <3>3, <3>4
  <2>5. CASE UNCHANGED policyVars
    BY <2>5 DEF policyVars, PolicyInv, wasInForce, activeVersions
  <2> QED
    BY <2>1, <2>2, <2>3, <2>4, <2>5 DEF PolicyNext
<1> QED
  BY <1>1, <1>2, PTL DEF PolicySpec

\* A decision can be repeated from its version and its input, and the order of
\* the rules is irrelevant, for any rules and any replacement of versions
\* during a preflight.
THEOREM DecisionCorrect == PolicySpec => []DecisionsAreReproducible
<1>1. PolicyInv => DecisionsAreReproducible
  <2> SUFFICES ASSUME PolicyInv, decided # None
               PROVE  IF decided.version = None THEN decided.outcome = "DENY"
                      ELSE /\ policies[decided.version].status # "DRAFT"
                           /\ decided.outcome =
                                judgement(policies[decided.version].definition,
                                          decided.input)
    BY DEF PolicyInv, DecisionsAreReproducible, judgement
  <2> QED
    BY DEF PolicyInv, wasInForce
<1> QED
  BY <1>1, PolicyInvariance, PTL
-----------------------------------------------------------------------------
\* The generic attestation.  The source network: a block that stays never
\* goes, and a rejected first submission was never taken.
SourceInv ==
  /\ network \in Networks
  /\ source \in [block : Blocks \cup {None}, depth : 0..MaxDepth, final : BOOLEAN]
  /\ source.block = None => source = Nowhere
  /\ network.networkType = "CANTON" /\ source.block # None => source.final
  /\ source.block # None => command = "accepted"
  /\ attempts \in Nat
  /\ attempts = 0 => command = "none"
  /\ attempts = 1 /\ answer = "REJECTED" => command = "none"
  /\ receipt \in [Observers -> Blocks \cup {None}]

\* A request: what honest validators were accepted with stays on the source
\* network, and after the signatures the honest ones of them have signed.
agreedOn(A) == Cardinality(A) >= Threshold /\ Cardinality({a[2] : a \in A}) = 1

requestIsSound(q, t, A) ==
  /\ q = None => t = 0 /\ A = {}
  /\ t = 0 => q = None
  /\ \A a \in A : a[1] \notin Faulty => stays /\ claimsOf[source.block] = q
  /\ t = Len(Validators) + 2 =>
       agreedOn(A) /\ \A a \in A : a[1] \notin Faulty => <<a[1], q>> \in signed

ServiceInv ==
  /\ record \in [claims : Claims, outcome : {"VERIFIED", "REJECTED"}] \cup {None}
  /\ asked \in [Observers -> Claims \cup {None}]
  /\ turn \in [Observers -> Nat]
  /\ accepted \in [Observers -> SUBSET (validatorIds \X (0..MaxDepth))]
  /\ \A o \in Observers : requestIsSound(asked[o], turn[o], accepted[o])
  /\ VerifiedIsSigned

AttestationInv == SourceInv /\ ServiceInv

LEMMA ValidatorsAreFinite == IsFiniteSet(validatorIds) /\ IsFiniteSet(Faulty)
<1>1. PICK n \in Nat : DOMAIN Validators = 1..n /\ n = Len(Validators)
  BY AttestationConstants
<1>2. Validators \in Surjection(1..n, validatorIds)
  <2>1. Validators \in [1..n -> validatorIds]
    BY <1>1, AttestationConstants
  <2> QED
    BY <1>1, <2>1 DEF Surjection, validatorIds
<1>3. IsFiniteSet(1..n)
  BY FS_Interval
<1>4. IsFiniteSet(validatorIds)
  BY <1>2, <1>3, FS_Surjection
<1> QED
  BY <1>4, AttestationConstants, FS_Subset

\* Agreement on one position means as many validators as acceptances, so one
\* of them is honest.
LEMMA OneIsHonest ==
  ASSUME ServiceInv, NEW o \in Observers, agreedOn(accepted[o])
  PROVE  \E a \in accepted[o] : a[1] \in validatorIds \ Faulty
<1>1. accepted[o] \subseteq validatorIds \X (0..MaxDepth)
  BY DEF ServiceInv
<1>2. PICK A, D : A = accepted[o] /\ D = {a[2] : a \in accepted[o]}
  OBVIOUS
<1>3. PICK p : D = {p}
  <2>1. D \subseteq 0..MaxDepth
    BY <1>1, <1>2
  <2>2. IsFiniteSet(0..MaxDepth)
    BY FS_Interval, FinalityConstants
  <2>3. IsFiniteSet(D)
    BY <2>1, <2>2, FS_Subset, Zenon
  <2>4. Cardinality(D) = 1
    BY <1>2 DEF agreedOn
  <2> QED
    BY <2>3, <2>4, FS_Singleton
<1>4. \A a \in A : a = <<a[1], p>> /\ a[1] \in validatorIds
  BY <1>1, <1>2, <1>3
<1>5. SUFFICES ASSUME \A a \in A : a[1] \in Faulty PROVE FALSE
  BY <1>2, <1>4
<1>6. PICK f : f = [a \in A |-> a[1]]
  OBVIOUS
<1>7. f \in Injection(A, Faulty)
  <2>1. f \in [A -> Faulty]
    BY <1>5, <1>6
  <2>2. \A a, b \in A : f[a] = f[b] => a = b
    BY <1>4, <1>6
  <2> QED
    BY <2>1, <2>2 DEF Injection, IsInjective
<1>8. Cardinality(A) =< Cardinality(Faulty) /\ IsFiniteSet(A)
  BY <1>7, ValidatorsAreFinite, FS_Injection
<1>9. Cardinality(A) \in Nat /\ Cardinality(Faulty) \in Nat
  BY <1>8, ValidatorsAreFinite, FS_CardinalityType
<1>10. Cardinality(A) >= Threshold /\ Cardinality(Faulty) < Threshold /\ Threshold \in Nat
  BY <1>2, AttestationConstants DEF agreedOn
<1> QED
  BY <1>8, <1>9, <1>10

\* A block that stays is a block, and stays.
LEMMA StaysInPlace ==
  ASSUME SourceInv, SourceMoves \/ UNCHANGED source, stays
  PROVE  stays' /\ source' # Nowhere /\ source'.block = source.block
                /\ source.block \in Blocks
<1> USE FinalityConstants
<1>1. source.block \in Blocks /\ source # Nowhere
  BY DEF SourceInv, stays, Nowhere
<1>2. CASE UNCHANGED source
  BY <1>1, <1>2 DEF stays
<1>3. CASE ChainMoves
  <2>1. CASE source' = [source EXCEPT !.depth = @ + 1]
    BY <1>1, <2>1 DEF SourceInv, stays, Nowhere
  <2>2. CASE source' = [source EXCEPT !.final = TRUE]
    BY <1>1, <2>2 DEF SourceInv, stays, Nowhere
  <2>3. ~source.final => ~(source.depth < MaxReorg)
    <3>1. source.depth \in Nat /\ MaxReorg \in Nat
      BY DEF SourceInv
    <3> QED
      BY <3>1 DEF stays
  <2> QED
    BY <1>3, <2>1, <2>2, <2>3 DEF ChainMoves
<1> QED
  BY <1>1, <1>2, <1>3 DEF SourceMoves, Connect, Submit, Include

\* The source network keeps its part.
LEMMA SourceStep ==
  ASSUME SourceInv, SourceMoves, UNCHANGED receipt PROVE SourceInv'
<1> USE FinalityConstants
<1>1. CASE Connect
  BY <1>1 DEF Connect, SourceInv
<1>2. CASE Submit
  <2>1. /\ attempts' = attempts + 1 /\ UNCHANGED <<network, source, receipt>>
        /\ command = "accepted" => command' = "accepted"
        /\ attempts \in Nat
    BY <1>2 DEF Submit, SourceInv
  <2>2. attempts = 0 /\ answer' = "REJECTED" => command' = "none"
    BY <1>2 DEF Submit, SourceInv, rejects, refusals
  <2> QED
    BY <2>1, <2>2 DEF SourceInv
<1>3. ASSUME NEW b \in Blocks, Include(b) PROVE SourceInv'
  <2>0. PICK f \in BOOLEAN : f = (network.networkType = "CANTON")
    BY Zenon
  <2>1. PICK s : s = [block |-> b, depth |-> 1, final |-> f]
    OBVIOUS
  <2>2. /\ s \in [block : Blocks \cup {None}, depth : 0..MaxDepth, final : BOOLEAN]
        /\ s.block = b /\ (network.networkType = "CANTON" => s.final)
    <3>1. /\ s \in [block : Blocks \cup {None}, depth : 0..MaxDepth, final : BOOLEAN]
          /\ s.block = b /\ s.final = f
      BY <2>1
    <3>2. network.networkType = "CANTON" => f
      BY <2>0
    <3> QED
      BY <3>1, <3>2, Zenon
  <2>3. source' = s /\ command = "accepted"
        /\ UNCHANGED <<network, command, attempts, answer, receipt>>
    BY <1>3, <2>0, <2>1 DEF Include, submission
  <2> QED
    BY <2>2, <2>3 DEF SourceInv
<1>4. CASE ChainMoves
  <2>1. /\ network.networkType = "EVM" /\ source.block # None
        /\ UNCHANGED <<network, command, attempts, answer, receipt>>
    BY <1>4 DEF ChainMoves, submission
  <2>2. CASE source.depth < MaxDepth /\ source' = [source EXCEPT !.depth = @ + 1]
    BY <2>1, <2>2 DEF SourceInv
  <2>3. CASE source' = [source EXCEPT !.final = TRUE]
    BY <2>1, <2>3 DEF SourceInv
  <2>4. CASE source' = Nowhere
    BY <2>1, <2>4 DEF SourceInv, Nowhere
  <2> QED
    BY <1>4, <2>2, <2>3, <2>4 DEF ChainMoves
<1> QED
  BY <1>1, <1>2, <1>3, <1>4 DEF SourceMoves

\* What is known of a request stays true: nothing that stays goes, and no
\* signature is withdrawn.
LEMMA RequestRests ==
  ASSUME SourceInv, SourceMoves \/ UNCHANGED source, signed \subseteq signed',
         NEW q, NEW t, NEW A, requestIsSound(q, t, A)
  PROVE  requestIsSound(q, t, A)'
<1>1. stays => stays' /\ source'.block = source.block
  BY StaysInPlace
<1> QED
  BY <1>1 DEF requestIsSound, agreedOn

\* A request goes on with claims q, at turn t, and with acceptances A.
LEMMA RequestMoves ==
  ASSUME AttestationInv, NEW o \in Observers, NEW q \in Claims \cup {None},
         NEW t \in Nat, NEW A \in SUBSET (validatorIds \X (0..MaxDepth)),
         asked' = [asked EXCEPT ![o] = q], turn' = [turn EXCEPT ![o] = t],
         accepted' = [accepted EXCEPT ![o] = A],
         requestIsSound(q, t, A)', UNCHANGED source, signed \subseteq signed',
         record' \in [claims : Claims, outcome : {"VERIFIED", "REJECTED"}] \cup {None},
         VerifiedIsSigned'
  PROVE  ServiceInv'
<1>1. /\ asked' \in [Observers -> Claims \cup {None}] /\ turn' \in [Observers -> Nat]
      /\ accepted' \in [Observers -> SUBSET (validatorIds \X (0..MaxDepth))]
      /\ asked'[o] = q /\ turn'[o] = t /\ accepted'[o] = A
      /\ \A u \in Observers \ {o} : /\ asked'[u] = asked[u] /\ turn'[u] = turn[u]
                                    /\ accepted'[u] = accepted[u]
  BY DEF AttestationInv, ServiceInv
<1>2. ASSUME NEW u \in Observers
      PROVE  requestIsSound(asked[u], turn[u], accepted[u])'
  <2>1. CASE u = o
    BY <1>1, <2>1 DEF requestIsSound
  <2>2. CASE u # o
    <3>1. requestIsSound(asked[u], turn[u], accepted[u])
      BY DEF AttestationInv, ServiceInv
    <3>2. PICK p, n, B : p = asked[u] /\ n = turn[u] /\ B = accepted[u]
      OBVIOUS
    <3>3. requestIsSound(p, n, B)'
      BY <3>1, <3>2, RequestRests DEF AttestationInv
    <3> QED
      BY <1>1, <2>2, <3>2, <3>3 DEF requestIsSound
  <2> QED
    BY <2>1, <2>2
<1> QED
  BY <1>1, <1>2 DEF ServiceInv

\* The service rests while the source network moves.
LEMMA ServiceRests ==
  ASSUME AttestationInv, SourceMoves \/ UNCHANGED source,
         UNCHANGED <<record, asked, turn, accepted, signed>>
  PROVE  ServiceInv'
<1>1. ASSUME NEW u \in Observers
      PROVE  requestIsSound(asked[u], turn[u], accepted[u])'
  <2>1. requestIsSound(asked[u], turn[u], accepted[u])
    BY DEF AttestationInv, ServiceInv
  <2>2. PICK p, n, B : p = asked[u] /\ n = turn[u] /\ B = accepted[u]
    OBVIOUS
  <2>3. requestIsSound(p, n, B)'
    BY <2>1, <2>2, RequestRests DEF AttestationInv
  <2> QED
    BY <2>2, <2>3 DEF requestIsSound
<1> QED
  BY <1>1 DEF AttestationInv, ServiceInv, VerifiedIsSigned

\* An observation that is accepted is of a block that stays.
LEMMA SatisfiedStays ==
  ASSUME SourceInv, NEW o \in Observers, receipt[o] # None, receipt[o] = source.block,
         "SATISFIED" \in assess(o)
  PROVE  stays
<1> USE FinalityConstants
<1>1. /\ network \in FinalityNetworkConfiguration /\ source.depth \in Nat
      /\ network.requireFinalizedTag \/ network.confirmations >= MaxReorg
      /\ MaxReorg \in Nat /\ network.confirmations \in Nat
  BY DEF SourceInv, FinalityNetworkConfiguration
<1>2. CASE network.networkType = "CANTON"
  BY <1>2 DEF SourceInv, stays
<1>3. CASE network.networkType # "CANTON"
  <2>1. network.networkType = "EVM"
    BY <1>1, <1>3 DEF FinalityNetworkConfiguration
  <2>2. evaluateEvm(receipt[o], receipt[o] = source.block) = "SATISFIED"
    <3>1. "SATISFIED" \in {evaluateEvm(receipt[o], receipt[o] = source.block)}
      BY <2>1 DEF assess
    <3> QED
      BY <3>1
  <2>3. /\ ~(source.depth < network.confirmations)
        /\ network.requireFinalizedTag => source.final
    BY <2>2 DEF evaluateEvm
  <2> QED
    BY <1>1, <2>3 DEF stays
<1> QED
  BY <1>2, <1>3

\* While the service works the source network is only looked at.
LEMMA SourceRests ==
  ASSUME SourceInv, UNCHANGED <<network, source, submission>>,
         receipt' \in [Observers -> Blocks \cup {None}]
  PROVE  SourceInv'
BY DEF SourceInv, submission

\* A request begins with nothing accepted.
LEMMA RequestBegins ==
  ASSUME AttestationInv, NEW o \in Observers, NEW c \in Claims, Request(o, c)
  PROVE  AttestationInv'
<1> USE AttestationConstants
<1>1. PICK l \in Nat : l = Len(Validators)
  OBVIOUS
<1>2. PICK t \in {1, l + 1}, A \in SUBSET (validatorIds \X (0..MaxDepth)) :
        turn' = [turn EXCEPT ![o] = t] /\ A = {}
  BY <1>1 DEF Request
<1>3. accepted' = [accepted EXCEPT ![o] = A] /\ asked' = [asked EXCEPT ![o] = c]
  BY <1>2 DEF Request, AttestationInv, ServiceInv, requestIsSound
<1>4. UNCHANGED <<network, source, submission, receipt, record, signed>>
  BY DEF Request, finalityVars
<1>5. requestIsSound(c, t, A)'
  <2>1. c # None /\ t # 0 /\ t # l + 2
    BY <1>1
  <2> QED
    BY <1>1, <1>2, <2>1 DEF requestIsSound
<1>6. VerifiedIsSigned'
  BY <1>4 DEF AttestationInv, ServiceInv, VerifiedIsSigned
<1>7. ServiceInv'
  <2>1. record' \in [claims : Claims, outcome : {"VERIFIED", "REJECTED"}] \cup {None}
    BY <1>4 DEF AttestationInv, ServiceInv
  <2>2. t \in Nat /\ c \in Claims \cup {None}
    OBVIOUS
  <2>3. signed \subseteq signed'
    BY <1>4
  <2> QED
    BY <1>2, <1>3, <1>4, <1>5, <1>6, <2>1, <2>2, <2>3, RequestMoves, Zenon
<1>8. SourceInv'
  BY <1>4, SourceRests DEF AttestationInv, SourceInv
<1> QED
  BY <1>7, <1>8 DEF AttestationInv

\* A validator's answer: at most one honest acceptance is added, of an event
\* that stays and says what was asked.
LEMMA ValidatorAnswers ==
  ASSUME AttestationInv, NEW o \in Observers, turn[o] \in DOMAIN Validators,
         NEW A \in SUBSET (validatorIds \X (0..MaxDepth)),
         \A a \in A \ accepted[o] :
           a[1] \notin Faulty => stays /\ claimsOf[source.block] = asked[o],
         accepted' = [accepted EXCEPT ![o] = A],
         turn' = [turn EXCEPT ![o] = @ + 1],
         UNCHANGED <<network, source, submission, record, asked, signed>>,
         receipt' \in [Observers -> Blocks \cup {None}]
  PROVE  AttestationInv'
<1> USE AttestationConstants
<1>1. PICK l \in Nat : l = Len(Validators) /\ DOMAIN Validators = 1..l
  OBVIOUS
<1>2. PICK t \in Nat, q \in Claims \cup {None} :
        t = turn[o] + 1 /\ q = asked[o] /\ t # 0 /\ t # l + 2
  BY <1>1 DEF AttestationInv, ServiceInv
<1>3. /\ asked' = [asked EXCEPT ![o] = q] /\ turn' = [turn EXCEPT ![o] = t]
      /\ q \in Claims
  BY <1>1, <1>2 DEF AttestationInv, ServiceInv, requestIsSound
<1>4. \A a \in A : a[1] \notin Faulty => stays /\ claimsOf[source.block] = q
  BY <1>2 DEF AttestationInv, ServiceInv, requestIsSound
<1>5. requestIsSound(q, t, A)'
  BY <1>1, <1>2, <1>3, <1>4 DEF requestIsSound, stays
<1>6. VerifiedIsSigned'
  BY DEF AttestationInv, ServiceInv, VerifiedIsSigned
<1>7. ServiceInv'
  <2>1. record' \in [claims : Claims, outcome : {"VERIFIED", "REJECTED"}] \cup {None}
    BY DEF AttestationInv, ServiceInv
  <2> QED
    BY <1>2, <1>3, <1>5, <1>6, <2>1, RequestMoves
<1>8. SourceInv'
  BY SourceRests DEF AttestationInv
<1> QED
  BY <1>7, <1>8 DEF AttestationInv

LEMMA HonestAnswer ==
  ASSUME AttestationInv, NEW o \in Observers, NEW v \in validatorIds,
         NEW outcome \in FinalityOutcome, Judge(o, v, outcome)
  PROVE  AttestationInv'
<1>1. /\ turn[o] \in DOMAIN Validators /\ turn' = [turn EXCEPT ![o] = @ + 1]
      /\ UNCHANGED <<network, source, submission, record, asked, signed>>
      /\ receipt' = [receipt EXCEPT ![o] = None]
      /\ receipt[o] # None /\ outcome \in assess(o)
  BY DEF Judge, isAsked, Assess
<1>2. receipt' \in [Observers -> Blocks \cup {None}]
  BY <1>1 DEF AttestationInv, SourceInv
<1>3. /\ accepted[o] \in SUBSET (validatorIds \X (0..MaxDepth))
      /\ accepted = [accepted EXCEPT ![o] = accepted[o]]
  BY DEF AttestationInv, ServiceInv
<1>4. CASE observationMatches(asked[o], receipt[o], receipt[o] = source.block, outcome)
  <2>1. receipt[o] = source.block /\ claimsOf[source.block] = asked[o]
        /\ outcome = "SATISFIED"
    BY <1>4 DEF observationMatches
  <2>2. stays
    BY <1>1, <2>1, SatisfiedStays DEF AttestationInv
  <2>3. source.depth \in 0..MaxDepth
    BY DEF AttestationInv, SourceInv
  <2>4. PICK A : A = accepted[o] \cup {<<v, source.depth>>}
    OBVIOUS
  <2>5. A \in SUBSET (validatorIds \X (0..MaxDepth))
    <3>1. <<v, source.depth>> \in validatorIds \X (0..MaxDepth)
      BY <2>3
    <3> QED
      BY <1>3, <2>4, <3>1, Zenon
  <2>6. accepted' = [accepted EXCEPT ![o] = A]
    BY <1>4, <2>4 DEF Judge
  <2>7. \A a \in A \ accepted[o] :
          a[1] \notin Faulty => stays /\ claimsOf[source.block] = asked[o]
    BY <2>1, <2>2
  <2> QED
    BY <1>1, <1>2, <2>5, <2>6, <2>7, ValidatorAnswers
<1>5. CASE ~observationMatches(asked[o], receipt[o], receipt[o] = source.block, outcome)
  <2>1. PICK A \in SUBSET (validatorIds \X (0..MaxDepth)) : A = accepted[o]
    BY <1>3
  <2>2. accepted' = [accepted EXCEPT ![o] = A]
    BY <1>3, <1>5, <2>1 DEF Judge
  <2> QED
    BY <1>1, <1>2, <2>1, <2>2, ValidatorAnswers
<1> QED
  BY <1>4, <1>5

LEMMA OtherAnswer ==
  ASSUME AttestationInv, NEW o \in Observers, NEW v \in validatorIds,
         Missing(o, v) \/ ObserveFaulty(o, v)
  PROVE  AttestationInv'
<1>1. /\ turn[o] \in DOMAIN Validators /\ turn' = [turn EXCEPT ![o] = @ + 1]
      /\ UNCHANGED <<network, source, submission, record, asked, signed>>
      /\ receipt' = [receipt EXCEPT ![o] = None] \/ receipt' = receipt
  BY DEF Missing, ObserveFaulty, isAsked, finalityVars
<1>2. receipt' \in [Observers -> Blocks \cup {None}]
  BY <1>1 DEF AttestationInv, SourceInv
<1>3. /\ accepted[o] \in SUBSET (validatorIds \X (0..MaxDepth))
      /\ accepted = [accepted EXCEPT ![o] = accepted[o]]
  BY DEF AttestationInv, ServiceInv
<1>4. CASE Missing(o, v)
  <2>1. PICK A \in SUBSET (validatorIds \X (0..MaxDepth)) : A = accepted[o]
    BY <1>3
  <2>2. accepted' = [accepted EXCEPT ![o] = A]
    BY <1>3, <1>4, <2>1 DEF Missing
  <2> QED
    BY <1>1, <1>2, <2>1, <2>2, ValidatorAnswers
<1>5. CASE ObserveFaulty(o, v)
  <2>1. PICK p \in 1..MaxDepth : accepted' = [accepted EXCEPT ![o] = @ \cup {<<v, p>>}]
    BY <1>5 DEF ObserveFaulty
  <2>2. PICK A : A = accepted[o] \cup {<<v, p>>}
    OBVIOUS
  <2>3. A \in SUBSET (validatorIds \X (0..MaxDepth))
    <3>1. p \in 0..MaxDepth
      BY FinalityConstants
    <3>2. <<v, p>> \in validatorIds \X (0..MaxDepth)
      BY <3>1
    <3> QED
      BY <1>3, <2>2, <3>2, Zenon
  <2>4. accepted' = [accepted EXCEPT ![o] = A] /\ v \in Faulty
    BY <1>5, <2>1, <2>2 DEF ObserveFaulty
  <2>5. \A a \in A \ accepted[o] :
          a[1] \notin Faulty => stays /\ claimsOf[source.block] = asked[o]
    BY <2>2, <2>4
  <2> QED
    BY <1>1, <1>2, <2>3, <2>4, <2>5, ValidatorAnswers
<1> QED
  BY <1>4, <1>5

\* An honest validator begins to look.
LEMMA ValidatorLooks ==
  ASSUME AttestationInv, NEW o \in Observers, NEW v \in validatorIds, Observe(o, v)
  PROVE  AttestationInv'
<1>1. /\ receipt' = [receipt EXCEPT ![o] = source.block]
      /\ UNCHANGED <<network, source, submission>>
      /\ UNCHANGED <<record, asked, turn, accepted, signed>>
  BY DEF Observe, GetReceipt, serviceVars, request
<1>2. receipt' \in [Observers -> Blocks \cup {None}]
  BY <1>1 DEF AttestationInv, SourceInv
<1> QED
  BY <1>1, <1>2, SourceRests, ServiceRests DEF AttestationInv

\* The signatures: the honest ones are among them from now on.
LEMMA ValidatorsSign ==
  ASSUME AttestationInv, NEW o \in Observers, Sign(o)
  PROVE  AttestationInv'
<1> USE AttestationConstants
<1>0. PICK q, A : q = asked[o] /\ A = accepted[o]
  OBVIOUS
<1>1. PICK l \in Nat : l = Len(Validators)
  OBVIOUS
<1>2. PICK t \in Nat : t = l + 2 /\ turn[o] = l + 1
  BY <1>1 DEF Sign
<1>3. /\ asked' = [asked EXCEPT ![o] = q] /\ turn' = [turn EXCEPT ![o] = t]
      /\ accepted' = [accepted EXCEPT ![o] = A]
  BY <1>0, <1>1, <1>2 DEF Sign, AttestationInv, ServiceInv
<1>4. /\ signed' = signed \cup ({a[1] : a \in A} \ Faulty) \X {q}
      /\ UNCHANGED <<network, source, submission, receipt, record>>
  BY <1>0 DEF Sign, finalityVars
<1>5. q \in Claims \cup {None} /\ A \in SUBSET (validatorIds \X (0..MaxDepth))
      /\ requestIsSound(q, turn[o], A)
  BY <1>0 DEF AttestationInv, ServiceInv
<1>6. requestIsSound(q, t, A)'
  <2>1. q # None
    BY <1>2, <1>5 DEF requestIsSound
  <2>2. agreedOn(A)
    BY <1>0 DEF Sign, agreed, agreedOn
  <2>3. \A a \in A : a[1] \notin Faulty => <<a[1], q>> \in signed'
    BY <1>4
  <2>4. \A a \in A : a[1] \notin Faulty => stays' /\ claimsOf[source'.block] = q
    BY <1>4, <1>5 DEF requestIsSound, stays
  <2> QED
    BY <1>1, <1>2, <2>1, <2>2, <2>3, <2>4 DEF requestIsSound, agreedOn
<1>7. signed \subseteq signed'
  BY <1>4
<1>8. VerifiedIsSigned'
  BY <1>4, <1>7 DEF AttestationInv, ServiceInv, VerifiedIsSigned
<1>9. ServiceInv'
  <2>1. record' \in [claims : Claims, outcome : {"VERIFIED", "REJECTED"}] \cup {None}
    BY <1>4 DEF AttestationInv, ServiceInv
  <2> QED
    BY <1>3, <1>4, <1>5, <1>6, <1>7, <1>8, <2>1, RequestMoves, Zenon
<1> QED
  BY <1>4, <1>9, SourceRests DEF AttestationInv, SourceInv

\* The end of a request, whatever it leaves behind.
LEMMA RequestEnds ==
  ASSUME AttestationInv, NEW o \in Observers, Leave(o),
         UNCHANGED <<network, source, submission, signed>>,
         receipt' \in [Observers -> Blocks \cup {None}],
         record' \in [claims : Claims, outcome : {"VERIFIED", "REJECTED"}] \cup {None},
         VerifiedIsSigned'
  PROVE  AttestationInv'
<1>1. PICK A \in SUBSET (validatorIds \X (0..MaxDepth)), q \in Claims \cup {None},
           t \in Nat : A = {} /\ q = None /\ t = 0
  OBVIOUS
<1>2. /\ asked' = [asked EXCEPT ![o] = q] /\ turn' = [turn EXCEPT ![o] = t]
      /\ accepted' = [accepted EXCEPT ![o] = A]
  BY <1>1 DEF Leave
<1>3. requestIsSound(q, t, A)'
  <2>1. PICK l \in Nat : l = Len(Validators)
    BY AttestationConstants
  <2> QED
    BY <1>1, <2>1 DEF requestIsSound
<1>4. signed \subseteq signed'
  OBVIOUS
<1>5. ServiceInv'
  BY <1>2, <1>3, <1>4, RequestMoves, Zenon
<1> QED
  BY <1>5, SourceRests DEF AttestationInv

\* The record is of claims that an honest validator signed.
LEMMA RecordSaved ==
  ASSUME AttestationInv, NEW o \in Observers, Save(o)
  PROVE  AttestationInv'
<1> USE AttestationConstants
<1>1. /\ Leave(o) /\ UNCHANGED <<network, source, submission, receipt, signed>>
  BY DEF Save, finalityVars
<1>2. receipt' \in [Observers -> Blocks \cup {None}]
  BY <1>1 DEF AttestationInv, SourceInv
<1>3. requestIsSound(asked[o], turn[o], accepted[o]) /\ asked[o] \in Claims \cup {None}
  BY DEF AttestationInv, ServiceInv
<1>4. PICK l \in Nat : l = Len(Validators)
  OBVIOUS
<1>5. asked[o] \in Claims
  BY <1>3, <1>4 DEF Save, requestIsSound
<1>6. CASE record # None
  <2>1. record' = record
    BY <1>6 DEF Save
  <2> QED
    BY <1>1, <1>2, <2>1, RequestEnds DEF AttestationInv, ServiceInv, VerifiedIsSigned
<1>7. CASE record = None
  <2>1. PICK r : r = [ claims |-> asked[o],
                       outcome |-> IF agreed(o) THEN "VERIFIED" ELSE "REJECTED" ]
    OBVIOUS
  <2>2. record' = r /\ r \in [claims : Claims, outcome : {"VERIFIED", "REJECTED"}]
        /\ r.claims = asked[o] /\ (r.outcome = "VERIFIED" => agreed(o))
    BY <1>5, <1>7, <2>1 DEF Save
  <2>3. VerifiedIsSigned'
    <3>1. SUFFICES ASSUME agreed(o)
                   PROVE  \E v \in validatorIds \ Faulty : <<v, asked[o]>> \in signed
      BY <1>1, <2>2 DEF VerifiedIsSigned
    <3>2. PICK a \in accepted[o] : a[1] \in validatorIds \ Faulty
      BY <3>1, OneIsHonest DEF agreed, agreedOn, AttestationInv
    <3>3. turn[o] = Len(Validators) + 2
      BY <3>1 DEF Save
    <3> QED
      BY <1>3, <3>2, <3>3 DEF requestIsSound
  <2> QED
    BY <1>1, <1>2, <2>2, <2>3, RequestEnds
<1> QED
  BY <1>6, <1>7

LEMMA RequestAbandoned ==
  ASSUME AttestationInv, NEW o \in Observers, Abandon(o)
  PROVE  AttestationInv'
<1>1. /\ Leave(o) /\ UNCHANGED <<network, source, submission, signed, record>>
      /\ receipt' = [receipt EXCEPT ![o] = None]
  BY DEF Abandon
<1>2. receipt' \in [Observers -> Blocks \cup {None}]
  BY <1>1 DEF AttestationInv, SourceInv
<1>3. /\ record' \in [claims : Claims, outcome : {"VERIFIED", "REJECTED"}] \cup {None}
      /\ VerifiedIsSigned'
  BY <1>1 DEF AttestationInv, ServiceInv, VerifiedIsSigned
<1> QED
  BY <1>1, <1>2, <1>3, RequestEnds

LEMMA AttestationInvariance == Spec => []AttestationInv
<1>1. Init => AttestationInv
  <2> SUFFICES ASSUME Init PROVE AttestationInv
    OBVIOUS
  <2>1. SourceInv
    BY FinalityConstants DEF Init, FinalityInit, SourceInv, Nowhere
  <2>2. PICK l \in Nat : l = Len(Validators)
    BY AttestationConstants
  <2>3. ServiceInv
    BY <2>2 DEF Init, ServiceInv, requestIsSound, VerifiedIsSigned
  <2> QED
    BY <2>1, <2>3 DEF AttestationInv
<1>2. AttestationInv /\ [Next]_vars => AttestationInv'
  <2> SUFFICES ASSUME AttestationInv, [Next]_vars PROVE AttestationInv'
    OBVIOUS
  <2>1. CASE SourceMoves /\ UNCHANGED serviceVars
    <3>1. UNCHANGED receipt /\ UNCHANGED <<record, asked, turn, accepted, signed>>
      BY <2>1 DEF serviceVars, request, SourceMoves, Connect, Submit, Include, ChainMoves
    <3> QED
      BY <2>1, <3>1, SourceStep, ServiceRests DEF AttestationInv
  <2>2. CASE Tick \/ UNCHANGED vars
    <3>1. UNCHANGED <<network, source, submission, receipt>>
          /\ UNCHANGED <<record, asked, turn, accepted, signed>>
      BY <2>2 DEF Tick, vars, finalityVars, serviceVars, request
    <3>2. receipt' \in [Observers -> Blocks \cup {None}]
      BY <3>1 DEF AttestationInv, SourceInv
    <3> QED
      BY <3>1, <3>2, SourceRests, ServiceRests DEF AttestationInv
  <2>3. ASSUME NEW o \in Observers,
               \/ \E c \in Claims : Request(o, c)
               \/ \E v \in validatorIds :
                    \/ Observe(o, v) \/ Missing(o, v) \/ ObserveFaulty(o, v)
                    \/ \E outcome \in FinalityOutcome : Judge(o, v, outcome)
               \/ Sign(o) \/ Save(o) \/ Abandon(o)
        PROVE  AttestationInv'
    BY <2>3, RequestBegins, ValidatorLooks, OtherAnswer, HonestAnswer, ValidatorsSign,
       RecordSaved, RequestAbandoned
  <2> QED
    BY <2>1, <2>2, <2>3 DEF Next
<1> QED
  BY <1>1, <1>2, PTL DEF Spec

\* A rejection of the first submission is definite, whatever the network and
\* the observers do later.
THEOREM RejectionCorrect == Spec => []FirstRejectionIsDefinite
<1>1. AttestationInv => FirstRejectionIsDefinite
  BY DEF AttestationInv, SourceInv, FirstRejectionIsDefinite
<1> QED
  BY <1>1, AttestationInvariance, PTL

\* However requests for one id race, a VERIFIED record is of claims that an
\* honest validator signed.
THEOREM VerificationCorrect == Spec => []VerifiedIsSigned
<1>1. AttestationInv => VerifiedIsSigned
  BY DEF AttestationInv, ServiceInv
<1> QED
  BY <1>1, AttestationInvariance, PTL

\* The source network takes no step of the promise, or settles.
LEMMA SourceSettles ==
  ASSUME AttestationInv, SourceMoves, UNCHANGED signed
  PROVE  Promise!SourceNext \/ UNCHANGED Promise!sourceVars
<1> USE AttestationConstants
<1>1. PICK s, t : /\ s = (IF stays THEN claimsOf[source.block] ELSE None)
                  /\ t = (IF stays THEN claimsOf[source.block] ELSE None)'
  OBVIOUS
<1>2. CASE stays
  <2>1. t = s
    BY <1>1, <1>2, StaysInPlace DEF AttestationInv
  <2> QED
    BY <1>1, <2>1 DEF Promise!sourceVars
<1>3. CASE ~stays /\ ~stays'
  <2>1. s = None /\ t = None
    BY <1>1, <1>3
  <2> QED
    BY <1>1, <2>1 DEF Promise!sourceVars
<1>4. CASE ~stays /\ stays'
  <2>1. UNCHANGED receipt
    BY DEF SourceMoves, Connect, Submit, Include, ChainMoves
  <2>2. SourceInv'
    BY <2>1, SourceStep DEF AttestationInv
  <2>3. source'.block \in Blocks
    BY <1>4, <2>2, FinalityConstants DEF SourceInv, stays, Nowhere
  <2>4. s = None /\ t \in Claims
    BY <1>1, <1>4, <2>3
  <2>5. Promise!Settle(t)
    BY <1>1, <2>4 DEF Promise!Settle
  <2> QED
    BY <2>4, <2>5 DEF Promise!SourceNext
<1> QED
  BY <1>2, <1>3, <1>4

\* The signatures of a request are an attestation of what has settled: an
\* honest validator was accepted.
LEMMA SignIsAttest ==
  ASSUME AttestationInv, NEW o \in Observers, Sign(o)
  PROVE  Promise!SourceNext
<1>1. PICK a \in accepted[o] : a[1] \in validatorIds \ Faulty
  BY OneIsHonest DEF Sign, agreed, agreedOn, AttestationInv
<1>2. stays /\ claimsOf[source.block] = asked[o]
  BY <1>1 DEF AttestationInv, ServiceInv, requestIsSound
<1>3. PICK honest, c : honest = {b[1] : b \in accepted[o]} \ Faulty /\ c = asked[o]
  OBVIOUS
<1>4. honest \in SUBSET (validatorIds \ Faulty)
  BY <1>3 DEF AttestationInv, ServiceInv
<1>5. c \in Claims
  <2>1. source.block \in Blocks
    BY <1>2, FinalityConstants DEF AttestationInv, SourceInv, stays, Nowhere
  <2> QED
    BY <1>2, <1>3, <2>1, AttestationConstants
<1>6. Promise!Attest(honest, c)
  <2>1. signed' = signed \cup (honest \X {c}) /\ UNCHANGED source
    BY <1>3 DEF Sign, finalityVars
  <2> QED
    BY <1>2, <1>3, <2>1 DEF Promise!Attest, stays
<1> QED
  BY <1>4, <1>5, <1>6 DEF Promise!SourceNext

\* The service keeps the promise that the workflow engine is built on: the
\* source settles once, and honest validators sign nothing but what it has
\* settled on, for any validators, observers, reorganizations and requests.
THEOREM PromiseKept == Spec => KeepsPromise
<1>1. Init => Promise!SourceInit
  <2> SUFFICES ASSUME Init PROVE Promise!SourceInit
    OBVIOUS
  <2>1. ~stays
    BY FinalityConstants DEF Init, FinalityInit, Nowhere, stays
  <2> QED
    BY <2>1 DEF Init, Promise!SourceInit
<1>2. AttestationInv /\ [Next]_vars
        => [Promise!SourceNext]_(Promise!sourceVars)
  <2> SUFFICES ASSUME AttestationInv, [Next]_vars
               PROVE  Promise!SourceNext \/ UNCHANGED Promise!sourceVars
    OBVIOUS
  <2>1. CASE SourceMoves /\ UNCHANGED serviceVars
    BY <2>1, SourceSettles DEF serviceVars
  <2>2. CASE UNCHANGED <<source, signed>>
    BY <2>2 DEF Promise!sourceVars, stays
  <2>3. ASSUME NEW o \in Observers, Sign(o) PROVE Promise!SourceNext
    BY <2>3, SignIsAttest
  <2>4. CASE Tick \/ UNCHANGED vars
    BY <2>2, <2>4 DEF Tick, vars, finalityVars, serviceVars
  <2>5. ASSUME NEW o \in Observers,
               \/ \E c \in Claims : Request(o, c)
               \/ \E v \in validatorIds :
                    \/ Observe(o, v) \/ Missing(o, v) \/ ObserveFaulty(o, v)
                    \/ \E outcome \in FinalityOutcome : Judge(o, v, outcome)
               \/ Save(o) \/ Abandon(o)
        PROVE  UNCHANGED <<source, signed>>
    BY <2>5 DEF Request, Observe, GetReceipt, Missing, ObserveFaulty, Judge, Assess,
       Save, Abandon, finalityVars, serviceVars
  <2> QED
    BY <2>1, <2>2, <2>3, <2>4, <2>5 DEF Next
<1> QED
  BY <1>1, <1>2, AttestationInvariance, PTL DEF Spec, KeepsPromise, Promise!SourceSpec
=============================================================================
