----------------------- MODULE NetworkContractsProofs -----------------------
(***************************************************************************)
(* The contracts on the two networks, for any number of operations,        *)
(* assets, validators and attestations: what the Ethereum gateway executes *)
(* and what the Canton workflow releases.                                  *)
(*                                                                         *)
(* The gateway's argument is a count: the signers of an execution are in   *)
(* strictly increasing order, so they are as many validators as            *)
(* signatures, and more than the faulty ones.                              *)
(***************************************************************************)
EXTENDS Gateway, DamlInterop, FiniteSetTheorems, TLAPS

-----------------------------------------------------------------------------
\* A nonempty set of natural numbers has a least element.
LEMMA LeastNumber ==
  ASSUME NEW T, T \subseteq Nat, T # {}
  PROVE  \E m \in T : \A k \in T : m =< k
<1>1. PICK m \in T : \A k \in T : ~(<<k, m>> \in OpToRel(<, Nat))
  BY WFMin, NatLessThanWellFounded
<1>2. \A k \in T : ~(k < m)
  BY <1>1 DEF OpToRel
<1> QED
  BY <1>2

\* What a sequence holds is of its type.
LEMMA ElementType ==
  ASSUME NEW S, NEW s \in Seq(S), NEW n \in 1..Len(s) PROVE s[n] \in S
OBVIOUS

\* The loop of verify compares neighbours only; an element is nevertheless
\* greater than all before it: look at the first one that is not.
LEMMA Increasing ==
  ASSUME NEW n \in Nat, NEW f \in [1..n -> Nat], \A k \in 2..n : f[k] > f[k - 1],
         NEW i \in 1..n, NEW j \in 1..n, i < j
  PROVE  f[i] < f[j]
<1> DEFINE T == {k \in (i + 1)..n : ~(f[i] < f[k])}
<1>1. SUFFICES ASSUME T # {} PROVE FALSE
  <2>1. j \in (i + 1)..n
    OBVIOUS
  <2> QED
    BY <2>1
<1>2. PICK m \in T : \A k \in T : m =< k
  <2>1. T \subseteq Nat
    OBVIOUS
  <2> HIDE DEF T
  <2> QED
    BY <1>1, <2>1, LeastNumber
<1>3. m \in (i + 1)..n /\ ~(f[i] < f[m]) /\ f[m] > f[m - 1]
  BY <1>2
<1>4. CASE m = i + 1
  BY <1>3, <1>4
<1>5. CASE m # i + 1
  <2>1. m - 1 \in (i + 1)..n /\ m - 1 \notin T
    BY <1>2, <1>3, <1>5
  <2>2. f[i] < f[m - 1] /\ f[i] \in Nat /\ f[m - 1] \in Nat /\ f[m] \in Nat
    BY <1>3, <2>1
  <2> QED
    BY <1>3, <2>2
<1> QED
  BY <1>4, <1>5

\* Validators that do not all follow the protocol, but do not reach the
\* threshold without one that does: an execution that verifies is what the
\* source network finalized.
LEMMA VerifiedIsFinal ==
  ASSUME isValidator \subseteq Addresses, threshold \in Nat,
         trusted(isValidator, threshold),
         NEW x, NEW signers \in Signers, verify(x, signers)
  PROVE  event[x.op] = [effect |-> x.effect, asset |-> x.asset, amount |-> x.amount]
<1>1. PICK n \in Nat : signers \in [1..n -> Addresses]
  BY GatewayConstants DEF Signers, BoundedSeq, SeqOf
<1>2. /\ n >= threshold
      /\ \A i \in 2..n : signers[i] > signers[i - 1]
      /\ \A i \in 1..n : signers[i] \in isValidator /\ maySign(signers[i], x)
  BY <1>1 DEF verify, inOrder
<1>3. SUFFICES ASSUME \A i \in 1..n : signers[i] \in Faulty PROVE FALSE
  BY <1>2 DEF maySign
<1> DEFINE corrupt == isValidator \cap Faulty
<1>4. signers \in Injection(1..n, corrupt)
  <2>1. signers \in [1..n -> corrupt]
    BY <1>1, <1>2, <1>3
  <2>2. signers \in [1..n -> Nat]
    BY <1>1, GatewayConstants
  <2>3. ASSUME NEW i \in 1..n, NEW j \in 1..n, i < j PROVE signers[i] # signers[j]
    <3>1. signers[i] < signers[j]
      BY <1>2, <2>2, <2>3, Increasing
    <3>2. signers[i] \in Nat /\ signers[j] \in Nat
      BY <2>2
    <3> QED
      BY <3>1, <3>2
  <2>4. ASSUME NEW i \in 1..n, NEW j \in 1..n, signers[i] = signers[j] PROVE i = j
    <3>1. i < j \/ j < i \/ i = j
      OBVIOUS
    <3> QED
      BY <2>3, <2>4, <3>1
  <2> HIDE DEF corrupt
  <2> QED
    BY <2>1, <2>4 DEF Injection, IsInjective
<1>5. IsFiniteSet(corrupt)
  BY GatewayConstants, FS_Subset
<1>6. Cardinality(1..n) = n
  BY FS_Interval
<1>7. Cardinality(1..n) =< Cardinality(corrupt) /\ Cardinality(corrupt) \in Nat
  <2> HIDE DEF corrupt
  <2> QED
    BY <1>4, <1>5, FS_Injection, FS_CardinalityType
<1>8. Cardinality(corrupt) < threshold
  BY DEF trusted
<1> QED
  BY <1>2, <1>6, <1>7, <1>8
-----------------------------------------------------------------------------
\* The gateway.  What is not processed was not done.
UnprocessedIsUndone ==
  \A o \in Ops, e \in Effect : <<o, e>> \notin processed => executed[o][e] = <<>>

GatewayInv ==
  /\ TypeOK
  /\ trusted(isValidator, threshold)
  /\ UnprocessedIsUndone
  /\ ExecutedAsObserved

\* An effect that was not processed takes place once; a mint or a release
\* has to be what the source network finalized.
LEMMA EffectTakesPlace ==
  ASSUME GatewayInv, NEW o \in Ops, NEW e \in Effect, NEW a \in Assets,
         NEW n \in Amounts, consume(o, e), done(o, e, a, n),
         e # "BURN" => event[o] = [effect |-> e, asset |-> a, amount |-> n],
         UNCHANGED event
  PROVE  /\ processed' \subseteq Ops \X Effect
         /\ executed' \in [Ops -> [Effect -> Seq([asset : Assets, amount : Amounts])]]
         /\ UnprocessedIsUndone' /\ ExecutedAsObserved'
<1> DEFINE r == [asset |-> a, amount |-> n]
           row == [executed[o] EXCEPT ![e] = Append(executed[o][e], r)]
<1>1. executed[o][e] = <<>> /\ processed' = processed \cup {<<o, e>>}
  BY DEF consume, GatewayInv, UnprocessedIsUndone
<1>2. executed' = [executed EXCEPT ![o] = row]
  BY DEF done, GatewayInv, TypeOK
<1>3. r \in [asset : Assets, amount : Amounts] /\ r.asset = a /\ r.amount = n
  OBVIOUS
<1> HIDE DEF r
<1>4. /\ Append(executed[o][e], r) \in Seq([asset : Assets, amount : Amounts])
      /\ Len(Append(executed[o][e], r)) = 1
      /\ DOMAIN Append(executed[o][e], r) = {1}
      /\ Append(executed[o][e], r)[1] = r
  <2>1. Append(<<>>, r) = <<r>>
    OBVIOUS
  <2> QED
    BY <1>1, <1>3, <2>1
<1>5. /\ row \in [Effect -> Seq([asset : Assets, amount : Amounts])]
      /\ row[e] = Append(executed[o][e], r)
      /\ \A f \in Effect \ {e} : row[f] = executed[o][f]
  BY <1>4 DEF GatewayInv, TypeOK
<1> HIDE DEF row
<1>6. /\ executed' \in [Ops -> [Effect -> Seq([asset : Assets, amount : Amounts])]]
      /\ executed'[o] = row
      /\ \A p \in Ops \ {o} : executed'[p] = executed[p]
  BY <1>2, <1>5 DEF GatewayInv, TypeOK
<1>7. ASSUME NEW p \in Ops, NEW f \in Effect
      PROVE  \/ p = o /\ f = e
             \/ executed'[p][f] = executed[p][f]
  BY <1>5, <1>6
<1>8. processed' \subseteq Ops \X Effect
  BY <1>1 DEF GatewayInv, TypeOK
<1>9. UnprocessedIsUndone'
  BY <1>1, <1>7 DEF GatewayInv, UnprocessedIsUndone
<1>10. ASSUME NEW p \in Ops, NEW f \in Effect PROVE Len(executed'[p][f]) <= 1
  <2>1. CASE p = o /\ f = e
    <3>1. executed'[p][f] = Append(executed[o][e], r)
      BY <1>5, <1>6, <2>1
    <3> QED
      BY <1>4, <3>1
  <2>2. CASE executed'[p][f] = executed[p][f]
    <3>1. Len(executed[p][f]) <= 1
      BY DEF GatewayInv, ExecutedAsObserved
    <3> QED
      BY <2>2, <3>1
  <2> QED
    BY <1>7, <2>1, <2>2
<1>11. ASSUME NEW p \in Ops, NEW f \in {"MINT", "RELEASE"},
              NEW i \in DOMAIN executed'[p][f]
       PROVE  event'[p] = [effect |-> f, asset |-> executed'[p][f][i].asset,
                           amount |-> executed'[p][f][i].amount]
  <2>1. f \in Effect
    BY DEF Effect
  <2>2. CASE p = o /\ f = e
    <3>1. executed'[p][f][i] = r
      BY <1>4, <1>5, <1>6, <1>11, <2>2
    <3> QED
      BY <1>3, <1>11, <2>2, <3>1
  <2>3. CASE executed'[p][f] = executed[p][f]
    BY <1>11, <2>3 DEF GatewayInv, ExecutedAsObserved
  <2> QED
    BY <1>7, <2>1, <2>2, <2>3
<1> QED
  BY <1>6, <1>8, <1>9, <1>10, <1>11 DEF ExecutedAsObserved

\* executeMint and executeRelease.
LEMMA GatewayExecutes ==
  ASSUME GatewayInv, NEW x \in Execution, NEW signers \in Signers,
         ExecuteMint(x, signers) \/ ExecuteRelease(x, signers)
  PROVE  GatewayInv'
<1>1. /\ x.op \in Ops /\ x.asset \in Assets /\ x.amount \in Amounts
      /\ x.effect \in {"MINT", "RELEASE"} /\ x.amount \in Nat
  BY GatewayConstants DEF Execution
<1>2. /\ consume(x.op, x.effect) /\ done(x.op, x.effect, x.asset, x.amount)
      /\ verify(x, signers)
      /\ UNCHANGED <<event, isValidator, threshold, paused, available, now>>
  BY DEF ExecuteMint, ExecuteRelease, settings
<1>3. event[x.op] = [effect |-> x.effect, asset |-> x.asset, amount |-> x.amount]
  BY <1>2, VerifiedIsFinal DEF GatewayInv, TypeOK
<1>4. /\ processed' \subseteq Ops \X Effect
      /\ executed' \in [Ops -> [Effect -> Seq([asset : Assets, amount : Amounts])]]
      /\ UnprocessedIsUndone' /\ ExecutedAsObserved'
  <2>1. x.effect \in Effect
    BY <1>1 DEF Effect
  <2> QED
    BY <1>1, <1>2, <1>3, <2>1, EffectTakesPlace
<1>5. supply' \in [Assets -> Nat] /\ custody' \in [Assets -> Nat]
  <2>1. CASE ExecuteMint(x, signers)
    BY <1>1, <2>1 DEF ExecuteMint, GatewayInv, TypeOK
  <2>2. CASE ExecuteRelease(x, signers)
    BY <1>1, <2>2 DEF ExecuteRelease, GatewayInv, TypeOK
  <2> QED
    BY <2>1, <2>2
<1>6. TypeOK'
  BY <1>2, <1>4, <1>5 DEF GatewayInv, TypeOK
<1> QED
  BY <1>2, <1>4, <1>6 DEF GatewayInv, trusted

\* burnRepresentation.
LEMMA GatewayBurns ==
  ASSUME GatewayInv, NEW o \in Ops, NEW a \in Assets, NEW n \in Amounts,
         BurnRepresentation(o, a, n)
  PROVE  GatewayInv'
<1>1. /\ consume(o, "BURN") /\ done(o, "BURN", a, n) /\ n \in Nat
      /\ UNCHANGED <<event, isValidator, threshold, paused, available, custody, now>>
  BY GatewayConstants DEF BurnRepresentation, settings
<1>2. /\ processed' \subseteq Ops \X Effect
      /\ executed' \in [Ops -> [Effect -> Seq([asset : Assets, amount : Amounts])]]
      /\ UnprocessedIsUndone' /\ ExecutedAsObserved'
  <2>1. "BURN" \in Effect
    BY DEF Effect
  <2> QED
    BY <1>1, <2>1, EffectTakesPlace
<1>3. supply' \in [Assets -> Nat]
  BY <1>1 DEF BurnRepresentation, GatewayInv, TypeOK
<1>4. TypeOK'
  BY <1>1, <1>2, <1>3 DEF GatewayInv, TypeOK
<1> QED
  BY <1>1, <1>2, <1>4 DEF GatewayInv, trusted

\* The source network and the administration.
LEMMA GatewayAdministration ==
  ASSUME GatewayInv,
         \/ \E o \in Ops, e \in SourceEvent : Finalize(o, e)
         \/ \E v \in Addresses, enabled \in BOOLEAN : SetValidator(v, enabled)
         \/ \E t \in 0..Cardinality(Addresses) : SetThreshold(t)
         \/ \E p \in BOOLEAN : SetPaused(p)
         \/ \E a \in Assets, effects \in SUBSET {"MINT", "RELEASE"} :
              Configure(a, effects)
         \/ Tick
  PROVE  GatewayInv'
<1> USE GatewayConstants
<1>1. UNCHANGED <<processed, supply, custody, executed>>
  BY DEF Finalize, SetValidator, SetThreshold, SetPaused, Configure, Tick
<1>2. ASSUME NEW o \in Ops, NEW e \in SourceEvent, Finalize(o, e) PROVE GatewayInv'
  <2>1. /\ event[o] = None /\ event' = [event EXCEPT ![o] = e]
        /\ UNCHANGED <<isValidator, threshold, paused, available, now>>
    BY <1>2 DEF Finalize, settings
  <2>2. TypeOK'
    BY <1>1, <2>1 DEF GatewayInv, TypeOK
  <2>3. \A p \in Ops : event[p] # None => event'[p] = event[p]
    BY <2>1 DEF GatewayInv, TypeOK
  <2>4. ASSUME NEW p \in Ops, NEW f \in {"MINT", "RELEASE"},
               NEW i \in DOMAIN executed[p][f]
        PROVE  event'[p] = [effect |-> f, asset |-> executed[p][f][i].asset,
                            amount |-> executed[p][f][i].amount]
    <3> DEFINE r == [effect |-> f, asset |-> executed[p][f][i].asset,
                     amount |-> executed[p][f][i].amount]
    <3>1. event[p] = r
      BY DEF GatewayInv, ExecutedAsObserved
    <3>2. f \in Effect /\ executed[p][f] \in Seq([asset : Assets, amount : Amounts])
      <4> HIDE DEF r
      <4>1. executed \in [Ops -> [Effect -> Seq([asset : Assets, amount : Amounts])]]
        BY DEF GatewayInv, TypeOK
      <4>2. f \in Effect
        BY DEF Effect
      <4> QED
        BY <4>1, <4>2
    <3>3. executed[p][f][i] \in [asset : Assets, amount : Amounts]
      <4>1. i \in 1..Len(executed[p][f])
        BY <3>2
      <4> QED
        BY <3>2, <4>1, ElementType
    <3>4. r \in SourceEvent
      BY <3>3 DEF SourceEvent
    <3> QED
      BY <2>3, <3>1, <3>4
  <2>5. ExecutedAsObserved'
    BY <1>1, <2>4 DEF GatewayInv, ExecutedAsObserved
  <2> QED
    BY <1>1, <2>1, <2>2, <2>5 DEF GatewayInv, trusted, UnprocessedIsUndone
<1>3. CASE UNCHANGED event
  <2>1. UnprocessedIsUndone' /\ ExecutedAsObserved'
    BY <1>1, <1>3 DEF GatewayInv, UnprocessedIsUndone, ExecutedAsObserved
  <2>2. ASSUME NEW v \in Addresses, NEW enabled \in BOOLEAN, SetValidator(v, enabled)
        PROVE  GatewayInv'
    BY <1>1, <1>3, <2>1, <2>2 DEF SetValidator, GatewayInv, TypeOK
  <2>3. ASSUME NEW t \in 0..Cardinality(Addresses), SetThreshold(t) PROVE GatewayInv'
    <3>1. t \in Nat \ {0}
      BY <2>3, FS_CardinalityType DEF SetThreshold
    <3> QED
      BY <1>1, <1>3, <2>1, <2>3, <3>1 DEF SetThreshold, GatewayInv, TypeOK, trusted
  <2>4. ASSUME NEW p \in BOOLEAN, SetPaused(p) PROVE GatewayInv'
    BY <1>1, <1>3, <2>1, <2>4 DEF SetPaused, GatewayInv, TypeOK, trusted
  <2>5. ASSUME NEW a \in Assets, NEW effects \in SUBSET {"MINT", "RELEASE"},
               Configure(a, effects)
        PROVE  GatewayInv'
    BY <1>1, <1>3, <2>1, <2>5 DEF Configure, GatewayInv, TypeOK, trusted
  <2>6. CASE Tick
    <3>1. now' \in 0..MaxTime
      BY <2>6 DEF Tick, GatewayInv, TypeOK
    <3>2. UNCHANGED <<isValidator, threshold, paused, available>>
      BY <2>6 DEF Tick, settings
    <3> QED
      BY <1>1, <1>3, <2>1, <3>1, <3>2 DEF GatewayInv, TypeOK, trusted
  <2> QED
    BY <1>2, <2>2, <2>3, <2>4, <2>5, <2>6
<1> QED
  BY <1>2, <1>3 DEF SetValidator, SetThreshold, SetPaused, Configure, Tick

LEMMA GatewayInvariance == Spec => []GatewayInv
<1> USE GatewayConstants
<1>1. Init => GatewayInv
  <2> SUFFICES ASSUME Init PROVE GatewayInv
    OBVIOUS
  <2>1. threshold \in Nat \ {0}
    BY FS_CardinalityType DEF Init
  <2>2. /\ executed = [o \in Ops |-> [e \in Effect |-> <<>>]]
        /\ executed \in [Ops -> [Effect -> Seq([asset : Assets, amount : Amounts])]]
    BY DEF Init
  <2>3. /\ available = [a \in Assets |-> {"MINT", "RELEASE"}]
        /\ available \in [Assets -> SUBSET {"MINT", "RELEASE"}]
        /\ event \in [Ops -> SourceEvent \cup {None}] /\ paused \in BOOLEAN
    BY Zenon DEF Init
  <2>4. TypeOK
    BY <2>1, <2>2, <2>3 DEF Init, TypeOK
  <2>5. UnprocessedIsUndone /\ ExecutedAsObserved
    BY <2>2 DEF UnprocessedIsUndone, ExecutedAsObserved, Effect
  <2> QED
    BY <2>4, <2>5 DEF Init, GatewayInv
<1>2. GatewayInv /\ [Next]_vars => GatewayInv'
  <2> SUFFICES ASSUME GatewayInv, [Next]_vars PROVE GatewayInv'
    OBVIOUS
  <2>1. CASE UNCHANGED vars
    <3>1. UNCHANGED <<event, isValidator, threshold, paused, available, processed,
                      supply, custody, now, executed>>
      BY <2>1 DEF vars, settings
    <3>2. TypeOK' /\ trusted(isValidator, threshold)'
      BY <3>1 DEF GatewayInv, TypeOK, trusted
    <3> QED
      BY <3>1, <3>2 DEF GatewayInv, UnprocessedIsUndone, ExecutedAsObserved
  <2> QED
    BY <2>1, GatewayExecutes, GatewayBurns, GatewayAdministration DEF Next
<1> QED
  BY <1>1, <1>2, PTL DEF Spec

\* A mint or a release is what the source network finalized, and takes place
\* once, for any set of validators of which fewer than the threshold are
\* faulty, through rotations, pauses and changes of the registry.
THEOREM ExecutionCorrect == Spec => []ExecutedAsObserved
<1>1. GatewayInv => ExecutedAsObserved
  BY DEF GatewayInv
<1> QED
  BY <1>1, GatewayInvariance, PTL
-----------------------------------------------------------------------------
\* Sums over finite sets of operations.  MapThenSumSet takes the elements in
\* an arbitrary but fixed order; the lemmas show that the order is irrelevant.
total(w, S) == MapThenSumSet(LAMBDA o : w[o].amount, S)

pick(s) == CHOOSE x \in s : TRUE

isSum(w, S, g) ==
  g = [s \in SUBSET S |->
         IF s = {} THEN 0 ELSE w[pick(s)].amount + g[s \ {pick(s)}]]

LEMMA TotalIsSum ==
  ASSUME NEW S, NEW w PROVE total(w, S) = (CHOOSE g : isSum(w, S, g))[S]
BY Zenon DEF total, MapThenSumSet, MapThenFoldSet, isSum, pick

LEMMA PickIsElement == ASSUME NEW s, s # {} PROVE pick(s) \in s
BY DEF pick

\* Induction over the subsets of a finite set, for a property given as the
\* set P of those that have it.
LEMMA SubsetInduction ==
  ASSUME NEW S, IsFiniteSet(S), NEW P,
         \A t \in SUBSET S : (\A u \in SUBSET t : u # t => u \in P) => t \in P
  PROVE  \A t \in SUBSET S : t \in P
<1> DEFINE T == {Cardinality(t) : t \in {t \in SUBSET S : t \notin P}}
<1>1. \A t \in SUBSET S : IsFiniteSet(t) /\ Cardinality(t) \in Nat
  BY FS_Subset, FS_CardinalityType
<1>2. SUFFICES ASSUME T # {} PROVE FALSE
  OBVIOUS
<1>3. PICK m \in T : \A k \in T : m =< k
  <2>1. T \subseteq Nat
    BY <1>1
  <2> HIDE DEF T
  <2> QED
    BY <1>2, <2>1, LeastNumber
<1>4. PICK t \in SUBSET S : t \notin P /\ m = Cardinality(t)
  BY <1>3
<1>5. ASSUME NEW u \in SUBSET t, u # t PROVE u \in P
  <2>1. Cardinality(u) < Cardinality(t)
    BY <1>1, <1>5, FS_Subset
  <2>2. u \in SUBSET S /\ (u \notin P => Cardinality(u) \in T)
    OBVIOUS
  <2>3. Cardinality(u) \in Nat /\ Cardinality(t) \in Nat
    BY <1>1, <2>2
  <2> HIDE DEF T
  <2> QED
    BY <1>3, <1>4, <2>1, <2>2, <2>3
<1> QED
  BY <1>4, <1>5

LEMMA SumIsUnique ==
  ASSUME NEW S, IsFiniteSet(S), NEW w, NEW g, NEW h, isSum(w, S, g), isSum(w, S, h)
  PROVE  \A t \in SUBSET S : g[t] = h[t]
<1> DEFINE P == {t \in SUBSET S : g[t] = h[t]}
<1>1. ASSUME NEW t \in SUBSET S, \A u \in SUBSET t : u # t => u \in P PROVE t \in P
  <2>1. CASE t = {}
    BY <2>1 DEF isSum
  <2>2. CASE t # {}
    <3>1. pick(t) \in t
      BY <2>2, PickIsElement
    <3>2. t \ {pick(t)} \in P
      BY <1>1, <3>1
    <3>3. /\ g[t] = w[pick(t)].amount + g[t \ {pick(t)}]
          /\ h[t] = w[pick(t)].amount + h[t \ {pick(t)}]
      BY <2>2 DEF isSum
    <3> QED
      BY <3>2, <3>3
  <2> QED
    BY <2>1, <2>2
<1> HIDE DEF P
<1>2. \A t \in SUBSET S : t \in P
  BY <1>1, SubsetInduction
<1> QED
  BY <1>2 DEF P

\* The sum takes its elements off one by one.
stepsAt(w, t) ==
  total(w, t) = IF t = {} THEN 0 ELSE w[pick(t)].amount + total(w, t \ {pick(t)})

LEMMA TotalSteps ==
  ASSUME NEW S, IsFiniteSet(S), NEW w PROVE \A t \in SUBSET S : stepsAt(w, t)
<1> DEFINE P == {t \in SUBSET S : stepsAt(w, t)}
<1>1. ASSUME NEW t \in SUBSET S, \A u \in SUBSET t : u # t => u \in P PROVE t \in P
  <2> DEFINE last == IF t = {} THEN 0
                     ELSE w[pick(t)].amount + total(w, t \ {pick(t)})
             g == [u \in SUBSET t |-> IF u = t THEN last ELSE total(w, u)]
  <2>1. isSum(w, t, g)
    <3>1. ASSUME NEW u \in SUBSET t
          PROVE  g[u] = IF u = {} THEN 0 ELSE w[pick(u)].amount + g[u \ {pick(u)}]
      <4>1. u # {} => pick(u) \in u
        BY PickIsElement
      <4>2. u # {} => /\ u \ {pick(u)} \in SUBSET t /\ u \ {pick(u)} # t
                      /\ g[u \ {pick(u)}] = total(w, u \ {pick(u)})
        BY <4>1
      <4>3. CASE u = t
        BY <4>2, <4>3
      <4>4. CASE u # t
        <5>1. stepsAt(w, u)
          BY <1>1, <4>4
        <5> QED
          BY <4>2, <4>4, <5>1 DEF stepsAt
      <4> QED
        BY <4>3, <4>4
    <3> HIDE DEF last
    <3>2. g = [u \in SUBSET t |-> g[u]]
      OBVIOUS
    <3> HIDE DEF g
    <3> QED
      BY <3>1, <3>2 DEF isSum
  <2>2. isSum(w, t, CHOOSE f : isSum(w, t, f))
    BY <2>1
  <2>3. IsFiniteSet(t)
    BY FS_Subset
  <2>4. g[t] = last
    OBVIOUS
  <2> HIDE DEF g
  <2>5. (CHOOSE f : isSum(w, t, f))[t] = g[t]
    <3>1. t \in SUBSET t
      OBVIOUS
    <3> QED
      BY <2>1, <2>2, <2>3, <3>1, SumIsUnique
  <2> QED
    BY <2>4, <2>5, TotalIsSum DEF stepsAt
<1> HIDE DEF P
<1>2. \A t \in SUBSET S : t \in P
  BY <1>1, SubsetInduction
<1> QED
  BY <1>2 DEF P
\* The sum is a number.
LEMMA TotalType ==
  ASSUME NEW S, IsFiniteSet(S), NEW w, \A o \in S : w[o].amount \in Nat
  PROVE  \A t \in SUBSET S : total(w, t) \in Nat
<1> DEFINE P == {t \in SUBSET S : total(w, t) \in Nat}
<1>1. ASSUME NEW t \in SUBSET S, \A u \in SUBSET t : u # t => u \in P PROVE t \in P
  <2>1. stepsAt(w, t)
    BY TotalSteps
  <2>2. CASE t = {}
    BY <2>1, <2>2 DEF stepsAt
  <2>3. CASE t # {}
    <3>1. pick(t) \in t
      BY <2>3, PickIsElement
    <3>2. t \ {pick(t)} \in P /\ w[pick(t)].amount \in Nat
      BY <1>1, <3>1
    <3> QED
      BY <2>1, <2>3, <3>2 DEF stepsAt
  <2> QED
    BY <2>2, <2>3
<1> HIDE DEF P
<1>2. \A t \in SUBSET S : t \in P
  BY <1>1, SubsetInduction
<1> QED
  BY <1>2 DEF P

\* Whichever element is taken off first.
LEMMA TotalRemoves ==
  ASSUME NEW S, IsFiniteSet(S), NEW w, \A o \in S : w[o].amount \in Nat, NEW x \in S
  PROVE  total(w, S) = total(w, S \ {x}) + w[x].amount
<1> DEFINE P == {t \in SUBSET S :
                   \A y \in t : total(w, t) = total(w, t \ {y}) + w[y].amount}
<1>1. ASSUME NEW t \in SUBSET S, \A u \in SUBSET t : u # t => u \in P PROVE t \in P
  <2> SUFFICES ASSUME NEW y \in t
               PROVE  total(w, t) = total(w, t \ {y}) + w[y].amount
    OBVIOUS
  <2>1. stepsAt(w, t)
    BY TotalSteps
  <2>2. PICK c \in t : c = pick(t)
    BY PickIsElement
  <2>3. total(w, t) = w[c].amount + total(w, t \ {c})
    BY <2>1, <2>2 DEF stepsAt
  <2>4. /\ w[c].amount \in Nat /\ w[y].amount \in Nat /\ total(w, t \ {c}) \in Nat
        /\ total(w, t \ {y}) \in Nat /\ total(w, (t \ {c}) \ {y}) \in Nat
    BY TotalType
  <2>5. CASE y = c
    BY <2>3, <2>4, <2>5
  <2>6. CASE y # c
    <3>1. t \ {c} \in P /\ t \ {y} \in P
      BY <1>1
    <3>2. total(w, t \ {c}) = total(w, (t \ {c}) \ {y}) + w[y].amount
      BY <2>6, <3>1
    <3>3. total(w, t \ {y}) = total(w, (t \ {y}) \ {c}) + w[c].amount
      BY <2>6, <3>1
    <3>4. (t \ {y}) \ {c} = (t \ {c}) \ {y}
      OBVIOUS
    <3> HIDE DEF P
    <3> QED
      BY <2>3, <2>4, <3>2, <3>3, <3>4
  <2> QED
    BY <2>5, <2>6
<1> HIDE DEF P
<1>2. S \in P
  BY <1>1, SubsetInduction
<1> QED
  BY <1>2 DEF P

\* A sum depends on the amounts of its elements only, and grows with them.
LEMMA TotalGrows ==
  ASSUME NEW S, IsFiniteSet(S), NEW w, NEW v, NEW t \in SUBSET S,
         \A o \in S : v[o].amount \in Nat, \A o \in t : w[o].amount = v[o].amount
  PROVE  total(w, t) =< total(v, S)
<1> DEFINE P == {u \in SUBSET S : total(w, u \cap t) =< total(v, u)}
<1>0. \A o \in t : w[o].amount \in Nat
  OBVIOUS
<1>1. ASSUME NEW u \in SUBSET S, \A r \in SUBSET u : r # u => r \in P PROVE u \in P
  <2> SUFFICES total(w, u \cap t) =< total(v, u)
    OBVIOUS
  <2>1. IsFiniteSet(u) /\ IsFiniteSet(u \cap t)
    BY FS_Subset
  <2>2. CASE u = {}
    <3>1. stepsAt(w, u) /\ stepsAt(v, u) /\ u \cap t = {}
      BY <2>1, <2>2, TotalSteps
    <3> QED
      BY <2>2, <3>1 DEF stepsAt
  <2>3. CASE u # {}
    <3>1. PICK x \in u : TRUE
      BY <2>3
    <3>2. PICK r, p, q : r = u \ {x} /\ p = u \cap t /\ q = r \cap t
      OBVIOUS
    <3>3. total(w, q) =< total(v, r)
      BY <1>1, <3>1, <3>2
    <3> HIDE DEF P
    <3>4. /\ total(v, u) = total(v, r) + v[x].amount
          /\ total(v, r) \in Nat /\ v[x].amount \in Nat
      <4>1. total(v, u) = total(v, u \ {x}) + v[x].amount
        BY <2>1, TotalRemoves
      <4> QED
        BY <2>1, <3>2, <4>1, TotalType
    <3>5. IsFiniteSet(p) /\ (\A o \in p : w[o].amount \in Nat) /\ q \in SUBSET p
      BY <1>0, <2>1, <3>2
    <3>6. total(w, q) \in Nat
      BY <3>5, TotalType
    <3>7. total(w, p) =< total(v, u)
      <4>1. CASE x \notin t
        <5>1. p = q
          BY <3>2, <4>1
        <5> QED
          BY <3>3, <3>4, <3>6, <5>1
      <4>2. CASE x \in t
        <5>1. x \in p
          BY <3>2, <4>2
        <5>2. total(w, p) = total(w, p \ {x}) + w[x].amount
          <6>1. IsFiniteSet(p)
            BY <3>5
          <6>2. \A o \in p : w[o].amount \in Nat
            BY <3>5
          <6> QED
            BY <5>1, <6>1, <6>2, TotalRemoves, Zenon
        <5>3. q = p \ {x} /\ w[x].amount = v[x].amount
          BY <3>2, <4>2
        <5>4. total(w, p) = total(w, q) + v[x].amount
          BY <5>2, <5>3
        <5> QED
          BY <3>3, <3>4, <3>6, <5>4
      <4> QED
        BY <4>1, <4>2
    <3> QED
      BY <3>2, <3>7
  <2> QED
    BY <2>2, <2>3
<1> HIDE DEF P
<1>2. S \in P
  BY <1>1, SubsetInduction
<1>3. S \cap t = t
  OBVIOUS
<1> QED
  BY <1>2, <1>3 DEF P
-----------------------------------------------------------------------------
\* What the gateway pays out is covered by the operations it has processed,
\* and these are covered by events: no event of a processed operation ever
\* changes.
effective(ev, marked, e, a) == {o \in Ops : <<o, e>> \in marked /\ ev[o].asset = a}

ProcessedIsObserved ==
  \A o \in Ops, e \in {"MINT", "RELEASE"} :
    <<o, e>> \in processed => event[o] \in SourceEvent /\ event[o].effect = e

OutflowIsProcessed ==
  \A a \in Assets :
    /\ supply[a] <= total(event, effective(event, processed, "MINT", a))
    /\ Reserve - custody[a] <= total(event, effective(event, processed, "RELEASE", a))

OutflowInv == ProcessedIsObserved /\ OutflowIsProcessed

\* The sums over processed operations are numbers.
LEMMA EffectiveType ==
  ASSUME ProcessedIsObserved, NEW e \in {"MINT", "RELEASE"}, NEW a \in Assets,
         NEW E, E = effective(event, processed, e, a)
  PROVE  /\ IsFiniteSet(E) /\ \A o \in E : event[o].amount \in Nat
         /\ total(event, E) \in Nat
<1>1. IsFiniteSet(E)
  BY GatewayConstants, FS_Subset DEF effective
<1>2. \A o \in E : event[o].amount \in Nat
  BY GatewayConstants DEF effective, ProcessedIsObserved, SourceEvent
<1>3. E \in SUBSET E
  OBVIOUS
<1>4. total(event, E) \in Nat
  BY <1>1, <1>2, <1>3, TotalType
<1> QED
  BY <1>1, <1>2, <1>4

\* A step that leaves the processed operations of an effect and their events
\* alone keeps their sum.
LEMMA EffectiveRests ==
  ASSUME ProcessedIsObserved, NEW e \in {"MINT", "RELEASE"}, NEW a \in Assets,
         \A o \in Ops : <<o, e>> \in processed' <=> <<o, e>> \in processed,
         \A o \in Ops : <<o, e>> \in processed => event'[o] = event[o]
  PROVE  /\ total(event, effective(event, processed, e, a))
              <= total(event', effective(event', processed', e, a))
         /\ total(event, effective(event, processed, e, a)) \in Nat
         /\ total(event', effective(event', processed', e, a)) \in Nat
<1>1. PICK E : E = effective(event, processed, e, a)
  OBVIOUS
<1>2. /\ IsFiniteSet(E) /\ \A o \in E : event[o].amount \in Nat
      /\ total(event, E) \in Nat
  BY <1>1, EffectiveType
<1>3. \A o \in E : event'[o] = event[o]
  BY <1>1 DEF effective
<1>4. E = effective(event', processed', e, a)
  BY <1>1 DEF effective
<1>5. E \in SUBSET E /\ \A o \in E : event'[o].amount \in Nat
  BY <1>2, <1>3
<1>6. total(event', E) \in Nat
  BY <1>2, <1>5, TotalType
<1>7. total(event, E) <= total(event', E)
  BY <1>2, <1>3, <1>5, TotalGrows
<1> QED
  BY <1>1, <1>2, <1>4, <1>6, <1>7

\* An execution adds its amount to the sum of its asset.
LEMMA EffectiveGrows ==
  ASSUME ProcessedIsObserved, NEW e \in {"MINT", "RELEASE"}, NEW a \in Assets,
         NEW o \in Ops, NEW n \in Amounts, NEW b \in Assets, consume(o, e),
         event[o] = [effect |-> e, asset |-> a, amount |-> n]
  PROVE  /\ total(event, effective(event, processed', e, b)) =
              total(event, effective(event, processed, e, b)) + (IF a = b THEN n ELSE 0)
         /\ total(event, effective(event, processed, e, b)) \in Nat
<1>1. PICK E, F : /\ E = effective(event, processed, e, b)
                  /\ F = effective(event, processed', e, b)
  OBVIOUS
<1>2. /\ IsFiniteSet(E) /\ \A p \in E : event[p].amount \in Nat
      /\ total(event, E) \in Nat
  BY <1>1, EffectiveType
<1>3. /\ processed' = processed \cup {<<o, e>>} /\ <<o, e>> \notin processed
      /\ event[o].asset = a /\ event[o].amount = n /\ n \in Nat
  BY GatewayConstants DEF consume
<1>4. CASE a # b
  <2>1. E = F
    BY <1>1, <1>3, <1>4 DEF effective
  <2> QED
    BY <1>1, <1>2, <1>4, <2>1
<1>5. CASE a = b
  <2>1. F = E \cup {o} /\ o \notin E
    BY <1>1, <1>3, <1>5 DEF effective
  <2>2. E = F \ {o} /\ o \in F
    BY <2>1
  <2>3. IsFiniteSet(F)
    BY <1>2, <2>1, FS_AddElement
  <2>4. \A p \in F : event[p].amount \in Nat
    BY <1>2, <1>3, <2>1
  <2>5. total(event, F) = total(event, F \ {o}) + event[o].amount
    <3>1. o \in F
      BY <2>2
    <3> QED
      BY <2>3, <2>4, <3>1, TotalRemoves, Zenon
  <2>6. total(event, F) = total(event, E) + n
    BY <1>3, <2>2, <2>5
  <2> QED
    BY <1>1, <1>2, <1>5, <2>6
<1> QED
  BY <1>4, <1>5

LEMMA OutflowStep ==
  ASSUME GatewayInv, OutflowInv, [Next]_vars PROVE OutflowInv'
<1> DEFINE sum(e, a) == total(event, effective(event, processed, e, a))
<1>0. /\ supply \in [Assets -> Nat] /\ custody \in [Assets -> Nat] /\ Reserve \in Nat
      /\ isValidator \subseteq Addresses /\ threshold \in Nat
      /\ trusted(isValidator, threshold) /\ event \in [Ops -> SourceEvent \cup {None}]
      /\ ProcessedIsObserved /\ Amounts \subseteq Nat
  BY GatewayConstants DEF GatewayInv, TypeOK, OutflowInv
<1>s. \A a \in Assets : supply[a] <= sum("MINT", a)
                         /\ Reserve - custody[a] <= sum("RELEASE", a)
  BY DEF OutflowInv, OutflowIsProcessed
<1>1. ASSUME \A o \in Ops, e \in {"MINT", "RELEASE"} :
               <<o, e>> \in processed' <=> <<o, e>> \in processed,
             \A o \in Ops, e \in {"MINT", "RELEASE"} :
               <<o, e>> \in processed => event'[o] = event[o],
             \A a \in Assets : supply'[a] \in Nat /\ supply'[a] <= supply[a],
             custody' = custody
      PROVE  OutflowInv'
  <2>1. ProcessedIsObserved'
    BY <1>0, <1>1 DEF ProcessedIsObserved
  <2>2. ASSUME NEW a \in Assets
        PROVE  supply'[a] <= sum("MINT", a)' /\ Reserve - custody'[a] <= sum("RELEASE", a)'
    <3>1. /\ sum("MINT", a) <= sum("MINT", a)'
          /\ sum("MINT", a) \in Nat /\ sum("MINT", a)' \in Nat
      BY <1>0, <1>1, EffectiveRests
    <3>2. /\ sum("RELEASE", a) <= sum("RELEASE", a)'
          /\ sum("RELEASE", a) \in Nat /\ sum("RELEASE", a)' \in Nat
      BY <1>0, <1>1, EffectiveRests
    <3> HIDE DEF sum
    <3>3. supply'[a] <= sum("MINT", a)'
      BY <1>0, <1>1, <1>s, <3>1
    <3>4. Reserve - custody'[a] <= sum("RELEASE", a)'
      BY <1>0, <1>1, <1>s, <3>2
    <3> QED
      BY <3>3, <3>4
  <2> QED
    BY <2>1, <2>2 DEF OutflowInv, OutflowIsProcessed
<1>2. ASSUME NEW x \in Execution, NEW signers \in Signers, NEW e \in {"MINT", "RELEASE"},
             e = x.effect, verify(x, signers), consume(x.op, e), UNCHANGED event
      PROVE  /\ ProcessedIsObserved'
             /\ \A b \in Assets : /\ sum(e, b)' = sum(e, b)
                                       + (IF x.asset = b THEN x.amount ELSE 0)
                                  /\ sum(e, b) \in Nat
             /\ \A f \in {"MINT", "RELEASE"} \ {e} : \A b \in Assets :
                  sum(f, b) <= sum(f, b)' /\ sum(f, b) \in Nat /\ sum(f, b)' \in Nat
  <2>1. /\ x.op \in Ops /\ x.asset \in Assets /\ x.amount \in Amounts
        /\ event[x.op] = [effect |-> e, asset |-> x.asset, amount |-> x.amount]
    BY <1>0, <1>2, VerifiedIsFinal DEF Execution
  <2>2. event[x.op] \in SourceEvent /\ event[x.op].effect = e
    BY <1>2, <2>1 DEF SourceEvent
  <2>3. ProcessedIsObserved'
    BY <1>0, <1>2, <2>2 DEF ProcessedIsObserved, consume
  <2>4. ASSUME NEW b \in Assets
        PROVE  /\ sum(e, b)' = sum(e, b) + (IF x.asset = b THEN x.amount ELSE 0)
               /\ sum(e, b) \in Nat
    <3>1. /\ total(event, effective(event, processed', e, b)) =
               sum(e, b) + (IF x.asset = b THEN x.amount ELSE 0)
          /\ sum(e, b) \in Nat
      BY <1>0, <1>2, <2>1, EffectiveGrows
    <3> QED
      BY <1>2, <3>1
  <2>5. ASSUME NEW f \in {"MINT", "RELEASE"} \ {e}, NEW b \in Assets
        PROVE  sum(f, b) <= sum(f, b)' /\ sum(f, b) \in Nat /\ sum(f, b)' \in Nat
    <3>1. \A o \in Ops : <<o, f>> \in processed' <=> <<o, f>> \in processed
      BY <1>2 DEF consume
    <3> QED
      BY <1>0, <1>2, <3>1, EffectiveRests
  <2> QED
    BY <2>3, <2>4, <2>5
<1>3. ASSUME NEW x \in Execution, NEW signers \in Signers, ExecuteMint(x, signers)
      PROVE  OutflowInv'
  <2>1. /\ x.effect = "MINT" /\ verify(x, signers) /\ consume(x.op, "MINT")
        /\ UNCHANGED event /\ UNCHANGED custody
        /\ supply' = [supply EXCEPT ![x.asset] = @ + x.amount]
        /\ x.amount \in Nat /\ x.asset \in Assets
    BY <1>0, <1>3 DEF ExecuteMint, Execution
  <2>2. /\ ProcessedIsObserved'
        /\ \A b \in Assets : /\ sum("MINT", b)' = sum("MINT", b)
                                  + (IF x.asset = b THEN x.amount ELSE 0)
                             /\ sum("MINT", b) \in Nat
        /\ \A b \in Assets : /\ sum("RELEASE", b) <= sum("RELEASE", b)'
                             /\ sum("RELEASE", b) \in Nat /\ sum("RELEASE", b)' \in Nat
    BY <1>2, <2>1
  <2> HIDE DEF sum
  <2>3. \A b \in Assets : /\ supply'[b] <= sum("MINT", b)'
                          /\ Reserve - custody'[b] <= sum("RELEASE", b)'
    BY <1>0, <1>s, <2>1, <2>2
  <2> QED
    BY <2>2, <2>3 DEF OutflowInv, OutflowIsProcessed, sum
<1>4. ASSUME NEW x \in Execution, NEW signers \in Signers, ExecuteRelease(x, signers)
      PROVE  OutflowInv'
  <2>1. /\ x.effect = "RELEASE" /\ verify(x, signers) /\ consume(x.op, "RELEASE")
        /\ UNCHANGED event /\ UNCHANGED supply
        /\ custody' = [custody EXCEPT ![x.asset] = @ - x.amount]
        /\ x.amount \in Nat /\ x.asset \in Assets
    BY <1>0, <1>4 DEF ExecuteRelease, Execution
  <2>2. /\ ProcessedIsObserved'
        /\ \A b \in Assets : /\ sum("RELEASE", b)' = sum("RELEASE", b)
                                  + (IF x.asset = b THEN x.amount ELSE 0)
                             /\ sum("RELEASE", b) \in Nat
        /\ \A b \in Assets : /\ sum("MINT", b) <= sum("MINT", b)'
                             /\ sum("MINT", b) \in Nat /\ sum("MINT", b)' \in Nat
    BY <1>2, <2>1
  <2> HIDE DEF sum
  <2>3. \A b \in Assets : /\ supply'[b] <= sum("MINT", b)'
                          /\ Reserve - custody'[b] <= sum("RELEASE", b)'
    BY <1>0, <1>s, <2>1, <2>2
  <2> QED
    BY <2>2, <2>3 DEF OutflowInv, OutflowIsProcessed, sum
<1>5. ASSUME NEW o \in Ops, NEW a \in Assets, NEW n \in Amounts,
             BurnRepresentation(o, a, n)
      PROVE  OutflowInv'
  <2>1. \A p \in Ops, e \in {"MINT", "RELEASE"} :
          <<p, e>> \in processed' <=> <<p, e>> \in processed
    BY <1>5 DEF BurnRepresentation, consume
  <2>2. \A b \in Assets : supply'[b] \in Nat /\ supply'[b] <= supply[b]
    BY <1>0, <1>5 DEF BurnRepresentation
  <2> QED
    BY <1>1, <1>5, <2>1, <2>2 DEF BurnRepresentation
<1>6. ASSUME NEW o \in Ops, NEW e \in SourceEvent, Finalize(o, e) PROVE OutflowInv'
  <2>1. \A p \in Ops, f \in {"MINT", "RELEASE"} :
          <<p, f>> \in processed => event'[p] = event[p]
    BY <1>0, <1>6, GatewayConstants DEF Finalize, ProcessedIsObserved
  <2> QED
    BY <1>0, <1>1, <1>6, <2>1 DEF Finalize
<1>7. CASE UNCHANGED <<event, processed, supply, custody>>
  BY <1>0, <1>1, <1>7
<1> QED
  BY <1>3, <1>4, <1>5, <1>6, <1>7 DEF Next, vars, SetValidator, SetThreshold, SetPaused,
                                     Configure, Tick

\* Whatever is minted and released, asset by asset, is covered by final events
\* of the source network, for any number of operations and any amounts.
THEOREM OutflowCorrect == Spec => []OutflowIsObserved
<1>1. Init => OutflowInv
  <2> SUFFICES ASSUME Init PROVE OutflowInv
    OBVIOUS
  <2>1. ProcessedIsObserved
    BY DEF Init, ProcessedIsObserved
  <2>2. \A e \in {"MINT", "RELEASE"}, a \in Assets :
          total(event, effective(event, processed, e, a)) \in Nat
    BY <2>1, EffectiveType
  <2>3. OutflowIsProcessed
    BY <2>2, GatewayConstants DEF Init, OutflowIsProcessed
  <2> QED
    BY <2>1, <2>3 DEF OutflowInv
<1>2. GatewayInv /\ OutflowInv /\ [Next]_vars => OutflowInv'
  BY OutflowStep
<1>3. GatewayInv /\ OutflowInv => OutflowIsObserved
  <2> SUFFICES ASSUME GatewayInv, OutflowInv, NEW a \in Assets
               PROVE  /\ supply[a] <= observed("MINT", a)
                      /\ Reserve - custody[a] <= observed("RELEASE", a)
    BY DEF OutflowIsObserved
  <2>1. ASSUME NEW e \in {"MINT", "RELEASE"}
        PROVE  /\ total(event, effective(event, processed, e, a)) <= observed(e, a)
               /\ total(event, effective(event, processed, e, a)) \in Nat
               /\ observed(e, a) \in Nat
    <3>1. PICK E, S :
            /\ E = effective(event, processed, e, a)
            /\ S = {o \in Ops : event[o] # None /\ event[o].effect = e
                                                /\ event[o].asset = a}
      OBVIOUS
    <3>2. observed(e, a) = total(event, S)
      BY <3>1, Zenon DEF observed, total
    <3>3. IsFiniteSet(S) /\ \A o \in S : event[o].amount \in Nat
      BY <3>1, GatewayConstants, FS_Subset DEF GatewayInv, TypeOK, SourceEvent
    <3>4. E \in SUBSET S /\ S \in SUBSET S
      BY <3>1, GatewayConstants DEF OutflowInv, ProcessedIsObserved, effective
    <3>5. total(event, E) <= total(event, S)
      BY <3>3, <3>4, TotalGrows
    <3>6. total(event, E) \in Nat /\ total(event, S) \in Nat
      BY <3>3, <3>4, TotalType
    <3> QED
      BY <3>1, <3>2, <3>5, <3>6
  <2>2. /\ supply[a] \in Nat /\ custody[a] \in Nat /\ Reserve \in Nat
        /\ supply[a] <= total(event, effective(event, processed, "MINT", a))
        /\ Reserve - custody[a] <= total(event, effective(event, processed, "RELEASE", a))
    BY GatewayConstants DEF GatewayInv, TypeOK, OutflowInv, OutflowIsProcessed
  <2> QED
    BY <2>1, <2>2
<1> QED
  BY <1>1, <1>2, <1>3, GatewayInvariance, PTL DEF Spec
-----------------------------------------------------------------------------
\* The Canton workflow.  An authorization carries the end of its attestation's
\* window, whose beginning has passed, so the choice that executes it needs no
\* second look at the attestation.
isAttested(c) ==
  LET a == c.attestation
  IN  /\ a \in attested
      /\ a.operationId = c.operationId /\ a.terms = c.terms
      /\ a.thresholdVerified

contractIsSound(c) ==
  /\ c.template = "ReleaseAuthorization" =>
       /\ isAttested(c)
       /\ c.expiresAt = c.attestation.expiresAt
       /\ c.attestation.validFrom <= ledgerTime
  /\ c.template = "ReleasedAsset" =>
       /\ isAttested(c)
       /\ c.attestation.validFrom <= c.at /\ c.at < c.attestation.expiresAt

InteropInv == InteropTypeOK /\ \A c \in contracts : contractIsSound(c)

\* The types of one contract.
fieldsFit(c) ==
  /\ c \in Contract
  /\ c.expiresAt # None <=> c.template \in {"BridgeIntent", "ReleaseAuthorization"}
  /\ c.at # None <=> c.template \in {"LockedAsset", "ReleasedAsset"}
  /\ c.attestation # None <=> c.template \in {"ReleaseAuthorization", "ReleasedAsset"}

\* Contracts that stay sound: no attestation is forgotten and time goes on.
LEMMA ContractRests ==
  ASSUME InteropInv, NEW c \in contracts, attested \subseteq attested',
         ledgerTime' \in Nat, ledgerTime =< ledgerTime'
  PROVE  fieldsFit(c) /\ contractIsSound(c)'
<1>1. fieldsFit(c)
  BY DEF InteropInv, InteropTypeOK, fieldsFit
<1>2. contractIsSound(c) /\ ledgerTime \in Nat /\ attested \subseteq AttestationRecord
  BY InteropConstants DEF InteropInv, InteropTypeOK, LedgerTime
<1>3. isAttested(c) => isAttested(c)' /\ c.attestation.validFrom \in Nat
  BY <1>2, InteropConstants DEF isAttested, AttestationRecord, LedgerTime
<1> QED
  BY <1>1, <1>2, <1>3 DEF contractIsSound

\* A step that adds at most the sound contract d, and archives some.
LEMMA ContractIsAdded ==
  ASSUME InteropInv, NEW d, contracts' \subseteq contracts \cup {d},
         fieldsFit(d), contractIsSound(d)',
         UNCHANGED <<attestations, ledgerTime, attested>>, intents' \in 0..MaxIntents
  PROVE  InteropInv'
<1>1. ledgerTime \in Nat
  BY InteropConstants DEF InteropInv, InteropTypeOK, LedgerTime
<1>2. \A c \in contracts' : fieldsFit(c) /\ contractIsSound(c)'
  BY <1>1, ContractRests
<1>3. InteropTypeOK'
  BY <1>2 DEF InteropInv, InteropTypeOK, fieldsFit
<1> QED
  BY <1>2, <1>3 DEF InteropInv

\* The same without a new contract.
LEMMA ContractsAreArchived ==
  ASSUME InteropInv, contracts' \subseteq contracts,
         attestations' \subseteq attested', attested' \subseteq AttestationRecord,
         attested \subseteq attested', ledgerTime' \in LedgerTime,
         ledgerTime =< ledgerTime', UNCHANGED intents
  PROVE  InteropInv'
<1>1. ledgerTime' \in Nat
  BY InteropConstants DEF LedgerTime
<1>2. \A c \in contracts' : fieldsFit(c) /\ contractIsSound(c)'
  BY <1>1, ContractRests
<1>3. InteropTypeOK'
  BY <1>2 DEF InteropInv, InteropTypeOK, fieldsFit
<1> QED
  BY <1>2, <1>3 DEF InteropInv

LEMMA InteropInvariance == InteropSpec => []InteropInv
<1> USE InteropConstants
<1>1. InteropInit => InteropInv
  BY DEF InteropInit, InteropInv, InteropTypeOK, LedgerTime
<1>2. InteropInv /\ [InteropNext]_interopVars => InteropInv'
  <2> SUFFICES ASSUME InteropInv, [InteropNext]_interopVars PROVE InteropInv'
    OBVIOUS
  <2> USE DEF Contract
  <2>0. /\ ledgerTime \in Nat /\ ledgerTime \in LedgerTime /\ intents \in 0..MaxIntents
        /\ attestations \subseteq attested /\ attested \subseteq AttestationRecord
    BY DEF InteropInv, InteropTypeOK, LedgerTime
  <2>t. \A c \in contracts : fieldsFit(c) /\ contractIsSound(c)
    BY DEF InteropInv, InteropTypeOK, fieldsFit
  <2>n. \A t \in LedgerTime : t # None
    OBVIOUS
  <2>1. ASSUME NEW o \in Operations, NEW t \in Terms, NEW e \in LedgerTime,
               CreateIntent(o, t, e)
        PROVE  InteropInv'
    <3>0. PICK d : d = [template |-> "BridgeIntent", intent |-> intents + 1,
                        operationId |-> o, terms |-> t, expiresAt |-> e, at |-> None,
                        attestation |-> None]
      OBVIOUS
    <3>1. /\ contracts' = contracts \cup {d} /\ intents' \in 0..MaxIntents
          /\ intents + 1 \in 1..MaxIntents
          /\ UNCHANGED <<attestations, ledgerTime, attested>>
      BY <3>0, <2>0, <2>1 DEF CreateIntent
    <3>2. fieldsFit(d)
      BY <3>0, <2>n, <3>1 DEF fieldsFit
    <3>3. contractIsSound(d)'
      BY <3>0 DEF contractIsSound
    <3> QED
      BY <3>1, <3>2, <3>3, ContractIsAdded
  <2>2. ASSUME NEW c \in contracts, Lock(c) PROVE InteropInv'
    <3>0. PICK d : d = [c EXCEPT !.template = "LockedAsset", !.expiresAt = None,
                                 !.at = ledgerTime]
      OBVIOUS
    <3>1. /\ contracts' \subseteq contracts \cup {d}
          /\ UNCHANGED <<attestations, ledgerTime, attested, intents>>
      BY <3>0, <2>2 DEF Lock, replace
    <3>2. /\ d \in Contract /\ d.template = "LockedAsset" /\ d.expiresAt = None
          /\ d.at = ledgerTime /\ d.attestation = c.attestation
      BY <3>0, <2>0, <2>t DEF fieldsFit
    <3>3. fieldsFit(d)
      BY <2>0, <2>2, <2>t, <2>n, <3>2 DEF fieldsFit, Lock
    <3>4. contractIsSound(d)'
      BY <3>2 DEF contractIsSound
    <3> QED
      BY <2>0, <3>1, <3>3, <3>4, ContractIsAdded
  <2>3. ASSUME NEW c \in contracts, NEW a \in attestations, AuthorizeRelease(c, a)
        PROVE  InteropInv'
    <3> DEFINE d == [c EXCEPT !.template = "ReleaseAuthorization", !.at = None,
                              !.expiresAt = a.expiresAt, !.attestation = a]
    <3>1. /\ contracts' \subseteq contracts \cup {d} /\ authorizes(a, c)
          /\ UNCHANGED <<attestations, ledgerTime, attested, intents>>
      BY <2>3 DEF AuthorizeRelease, replace
    <3>2. a \in AttestationRecord /\ a \in attested /\ a.expiresAt \in LedgerTime
      BY <2>0 DEF AttestationRecord
    <3>3. /\ d \in Contract /\ d.template = "ReleaseAuthorization"
          /\ d.expiresAt = a.expiresAt /\ d.at = None /\ d.attestation = a
          /\ d.operationId = c.operationId /\ d.terms = c.terms
      BY <2>t, <3>2 DEF fieldsFit
    <3> HIDE DEF d
    <3>4. fieldsFit(d)
      BY <2>n, <3>2, <3>3 DEF fieldsFit
    <3>5. contractIsSound(d)'
      BY <3>1, <3>2, <3>3 DEF contractIsSound, isAttested, authorizes
    <3> QED
      BY <2>0, <3>1, <3>4, <3>5, ContractIsAdded
  <2>4. ASSUME NEW c \in contracts, ExecuteAuthorization(c) PROVE InteropInv'
    <3>0. PICK d : d = [c EXCEPT !.template = "ReleasedAsset", !.expiresAt = None,
                                 !.at = ledgerTime]
      OBVIOUS
    <3>1. /\ contracts' \subseteq contracts \cup {d}
          /\ c.template = "ReleaseAuthorization" /\ ledgerTime < c.expiresAt
          /\ UNCHANGED <<attestations, ledgerTime, attested, intents>>
      BY <3>0, <2>4 DEF ExecuteAuthorization, replace
    <3>2. /\ d \in Contract /\ d.template = "ReleasedAsset" /\ d.expiresAt = None
          /\ d.at = ledgerTime /\ d.attestation = c.attestation
          /\ d.operationId = c.operationId /\ d.terms = c.terms
      BY <3>0, <2>0, <2>t DEF fieldsFit
    <3>3. fieldsFit(d)
      BY <2>0, <2>t, <2>n, <3>1, <3>2 DEF fieldsFit
    <3>4. contractIsSound(d)'
      BY <2>t, <3>1, <3>2 DEF contractIsSound, isAttested
    <3> QED
      BY <2>0, <3>1, <3>3, <3>4, ContractIsAdded
  <2>5. ASSUME NEW c \in contracts, ArchiveContract(c) PROVE InteropInv'
    BY <2>0, <2>5, ContractsAreArchived DEF ArchiveContract
  <2>6. ASSUME NEW a \in AttestationRecord, Attest(a) PROVE InteropInv'
    BY <2>0, <2>6, ContractsAreArchived DEF Attest
  <2>7. ASSUME NEW a \in attestations, ArchiveAttestation(a) PROVE InteropInv'
    BY <2>0, <2>7, ContractsAreArchived DEF ArchiveAttestation
  <2>8. CASE LedgerTick
    <3>1. ledgerTime' \in LedgerTime /\ ledgerTime =< ledgerTime'
      BY <2>0, <2>8 DEF LedgerTick, LedgerTime
    <3> QED
      BY <2>0, <2>8, <3>1, ContractsAreArchived DEF LedgerTick
  <2>9. CASE UNCHANGED interopVars
    BY <2>0, <2>9, ContractsAreArchived DEF interopVars
  <2> QED
    BY <2>1, <2>2, <2>3, <2>4, <2>5, <2>6, <2>7, <2>8, <2>9 DEF InteropNext
<1> QED
  BY <1>1, <1>2, PTL DEF InteropSpec

\* A released asset was released in the window of a threshold-verified
\* attestation of its operation and terms, although the choice that executes
\* the release no longer looks at the attestation.
THEOREM ReleaseCorrect == InteropSpec => []ReleasedAsAttested
<1>1. InteropInv => ReleasedAsAttested
  BY DEF InteropInv, contractIsSound, isAttested, ReleasedAsAttested
<1> QED
  BY <1>1, InteropInvariance, PTL
=============================================================================
