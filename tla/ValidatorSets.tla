---------------------------- MODULE ValidatorSets ----------------------------
(***************************************************************************)
(* ValidatorSetRegistry (packages/core/src/threshold-attestation.ts): the  *)
(* immutable validator sets, the check of a new one, and the rule that     *)
(* picks the set an attestation is judged by.                              *)
(***************************************************************************)
EXTENDS Naturals, FiniteSets

CONSTANTS
  Validators,  \* validator ids, each with its registered key
  SetIds,      \* ids of validator sets
  Candidates,  \* the sets that are submitted to register
  MaxTime,     \* the last time that is looked at
  None

Time == 0..MaxTime

\* The end of an interval without a validUntil or a disabledAt.
Never == MaxTime + 1

\* When a member is enabled.
Interval == {i \in [from : Time, until : 1..Never] : i.from < i.until}

\* A set of at least threshold members; the ids and keys of the members are
\* distinct.
ValidatorSet ==
  UNION {[threshold : 1..Cardinality(M), interval : Interval,
          members : [M -> Interval]] :
           M \in SUBSET Validators}

ASSUME SetConstants ==
  /\ IsFiniteSet(Validators) /\ MaxTime \in Nat
  /\ Candidates \subseteq ValidatorSet
  /\ None \notin ValidatorSet

VARIABLE sets  \* the registered set with each id

covers(i, t) == i.from <= t /\ t < i.until

\* The members of s that are enabled at time t.
enabled(s, t) == {v \in DOMAIN s.members : covers(s.members[v], t)}

\* The times at which the number of enabled members can change.
boundaries(s) ==
  {t \in {s.interval.from} \cup {s.members[v].from : v \in DOMAIN s.members}
           \cup {s.members[v].until : v \in DOMAIN s.members} :
     t # Never /\ covers(s.interval, t)}

\* The last loop of assertValidatorSet.
assertValidatorSet(s) ==
  \A t \in boundaries(s) : Cardinality(enabled(s, t)) >= s.threshold

\* Mutant: the end of one interval is compared only.
intervalsOverlapLeft(i, j) == i.from < j.until /\ j.from < i.from

intervalsOverlap(i, j) == i.from < j.until /\ j.from < i.until

RegistryInit == sets = [id \in SetIds |-> None]

\* The checks of register.
registerAdmits(id, s) ==
  /\ sets[id] = None
  /\ assertValidatorSet(s)
  /\ \A other \in SetIds :
       sets[other] # None => ~intervalsOverlap(s.interval, sets[other].interval)

Register(id, s) ==
  /\ registerAdmits(id, s)
  /\ sets' = [sets EXCEPT ![id] = s]

\* resolve: the set may judge an attestation that is valid from time t.
resolves(id, t) == sets[id] # None /\ covers(sets[id].interval, t)

-----------------------------------------------------------------------------
\* Types of the registry.
SetsTypeOK == sets \in [SetIds -> Candidates \cup {None}]

\* "Non-overlapping intervals prevent choosing an obsolete weaker set for a
\* new attestation" (ADR 0014): at most one set judges an attestation,
\* rotating never changes which, and that set can reach its threshold at every
\* time it judges, although its members come and go and register looks at the
\* boundaries of their intervals only.
OneSetJudges ==
  \A t \in Time, a \in SetIds : resolves(a, t) =>
    /\ \A b \in SetIds : resolves(b, t) => a = b
    /\ Cardinality(enabled(sets[a], t)) >= sets[a].threshold
=============================================================================
