---------------------------- MODULE PolicyEngine ----------------------------
(***************************************************************************)
(* InMemoryPolicyRegistry, DeterministicPolicyEngine and                   *)
(* TransferPolicyPreflight (packages/core/src/policy-engine.ts), for one   *)
(* policy id.  The operations of the registry are one step each;           *)
(* canTransfer awaits the active version and evaluates its copy of it in a *)
(* later step.                                                             *)
(*                                                                         *)
(* The definitions that assertPolicyDefinition refuses are left out, and   *)
(* so are reason codes, which go with the rules.                           *)
(***************************************************************************)
EXTENDS Undefined, Naturals, Sequences, FiniteSetsExt, Folds

CONSTANTS
  Versions,     \* versions of the policy
  Definitions,  \* rules, a nonempty sequence, with a default outcome
  Inputs,       \* inputs of canTransfer
  Preflights    \* concurrent calls of canTransfer

Outcome == {"ALLOW", "DENY", "REQUIRES_APPROVAL"}

\* A version of the policy: its definition never changes.
PolicyVersion ==
  [status : {"DRAFT", "ACTIVE", "RETIRED"}, definition : Definitions]

ASSUME PolicyConstants ==
  /\ \A d \in Definitions :
       /\ d.rules \in Seq({d.rules[n] : n \in DOMAIN d.rules}) \ {<<>>}
       /\ \A n \in DOMAIN d.rules : d.rules[n].outcome \in Outcome
       /\ d.defaultOutcome \in {"DENY", "REQUIRES_APPROVAL"}
  /\ None \notin Versions \cup PolicyVersion

VARIABLES
  policies,   \* the registry: status and definition of each version
  preflight,  \* the input and the version a call of canTransfer holds
  decided     \* the last decision given, with its input

policyVars == <<policies, preflight, decided>>

PolicyInit ==
  /\ policies = [v \in Versions |-> None]
  /\ preflight = [c \in Preflights |-> None]
  /\ decided = None

activeVersions ==
  {v \in Versions : policies[v] # None /\ policies[v].status = "ACTIVE"}
-----------------------------------------------------------------------------
Register(v, definition, status) ==
  /\ policies[v] = None
  /\ status = "ACTIVE" => activeVersions = {}
  /\ policies' = [policies EXCEPT ![v] =
                    [status |-> status, definition |-> definition]]
  /\ UNCHANGED <<preflight, decided>>

\* activate retires the version in force; a retired one stays retired.
ActivateVersion(v) ==
  /\ policies[v] # None /\ policies[v].status # "RETIRED"
  /\ policies' = [u \in Versions |->
       IF u = v THEN [policies[v] EXCEPT !.status = "ACTIVE"]
       ELSE IF u \in activeVersions THEN [policies[u] EXCEPT !.status = "RETIRED"]
       ELSE policies[u]]
  /\ UNCHANGED <<preflight, decided>>
-----------------------------------------------------------------------------
conditionMatches(when, input) ==
  CASE when.kind = "ALWAYS" -> TRUE
    [] when.kind = "AMOUNT_GREATER_THAN" -> input.amount > when.amount
    [] when.kind = "AMOUNT_AT_MOST" -> input.amount <= when.amount
    [] when.kind = "ASSET_STATUS_IN" -> input.assetStatus \in when.statuses
    [] when.kind = "OPERATION_IN" -> input.operation \in when.operations
    [] when.kind = "NETWORK_PAIR_IN" -> input.networks \in when.pairs
    [] when.kind = "MISSING_REQUIRED_BINDING" -> ~(when.sides \subseteq input.bound)
    [] when.kind = "METADATA_EQUALS" -> input.metadata[when.key] = when.value
    [] when.kind = "METADATA_MISSING" -> input.metadata[when.key] = None

strength(outcome) ==
  CASE outcome = "DENY" -> 3 [] outcome = "REQUIRES_APPROVAL" -> 2 [] OTHER -> 1

\* Mutant: the first rule that matches decides.
strongestFirst(rules, matched) == rules[Min(matched)].outcome

\* matched.reduce: the rules at the matched positions, from the first to the
\* last.
strongest(rules, matched) ==
  MapThenFoldSet(LAMBDA rule, outcome :
                   IF strength(rule.outcome) > strength(outcome)
                     THEN rule.outcome ELSE outcome,
                 "ALLOW", LAMBDA n : rules[n], LAMBDA S : Max(S), matched)

\* The positions of the rules that filter keeps.
matches(rules, input) == {n \in DOMAIN rules : conditionMatches(rules[n].when, input)}

evaluate(policy, input) ==
  LET rules == policy.definition.rules
      matched == matches(rules, input)
  IN  IF policy.status # "ACTIVE" THEN "DENY"
      ELSE IF matched = {} THEN policy.definition.defaultOutcome
      ELSE strongest(rules, matched)

\* canTransfer up to the await; there may be no active version.
GetActive(c, input) ==
  /\ preflight[c] = None
  /\ \/ \E v \in activeVersions :
          preflight' = [preflight EXCEPT ![c] =
            [input |-> input, version |-> v, policy |-> policies[v]]]
     \/ /\ activeVersions = {}
        /\ preflight' = [preflight EXCEPT ![c] =
             [input |-> input, version |-> None, policy |-> None]]
  /\ UNCHANGED <<policies, decided>>

\* canTransfer after the await.
Decide(c) ==
  LET call == preflight[c]
  IN  /\ call # None
      /\ decided' =
           [ input |-> call.input, version |-> call.version,
             outcome |-> IF call.version = None THEN "DENY"
                         ELSE evaluate(call.policy, call.input) ]
      /\ preflight' = [preflight EXCEPT ![c] = None]
      /\ UNCHANGED policies

PolicyNext ==
  \/ \E v \in Versions, d \in Definitions, s \in {"DRAFT", "ACTIVE", "RETIRED"} :
       Register(v, d, s)
  \/ \E v \in Versions : ActivateVersion(v)
  \/ \E c \in Preflights, i \in Inputs : GetActive(c, i)
  \/ \E c \in Preflights : Decide(c)

PolicySpec == PolicyInit /\ [][PolicyNext]_policyVars
-----------------------------------------------------------------------------
\* The outcomes of the rules of a definition that an input meets.
outcomes(definition, input) ==
  {definition.rules[n].outcome : n \in matches(definition.rules, input)}

\* "DENY dominates REQUIRES_APPROVAL, which dominates ALLOW, independent of
\* rule order ... A missing or inactive policy denies by default" (ADR 0008).
\* The versions of a policy never change and one is in force at a time, so
\* that a decision can be repeated from its version and its input, and ALLOW
\* needs a rule that allows and none that objects.
DecisionsAreReproducible ==
  /\ \A u, v \in activeVersions : u = v
  /\ decided # None =>
       IF decided.version = None THEN decided.outcome = "DENY"
       ELSE LET policy == policies[decided.version]
                met == outcomes(policy.definition, decided.input)
            IN  /\ policy.status # "DRAFT"
                /\ decided.outcome =
                     IF "DENY" \in met THEN "DENY"
                     ELSE IF "REQUIRES_APPROVAL" \in met THEN "REQUIRES_APPROVAL"
                     ELSE IF "ALLOW" \in met THEN "ALLOW"
                     ELSE policy.definition.defaultOutcome
=============================================================================
