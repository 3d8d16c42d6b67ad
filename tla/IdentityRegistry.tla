-------------------------- MODULE IdentityRegistry --------------------------
(***************************************************************************)
(* InMemoryIdentityRegistry (packages/core/src/identity-registry.ts):      *)
(* identities, challenges to prove the control of a network locator, and   *)
(* the bindings that a verified proof creates.                             *)
(*                                                                         *)
(* verifyChallenge awaits the proof verifier.  Its checks of the challenge *)
(* come before (VerifyChallenge), the binding after it (Bind), and other   *)
(* calls run in between.  It holds on to the challenge and the time that   *)
(* it read first.  The other operations are one step each: the await in    *)
(* issueChallenge separates nothing that can change.                       *)
(***************************************************************************)
EXTENDS Undefined, Naturals, FiniteSets

CONSTANTS
  Identities,   \* identity ids
  Locators,     \* a network with a normalized locator on it
  Challenges,   \* challenge ids
  Callers,      \* concurrent calls of verifyChallenge
  MaxBindings,  \* bound of the number of bindings
  MaxTime       \* bound of the clock

Time == 0..MaxTime

Challenge ==
  [identityId : Identities, locator : Locators, expiresAt : Time, consumed : BOOLEAN]

\* A binding with the challenge that its audit event names.
NetworkIdentity ==
  [ bindingId : 1..MaxBindings, locator : Locators, verifiedAt : Time,
    expiresAt : Time \cup {None}, revoked : BOOLEAN, challengeId : Challenges ]

Call ==
  [challengeId : Challenges, challenge : Challenge, now : Time,
   expiresAt : Time \cup {None}]

ASSUME RegistryConstants ==
  /\ MaxBindings \in Nat /\ MaxTime \in Nat
  /\ None \notin Challenge \cup Call \cup Time

VARIABLES
  identities,  \* the identities that exist
  bindings,    \* the bindings of each identity
  challenges,  \* the challenge with each id
  call,        \* what a call of verifyChallenge holds during the await
  now          \* the clock

identityVars == <<identities, bindings, challenges, call, now>>

IdentityInit ==
  /\ identities = {}
  /\ bindings = [i \in Identities |-> {}]
  /\ challenges = [c \in Challenges |-> None]
  /\ call = [v \in Callers |-> None]
  /\ now = 0

allBindings == UNION {bindings[i] : i \in Identities}

\* Neither revoked nor expired at time t.
active(b, t) == ~b.revoked /\ (b.expiresAt # None => b.expiresAt > t)
-----------------------------------------------------------------------------
CreateIdentity(i) ==
  /\ i \notin identities
  /\ identities' = identities \cup {i}
  /\ UNCHANGED <<bindings, challenges, call, now>>

\* issueChallenge with an expiry in the future.
IssueChallenge(c, i, l, e) ==
  /\ challenges[c] = None
  /\ i \in identities
  /\ e > now
  /\ challenges' = [challenges EXCEPT ![c] =
       [identityId |-> i, locator |-> l, expiresAt |-> e, consumed |-> FALSE]]
  /\ UNCHANGED <<identities, bindings, call, now>>

\* verifyChallenge up to the await; a failed check ends the call.
VerifyChallenge(v, c, e) ==
  /\ call[v] = None
  /\ challenges[c] # None
  /\ ~challenges[c].consumed
  /\ now < challenges[c].expiresAt
  /\ e # None => e > now
  /\ call' = [call EXCEPT ![v] =
       [challengeId |-> c, challenge |-> challenges[c], now |-> now, expiresAt |-> e]]
  /\ UNCHANGED <<identities, bindings, challenges, now>>

\* External: the proof is not verified, and the call throws.
Refuse(v) ==
  /\ call[v] # None
  /\ call' = [call EXCEPT ![v] = None]
  /\ UNCHANGED <<identities, bindings, challenges, now>>

newBinding(v) ==
  [ bindingId |-> Cardinality(allBindings) + 1, locator |-> call[v].challenge.locator,
    verifiedAt |-> call[v].now, expiresAt |-> call[v].expiresAt, revoked |-> FALSE,
    challengeId |-> call[v].challengeId ]

addBinding(i, b) == bindings' = [bindings EXCEPT ![i] = @ \cup {b}]

\* The challenge that was read before the await is stored as consumed.
consume(v) ==
  challenges' = [challenges EXCEPT
    ![call[v].challengeId] = [call[v].challenge EXCEPT !.consumed = TRUE]]

\* Mutant: only the bindings of the challenge's own identity are searched.
takenByOwner(v) ==
  \E b \in bindings[call[v].challenge.identityId] :
    active(b, call[v].now) /\ b.locator = call[v].challenge.locator

\* The locator has an active binding, at the time read before the await.
taken(v) ==
  \E b \in allBindings :
    active(b, call[v].now) /\ b.locator = call[v].challenge.locator

\* verifyChallenge after the await.
Bind(v) ==
  /\ call[v] # None
  /\ \/ /\ ~taken(v)
        /\ Cardinality(allBindings) < MaxBindings
        /\ addBinding(call[v].challenge.identityId, newBinding(v))
        /\ consume(v)
     \/ taken(v) /\ UNCHANGED <<bindings, challenges>>
  /\ call' = [call EXCEPT ![v] = None]
  /\ UNCHANGED <<identities, now>>

\* revokeBinding, also of a binding that has expired.
RevokeBinding(i, b) ==
  /\ ~b.revoked
  /\ bindings' = [bindings EXCEPT ![i] = (@ \ {b}) \cup {[b EXCEPT !.revoked = TRUE]}]
  /\ UNCHANGED <<identities, challenges, call, now>>

\* External: the clock.
IdentityTick ==
  /\ now < MaxTime
  /\ now' = now + 1
  /\ UNCHANGED <<identities, bindings, challenges, call>>

IdentityNext ==
  \/ \E i \in Identities : CreateIdentity(i)
  \/ \E c \in Challenges, i \in Identities, l \in Locators, e \in Time :
       IssueChallenge(c, i, l, e)
  \/ \E v \in Callers, c \in Challenges, e \in Time \cup {None} :
       VerifyChallenge(v, c, e)
  \/ \E v \in Callers : Refuse(v)
  \/ \E v \in Callers : Bind(v)
  \/ \E i \in Identities : \E b \in bindings[i] : RevokeBinding(i, b)
  \/ IdentityTick

IdentitySpec == IdentityInit /\ [][IdentityNext]_identityVars
-----------------------------------------------------------------------------
\* "... and rejects a locator already actively bound on the same network"
\* (ADR 0007): however the calls interleave at the await, and although the
\* search uses the time of before it, a locator has one active binding among
\* all identities.
OneActiveBinding ==
  \A b, d \in allBindings :
    active(b, now) /\ active(d, now) /\ b.locator = d.locator => b = d

\* "A binding begins with a short-lived, single-use challenge" (ADR 0007).
SingleUse ==
  \A b, d \in allBindings : b.challengeId = d.challengeId => b = d
=============================================================================
