------------------------------- MODULE Gateway -------------------------------
(***************************************************************************)
(* The Ethereum side (contracts/ethereum): InterWeaveGateway with the      *)
(* AttestationVerifier, the InterWeaveAssetRegistry, the representation    *)
(* tokens and the EmergencyController.  Every function is one atomic       *)
(* transaction; anybody may relay one, again and in any order, between the *)
(* rotations of the validators, pauses and changes of the registry.        *)
(*                                                                         *)
(* The source network and the validators are external.  An honest          *)
(* validator signs any execution of a source event that is final, under    *)
(* any validity window, and signs nothing else; a faulty one signs         *)
(* whatever it is asked to.  Signatures are not state: who could sign is.  *)
(* The digest binds the receiver like the asset, so the receiver is left   *)
(* out; an asset keeps the addresses of its tokens, of which one may be    *)
(* missing; the holders' balances are abstracted to their sum.             *)
(***************************************************************************)
EXTENDS Undefined, Integers, FiniteSetsExt, Sequences, SequencesExt

CONSTANTS
  Ops,         \* bridge operation ids
  Assets,      \* logical assets
  Amounts,     \* token amounts; an amount of zero reverts
  Addresses,   \* addresses of possible validators: positive numbers
  Faulty,      \* those that do not follow the protocol
  Windows,     \* validity windows, pairs of validFrom and expiresAt
  MaxTime,     \* bound of the clock
  MaxSignatures,  \* bound of the number of signatures of one call
  Reserve      \* underlying tokens the gateway holds at first, per asset

\* The effects of an operation on this network.
Effect == {"MINT", "RELEASE", "BURN"}

\* A final event of the source network: what it authorizes here.
SourceEvent == [effect : {"MINT", "RELEASE"}, asset : Assets, amount : Amounts]

\* What executionDigest binds together.
Execution ==
  [op : Ops, effect : {"MINT", "RELEASE"}, asset : Assets, amount : Amounts,
   window : Windows]

ASSUME GatewayConstants ==
  /\ IsFiniteSet(Ops)
  /\ Amounts \subseteq Nat \ {0}
  /\ Addresses \subseteq Nat \ {0} /\ IsFiniteSet(Addresses)
  /\ Faulty \subseteq Addresses
  /\ Windows \subseteq Nat \X Nat
  /\ MaxTime \in Nat /\ Reserve \in Nat /\ MaxSignatures \in Nat
  /\ None \notin SourceEvent

VARIABLES
  event,        \* external: the final source event of each operation
  isValidator,  \* the enabled validators
  threshold,    \* the number of signatures that an execution needs
  paused,       \* the gateway is paused
  available,    \* the effects that the registry's entry of an asset allows
  processed,    \* the pairs of an operation and an effect that took place
  supply,       \* totalSupply of each asset's representation
  custody,      \* underlying tokens of each asset held by the gateway
  now,          \* block.timestamp
  executed      \* history: what was done, by operation and effect

settings == <<isValidator, threshold, paused, available>>
vars == <<event, settings, processed, supply, custody, now, executed>>

\* Assumption on the validator administration: it never lets the faulty
\* validators reach the threshold on their own.
trusted(validators, t) == Cardinality(validators \cap Faulty) < t

Init ==
  /\ event = [o \in Ops |-> None]
  /\ isValidator \in SUBSET Addresses
  /\ threshold \in 1..Cardinality(Addresses)
  /\ trusted(isValidator, threshold)
  /\ paused = FALSE
  /\ available = [a \in Assets |-> {"MINT", "RELEASE"}]
  /\ processed = {}
  /\ supply = [a \in Assets |-> 0]
  /\ custody = [a \in Assets |-> Reserve]
  /\ now = 0
  /\ executed = [o \in Ops |-> [e \in Effect |-> <<>>]]
-----------------------------------------------------------------------------
\* External: an event of operation o becomes final on the source network.
Finalize(o, e) ==
  /\ event[o] = None
  /\ event' = [event EXCEPT ![o] = e]
  /\ UNCHANGED <<settings, processed, supply, custody, now, executed>>

\* setValidator and setThreshold, under the assumption above.
SetValidator(v, enabled) ==
  /\ isValidator' = IF enabled THEN isValidator \cup {v} ELSE isValidator \ {v}
  /\ trusted(isValidator', threshold)
  /\ UNCHANGED <<event, threshold, paused, available, processed, supply, custody,
                 now, executed>>

SetThreshold(t) ==
  /\ t # 0
  /\ threshold' = t
  /\ trusted(isValidator, t)
  /\ UNCHANGED <<event, isValidator, paused, available, processed, supply, custody,
                 now, executed>>

\* pause and unpause, also through the EmergencyController.
SetPaused(p) ==
  /\ paused # p
  /\ paused' = p
  /\ UNCHANGED <<event, isValidator, threshold, available, processed, supply,
                 custody, now, executed>>

\* configure: an enabled asset can be minted when it has a representation,
\* and released when it has an underlying token.
Configure(a, effects) ==
  /\ available' = [available EXCEPT ![a] = effects]
  /\ UNCHANGED <<event, isValidator, threshold, paused, processed, supply, custody,
                 now, executed>>
-----------------------------------------------------------------------------
\* Who could have signed the digest of execution x: a signature on another
\* digest recovers to an address that is no validator.
maySign(v, x) ==
  \/ v \in Faulty
  \/ event[x.op] = [effect |-> x.effect, asset |-> x.asset, amount |-> x.amount]

\* Mutant: equal neighbours pass the order of the signers.
inOrderWeakly(signers) ==
  \A i \in 2..Len(signers) : signers[i] >= signers[i - 1]

\* The loop of verify: every signer is greater than the one before it.
inOrder(signers) ==
  \A i \in 2..Len(signers) : signers[i] > signers[i - 1]

\* verify: the window, the number of signatures, and the signers.
verify(x, signers) ==
  /\ x.window[1] <= now /\ now < x.window[2]
  /\ Len(signers) >= threshold
  /\ inOrder(signers)
  /\ \A i \in DOMAIN signers : signers[i] \in isValidator /\ maySign(signers[i], x)

\* Mutant: processed operations are executed again.
consumeAgain(o, e) == processed' = processed \cup {<<o, e>>}

\* An operation has an effect once, whoever relays it.
consume(o, e) ==
  /\ <<o, e>> \notin processed
  /\ processed' = processed \cup {<<o, e>>}

\* The history of what was done.
done(o, e, a, n) ==
  executed' = [executed EXCEPT ![o][e] = Append(@, [asset |-> a, amount |-> n])]

\* executeMint.
ExecuteMint(x, signers) ==
  /\ ~paused
  /\ x.effect = "MINT" /\ "MINT" \in available[x.asset]
  /\ consume(x.op, "MINT")
  /\ verify(x, signers)
  /\ supply' = [supply EXCEPT ![x.asset] = @ + x.amount]
  /\ done(x.op, "MINT", x.asset, x.amount)
  /\ UNCHANGED <<event, settings, custody, now>>

\* executeRelease: the transfer reverts when the gateway does not hold enough.
ExecuteRelease(x, signers) ==
  /\ ~paused
  /\ x.effect = "RELEASE" /\ "RELEASE" \in available[x.asset]
  /\ consume(x.op, "RELEASE")
  /\ verify(x, signers)
  /\ custody[x.asset] >= x.amount
  /\ custody' = [custody EXCEPT ![x.asset] = @ - x.amount]
  /\ done(x.op, "RELEASE", x.asset, x.amount)
  /\ UNCHANGED <<event, settings, supply, now>>

\* burnRepresentation, by an owner of enough tokens.
BurnRepresentation(o, a, n) ==
  /\ ~paused
  /\ "MINT" \in available[a]
  /\ consume(o, "BURN")
  /\ supply[a] >= n
  /\ supply' = [supply EXCEPT ![a] = @ - n]
  /\ done(o, "BURN", a, n)
  /\ UNCHANGED <<event, settings, custody, now>>

Tick ==
  /\ now < MaxTime
  /\ now' = now + 1
  /\ UNCHANGED <<event, settings, processed, supply, custody, executed>>

Signers == BoundedSeq(Addresses, MaxSignatures)

Next ==
  \/ \E o \in Ops, e \in SourceEvent : Finalize(o, e)
  \/ \E v \in Addresses, enabled \in BOOLEAN : SetValidator(v, enabled)
  \/ \E t \in 0..Cardinality(Addresses) : SetThreshold(t)
  \/ \E p \in BOOLEAN : SetPaused(p)
  \/ \E a \in Assets, effects \in SUBSET {"MINT", "RELEASE"} : Configure(a, effects)
  \/ \E x \in Execution, signers \in Signers : ExecuteMint(x, signers)
  \/ \E x \in Execution, signers \in Signers : ExecuteRelease(x, signers)
  \/ \E o \in Ops, a \in Assets, n \in Amounts : BurnRepresentation(o, a, n)
  \/ Tick

Spec == Init /\ [][Next]_vars
-----------------------------------------------------------------------------
\* Types: in particular the balances stay natural numbers.
TypeOK ==
  /\ event \in [Ops -> SourceEvent \cup {None}]
  /\ isValidator \subseteq Addresses
  /\ threshold \in Nat \ {0}
  /\ paused \in BOOLEAN
  /\ available \in [Assets -> SUBSET {"MINT", "RELEASE"}]
  /\ processed \subseteq Ops \X Effect
  /\ supply \in [Assets -> Nat] /\ custody \in [Assets -> Nat]
  /\ now \in 0..MaxTime
  /\ executed \in [Ops -> [Effect -> Seq([asset : Assets, amount : Amounts])]]

\* "The gateway executes only after threshold verification" and "effect
\* binding prevents mint signatures from authorizing release" (ADR 0016):
\* as long as the faulty validators stay below the threshold, a mint or a
\* release is what the source network finalized for that operation, whatever
\* is signed, relayed, rotated or reconfigured in between.  A pause or a
\* rotation "does not erase replay state": however often an execution is
\* relayed and signed, it takes place once, and so does a burn.
ExecutedAsObserved ==
  /\ \A o \in Ops, e \in Effect : Len(executed[o][e]) <= 1
  /\ \A o \in Ops, e \in {"MINT", "RELEASE"} :
       \A i \in DOMAIN executed[o][e] :
         event[o] = [effect |-> e, asset |-> executed[o][e][i].asset,
                     amount |-> executed[o][e][i].amount]

\* What the source network finalized for an effect on asset a.
observed(e, a) ==
  MapThenSumSet(LAMBDA o : event[o].amount,
    {o \in Ops : event[o] # None /\ event[o].effect = e /\ event[o].asset = a})

\* The representations in circulation and the underlying tokens paid out are
\* covered by final events of the source network, asset by asset.
OutflowIsObserved ==
  \A a \in Assets :
    /\ supply[a] <= observed("MINT", a)
    /\ Reserve - custody[a] <= observed("RELEASE", a)
=============================================================================
