-------------------------- MODULE BridgeCoordinator --------------------------
(***************************************************************************)
(* The run() loop that CantonToEvmLockMintCoordinator and                  *)
(* EvmToCantonBurnReleaseCoordinator share: several workers drive one      *)
(* bridge operation, each from its own in-memory copy, with external calls *)
(* and durable writes in separate steps, a clock that moves between any    *)
(* two of them, and crashes.  The switch of each coordinator is the table  *)
(* `steps' (modules LockMint and BurnRelease).                             *)
(*                                                                         *)
(* The transaction engine is used through what OperationLog promises; the  *)
(* module TransactionEngine shows that the engine keeps that promise.      *)
(* The networks, the validators and the reconciliation service are         *)
(* external: they are modelled by the interfaces the coordinators call.    *)
(***************************************************************************)
EXTENDS Naturals, Sequences, BridgeStates

CONSTANTS
  Workers,           \* processes that may run() the operation
  steps,             \* steps[s]: what the switch does in state s
  Stages,            \* the stages that keep evidence
  SourceStage,       \* the stage whose call changes the source ledger
  DestinationStage,  \* the stage whose call changes the destination ledger
  ExpiresAt,         \* expiresAt of the operation
  MaxTime,           \* bound of the clock
  MaxCrashes,        \* bound of the number of crashes
  None

Steps ==
  [ stage : Stages \cup {"NONE"}, requires : SUBSET Stages,
    ok : BridgeState, fail : BridgeState ]

Evidence == [ ok : BOOLEAN, expiresAt : Nat ]

\* The order in which an operation passes the states of the switch.
order ==
  [ CREATED |-> 1, POLICY_CHECKED |-> 2, SOURCE_PREPARING |-> 3,
    SOURCE_SUBMITTED |-> 4, SOURCE_CONFIRMED |-> 5, SOURCE_FINALIZED |-> 6,
    ATTESTATION_PENDING |-> 7, ATTESTED |-> 8, DESTINATION_PREPARING |-> 9,
    DESTINATION_SUBMITTED |-> 10, DESTINATION_CONFIRMED |-> 11,
    DESTINATION_FINALIZED |-> 12, RECONCILIATION_PENDING |-> 13,
    RECONCILED |-> 14 ]

before(s) == {u \in BridgeState \ terminal : order[u] < order[s]}

\* What both tables have in common: they ask for legal transitions only;
\* the five stages that the properties are about belong to one state each;
\* a negative answer of finality, attestation or reconciliation ends the
\* operation; a state requires evidence of stages before it only; and the
\* attestation is required before the destination call.
ASSUME CoordinatorConstants ==
  /\ steps \in [BridgeState \ terminal -> Steps]
  /\ \A s \in BridgeState \ terminal :
       canTransition(s, steps[s].ok) /\ canTransition(s, steps[s].fail)
  /\ {"SOURCE_FINALITY", "ATTESTATION", "RECONCILIATION",
      SourceStage, DestinationStage} \subseteq Stages
  /\ \A s \in BridgeState \ terminal :
       /\ steps[s].stage = SourceStage <=> s = "SOURCE_PREPARING"
       /\ steps[s].stage = DestinationStage <=> s = "DESTINATION_PREPARING"
       /\ steps[s].stage = "SOURCE_FINALITY" <=> s = "SOURCE_CONFIRMED"
       /\ steps[s].stage = "ATTESTATION" <=> s = "ATTESTATION_PENDING"
       /\ steps[s].stage = "RECONCILIATION" <=> s = "RECONCILIATION_PENDING"
  /\ steps["SOURCE_CONFIRMED"].fail \in terminal
  /\ steps["ATTESTATION_PENDING"].fail \in terminal
  /\ steps["RECONCILIATION_PENDING"].fail \in terminal
  /\ \A s \in BridgeState \ terminal :
       steps[s].requires \subseteq {steps[u].stage : u \in before(s)}
  /\ steps["DESTINATION_PREPARING"].requires = {"ATTESTATION"}
  /\ "NONE" \notin Stages
  /\ None \notin Evidence
  /\ ExpiresAt \in Nat /\ MaxTime \in Nat /\ MaxCrashes \in Nat

VARIABLES
  log,        \* the operation in the transaction store: states, oldest first
  evidence,   \* bridge_stage_evidence of the operation, by stage
  effects,    \* the ledgers: the stages whose effect took place
  now,        \* the clock
  crashes,    \* how often a worker died or a call failed
  pc,         \* where each worker's run() stands
  held,       \* the copy of the operation a worker holds: state and version
  goal,       \* the state a worker is about to move the operation to
  result      \* what a worker's external call returned, not yet stored

worker == <<pc, held, goal, result>>
vars == <<log, evidence, effects, now, crashes, worker>>

state == log[Len(log)]
version == Len(log) - 1
recorded(to) == \E i \in DOMAIN log : log[i] = to
stored(stage) == evidence[stage] # None

Nothing == [state |-> "NONE", version |-> 0]

Init ==
  /\ log = <<"CREATED">>
  /\ evidence = [s \in Stages |-> None]
  /\ effects = {}
  /\ now = 0
  /\ crashes = 0
  /\ pc = [w \in Workers |-> "idle"]
  /\ held = [w \in Workers |-> Nothing]
  /\ goal = [w \in Workers |-> "NONE"]
  /\ result = [w \in Workers |-> None]

\* run() of worker w ends, by returning or by throwing.
Stop(w) ==
  /\ pc' = [pc EXCEPT ![w] = "idle"]
  /\ held' = [held EXCEPT ![w] = Nothing]
  /\ goal' = [goal EXCEPT ![w] = "NONE"]
  /\ result' = [result EXCEPT ![w] = None]

\* Worker w goes on to the durable transition to state `to'.
Aim(w, to) ==
  /\ goal' = [goal EXCEPT ![w] = to]
  /\ pc' = [pc EXCEPT ![w] = "move"]

\* Mutant: a branch that never looks at what the call answered.
choiceOptimistic(s, ok) == steps[s].ok

choice(s, ok) == IF ok THEN steps[s].ok ELSE steps[s].fail
-----------------------------------------------------------------------------
\* run(): load the operation.
Start(w) ==
  /\ pc[w] = "idle"
  /\ held' = [held EXCEPT ![w] = [state |-> state, version |-> version]]
  /\ pc' = [pc EXCEPT ![w] = "loop"]
  /\ UNCHANGED <<log, evidence, effects, now, crashes, goal, result>>

\* The default branch, or the exit of the loop: nothing is left to do.
Finish(w) ==
  /\ pc[w] = "loop"
  /\ held[w].state \in terminal
  /\ Stop(w)
  /\ UNCHANGED <<log, evidence, effects, now, crashes>>

\* The expiry test at the head of the loop.
Expire(w) ==
  /\ pc[w] = "loop"
  /\ held[w].state \notin terminal
  /\ now >= ExpiresAt
  /\ Aim(w, "EXPIRED")
  /\ UNCHANGED <<log, evidence, effects, now, crashes, held, result>>

\* A branch that stores no evidence: CREATED asks the policy service, whose
\* decision picks the target; the others have one target.
Decide(w) ==
  /\ pc[w] = "loop"
  /\ held[w].state \notin terminal
  /\ now < ExpiresAt
  /\ steps[held[w].state].stage = "NONE"
  /\ \E ok \in BOOLEAN : Aim(w, choice(held[w].state, ok))
  /\ UNCHANGED <<log, evidence, effects, now, crashes, held, result>>

\* A branch with evidence is entered.
Enter(w) ==
  /\ pc[w] = "loop"
  /\ held[w].state \notin terminal
  /\ now < ExpiresAt
  /\ steps[held[w].state].stage # "NONE"
  /\ pc' = [pc EXCEPT ![w] = "evidence"]
  /\ UNCHANGED <<log, evidence, effects, now, crashes, held, goal, result>>

requirementsMet(w) == \A r \in steps[held[w].state].requires : stored(r)

\* DESTINATION_PREPARING gives up when the attestation is no longer valid,
\* and does so before it looks for evidence of the destination call.
attestationExpired(w) ==
  /\ steps[held[w].state].stage = DestinationStage
  /\ now >= evidence["ATTESTATION"].expiresAt

\* Mutant: stored evidence is not looked for, the call is always made.
LookUpAlwaysCalls(w) ==
  /\ pc[w] = "evidence"
  /\ requirementsMet(w)
  /\ \/ /\ attestationExpired(w)
        /\ Aim(w, "DESTINATION_FAILED")
        /\ UNCHANGED <<held, result>>
     \/ /\ ~attestationExpired(w)
        /\ pc' = [pc EXCEPT ![w] = "call"]
        /\ UNCHANGED <<held, goal, result>>
  /\ UNCHANGED <<log, evidence, effects, now, crashes>>

\* requiredEvidence, the expiry test of the attestation, and the look-up in
\* #evidence: stored evidence is used, otherwise the call is made.
LookUp(w) ==
  LET s == held[w].state
      g == steps[s].stage
  IN
  /\ pc[w] = "evidence"
  /\ \/ /\ ~requirementsMet(w)
        /\ Stop(w)
     \/ /\ requirementsMet(w)
        /\ attestationExpired(w)
        /\ Aim(w, "DESTINATION_FAILED")
        /\ UNCHANGED <<held, result>>
     \/ /\ requirementsMet(w)
        /\ ~attestationExpired(w)
        /\ stored(g)
        /\ Aim(w, choice(s, evidence[g].ok))
        /\ UNCHANGED <<held, result>>
     \/ /\ requirementsMet(w)
        /\ ~attestationExpired(w)
        /\ ~stored(g)
        /\ pc' = [pc EXCEPT ![w] = "call"]
        /\ UNCHANGED <<held, goal, result>>
  /\ UNCHANGED <<log, evidence, effects, now, crashes>>

\* External: the answers a service can give.  A network confirms or
\* finalizes only what took place on it, validators attest only what they
\* observed, and reconciliation matches only when both sides moved; each of
\* them may also answer no.  The two ledger calls have no negative answer.
mayAnswerYes(g) ==
  CASE g \in {SourceStage, DestinationStage} -> TRUE
    [] g \in {"SOURCE_CONFIRMATION", "SOURCE_FINALITY", "ATTESTATION"} ->
         SourceStage \in effects
    [] g \in {"DESTINATION_CONFIRMATION", "DESTINATION_FINALITY"} ->
         DestinationStage \in effects
    [] OTHER -> {SourceStage, DestinationStage} \subseteq effects

mayAnswerNo(g) == g \notin {SourceStage, DestinationStage}

\* External: the destination executes an operation once.  A repeated call is
\* answered ALREADY_PROCESSED; a first one needs a valid attestation.
destinationAccepts ==
  DestinationStage \in effects \/ now < evidence["ATTESTATION"].expiresAt

\* produce(): the external call.  Both ledgers deduplicate by operation id,
\* so that a repeated call has no second effect.
Call(w) ==
  LET g == steps[held[w].state].stage IN
  /\ pc[w] = "call"
  /\ g = DestinationStage => destinationAccepts
  /\ \E ok \in BOOLEAN, expiresAt \in 0..(MaxTime + 1) :
       /\ IF ok THEN mayAnswerYes(g) ELSE mayAnswerNo(g)
       /\ IF g = "ATTESTATION" THEN expiresAt > now ELSE expiresAt = 0
       /\ result' = [result EXCEPT ![w] = [ok |-> ok, expiresAt |-> expiresAt]]
  /\ effects' = effects \cup ({g} \cap {SourceStage, DestinationStage})
  /\ pc' = [pc EXCEPT ![w] = "put"]
  /\ UNCHANGED <<log, evidence, now, crashes, held, goal>>

\* The destination rejects the expired attestation and run() throws.
CallRefused(w) ==
  /\ pc[w] = "call"
  /\ steps[held[w].state].stage = DestinationStage
  /\ ~destinationAccepts
  /\ Stop(w)
  /\ UNCHANGED <<log, evidence, effects, now, crashes>>

\* Mutant: the transition is made with the evidence still in memory only.
PutForgets(w) ==
  /\ pc[w] = "put"
  /\ Aim(w, choice(held[w].state, result[w].ok))
  /\ result' = [result EXCEPT ![w] = None]
  /\ UNCHANGED <<log, evidence, effects, now, crashes, held>>

\* evidence.put: inserted once; an equal record is accepted, any other gets
\* CONFLICT and run() throws.  Records made by two workers differ in
\* recordedAt unless they were made in the same instant, so that equal
\* answers may conflict as well.
Put(w) ==
  LET g == steps[held[w].state].stage IN
  /\ pc[w] = "put"
  /\ \/ /\ ~stored(g) \/ evidence[g] = result[w]
        /\ evidence' = [evidence EXCEPT ![g] = result[w]]
        /\ Aim(w, choice(held[w].state, result[w].ok))
        /\ result' = [result EXCEPT ![w] = None]
        /\ UNCHANGED held
     \/ /\ stored(g)
        /\ Stop(w)
        /\ UNCHANGED evidence
  /\ UNCHANGED <<log, effects, now, crashes>>

\* engine.transition with key `<id>:<to>' and the version held in memory.
\* A worker that is behind catches up when its target was recorded already,
\* unless it lost the race inside append; every other stale or illegal
\* command is a CONFLICT, and run() throws.
Move(w) ==
  LET to == goal[w] IN
  /\ pc[w] = "move"
  /\ \/ /\ canTransition(state, to)
        /\ held[w].version = version
        /\ log' = Append(log, to)
        /\ held' = [held EXCEPT ![w] = [state |-> to, version |-> version + 1]]
        /\ pc' = [pc EXCEPT ![w] = "loop"]
        /\ goal' = [goal EXCEPT ![w] = "NONE"]
        /\ UNCHANGED result
     \/ /\ recorded(to)
        /\ held' = [held EXCEPT ![w] = [state |-> state, version |-> version]]
        /\ pc' = [pc EXCEPT ![w] = "loop"]
        /\ goal' = [goal EXCEPT ![w] = "NONE"]
        /\ UNCHANGED <<log, result>>
     \/ /\ ~canTransition(state, to) \/ held[w].version # version
        /\ Stop(w)
        /\ UNCHANGED log
  /\ UNCHANGED <<evidence, effects, now, crashes>>

\* The process dies, or an external call or the database fails: what was
\* stored and what reached a ledger stays.
Crash(w) ==
  /\ pc[w] # "idle"
  /\ crashes < MaxCrashes
  /\ crashes' = crashes + 1
  /\ Stop(w)
  /\ UNCHANGED <<log, evidence, effects, now>>

Tick ==
  /\ now < MaxTime
  /\ now' = now + 1
  /\ UNCHANGED <<log, evidence, effects, crashes, worker>>

Run(w) ==
  \/ Start(w) \/ Finish(w) \/ Expire(w) \/ Decide(w) \/ Enter(w) \/ LookUp(w)
  \/ Call(w) \/ CallRefused(w) \/ Put(w) \/ Move(w)

Next == Tick \/ \E w \in Workers : Run(w) \/ Crash(w)

Spec == Init /\ [][Next]_vars

\* Somebody runs the operation again until it ends, and a worker that is
\* not killed goes on.
FairSpec == Spec /\ \A w \in Workers : WF_vars(Run(w))
-----------------------------------------------------------------------------
\* Types; a worker has a target exactly while it moves the operation, an
\* unsaved answer exactly while it stores it, and otherwise holds a copy.
TypeOK ==
  /\ log \in Seq(BridgeState) /\ log # <<>>
  /\ evidence \in [Stages -> Evidence \cup {None}]
  /\ effects \subseteq {SourceStage, DestinationStage}
  /\ now \in 0..MaxTime /\ crashes \in 0..MaxCrashes
  /\ pc \in [Workers -> {"idle", "loop", "evidence", "call", "put", "move"}]
  /\ held \in [Workers -> [state : BridgeState \cup {"NONE"}, version : Nat]]
  /\ goal \in [Workers -> BridgeState \cup {"NONE"}]
  /\ result \in [Workers -> Evidence \cup {None}]
  /\ \A w \in Workers :
       /\ pc[w] = "idle" <=> held[w].state = "NONE"
       /\ pc[w] = "move" <=> goal[w] # "NONE"
       /\ pc[w] = "put" <=> result[w] # None

positive(stage) == stored(stage) /\ evidence[stage].ok

\* The destination ledger is changed only for an operation whose source
\* ledger was changed, whose source finality was found, and which a
\* threshold of validators attested: whatever stale copies the workers
\* hold, whichever of them crashed, and whoever asks.
DestinationBacked ==
  DestinationStage \in effects =>
    /\ SourceStage \in effects
    /\ positive("SOURCE_FINALITY")
    /\ positive("ATTESTATION")

\* requiredEvidence never throws: every state is entered with the evidence
\* its branch needs already durable, so that a restarted worker can go on.
NoMissingEvidence ==
  \A w \in Workers : pc[w] = "evidence" => requirementsMet(w)

\* COMPLETED is reported only after both ledgers moved and reconciliation
\* found a match; RECONCILIATION_FAILED never turns into it.
CompletedIsReconciled ==
  recorded("COMPLETED") =>
    /\ effects = {SourceStage, DestinationStage}
    /\ positive("RECONCILIATION")

\* Evidence of a stage is written once; a second answer of the service,
\* from a worker that raced or restarted, never replaces it.
EvidenceImmutable ==
  [][\A g \in Stages : stored(g) => evidence'[g] = evidence[g]]_vars

\* The workers together change the operation along legal transitions only.
Abstract == INSTANCE OperationLog WITH
  Ops <- {"operation"}, log <- [o \in {"operation"} |-> log]

ImplementsOperationLog ==
  [][\E to \in BridgeState : Abstract!Advance("operation", to)]_log

\* With finitely many failures, every operation ends: no interleaving of
\* stale workers, conflicting evidence and expiry leaves it in between.
EventuallyEnds == <>(state \in terminal)

\* A retry of the destination step uses the evidence that was stored for it
\* ("Retries reuse stored evidence", ADR 0018).
RetriesReuseEvidence ==
  \A i \in 1..(Len(log) - 1) :
    (log[i] = "DESTINATION_PREPARING" /\ log[i + 1] = "DESTINATION_FAILED")
      => ~stored(DestinationStage)
=============================================================================
