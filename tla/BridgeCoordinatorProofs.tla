----------------------- MODULE BridgeCoordinatorProofs -----------------------
(***************************************************************************)
(* The coordinator loop, for any number of workers and crashes, any expiry *)
(* times, and any table that satisfies CoordinatorConstants.               *)
(***************************************************************************)
EXTENDS BridgeCoordinator, TLAPS

\* The states an operation can only reach through positive evidence of
\* source finality, of a threshold attestation, and of reconciliation.
AfterReconciliation == {"RECONCILED", "COMPLETED"}

AfterAttestation ==
  { "ATTESTED", "DESTINATION_PREPARING", "DESTINATION_SUBMITTED",
    "DESTINATION_CONFIRMED", "DESTINATION_FINALIZED", "DESTINATION_FAILED",
    "RECONCILIATION_PENDING", "RECONCILED", "RECONCILIATION_FAILED",
    "COMPLETED" }

AfterFinality ==
  { "SOURCE_FINALIZED", "ATTESTATION_PENDING", "ATTESTATION_FAILED" }
    \cup AfterAttestation

\* The durable evidence that a state rests on: yes of the three services, and
\* some answer at every stage that was passed.
PositiveIn(ev, g) == ev[g] # None /\ ev[g].ok

PassedIn(ev, s) ==
  \A u \in before(s) : steps[u].stage \in Stages => ev[steps[u].stage] # None

SupportedBy(ev, s) ==
  /\ s \in BridgeState \ terminal => PassedIn(ev, s)
  /\ s \in AfterFinality => PositiveIn(ev, "SOURCE_FINALITY")
  /\ s \in AfterAttestation => PositiveIn(ev, "ATTESTATION")
  /\ s \in AfterReconciliation => PositiveIn(ev, "RECONCILIATION")

OccursIn(l, s) == \E i \in DOMAIN l : l[i] = s

\* A worker at p holds a recorded state, aims at a supported one, and works
\* on a stage only in a state that has one.
WorkerSupport(l, ev, p, h, to) ==
  /\ p # "idle" => OccursIn(l, h.state)
  /\ p = "move" => SupportedBy(ev, to)
  /\ p \in {"evidence", "call", "put"} =>
       h.state \notin terminal /\ steps[h.state].stage \in Stages

StateSupport ==
  /\ \A i \in DOMAIN log : SupportedBy(evidence, log[i])
  /\ \A w \in Workers : WorkerSupport(log, evidence, pc[w], held[w], goal[w])

\* What a yes of source finality or of reconciliation says of the ledgers.
Witness(eff, g, answer) ==
  answer.ok =>
    /\ g = "SOURCE_FINALITY" => SourceStage \in eff
    /\ g = "RECONCILIATION" => {SourceStage, DestinationStage} \subseteq eff

\* Answers, stored or still in memory, are true of the ledgers.
Honest ==
  /\ \A g \in Stages : evidence[g] # None => Witness(effects, g, evidence[g])
  /\ \A w \in Workers :
       pc[w] = "put" => Witness(effects, steps[held[w].state].stage, result[w])

\* The destination ledger moved only for an attested operation.
EffectSupport ==
  DestinationStage \in effects => SupportedBy(evidence, "DESTINATION_PREPARING")

IInv == TypeOK /\ StateSupport /\ Honest /\ EffectSupport

\* A transition between states of the switch is to the next one.
LEMMA NextInOrder ==
  ASSUME NEW s \in BridgeState \ terminal, NEW t \in BridgeState \ terminal,
         <<s, t>> \in forward
  PROVE  before(t) \subseteq before(s) \cup {s}
<1>1. /\ order \in [BridgeState \ terminal -> Nat]
      /\ \A u, v \in BridgeState \ terminal : order[u] = order[v] => u = v
  BY DEF order, BridgeState, terminal
<1>2. order[t] = order[s] + 1
  BY DEF order, forward, terminal
<1> HIDE DEF order
<1> QED
  BY <1>1, <1>2 DEF before

\* A legal transition leads from a supported state to a supported state,
\* given the evidence that the three evaluating branches look at.
LEMMA TargetSupported ==
  ASSUME NEW ev, NEW s \in BridgeState \ terminal, NEW to \in BridgeState,
         canTransition(s, to), SupportedBy(ev, s),
         to \notin terminal /\ steps[s].stage \in Stages
           => ev[steps[s].stage] # None,
         s = "SOURCE_CONFIRMED" /\ to \notin terminal
           => PositiveIn(ev, "SOURCE_FINALITY"),
         s = "ATTESTATION_PENDING" /\ to \notin terminal
           => PositiveIn(ev, "ATTESTATION"),
         s = "RECONCILIATION_PENDING" /\ to \notin terminal
           => PositiveIn(ev, "RECONCILIATION")
  PROVE  SupportedBy(ev, to)
<1>1. to \in {"MANUAL_REVIEW", "EXPIRED"} \/ <<s, to>> \in forward
  BY DEF canTransition
<1>2. to \in AfterFinality =>
        s \in AfterFinality \/ (s = "SOURCE_CONFIRMED" /\ to \notin terminal)
  BY <1>1 DEF forward, AfterFinality, AfterAttestation, terminal
<1>3. to \in AfterAttestation =>
        s \in AfterAttestation \/ (s = "ATTESTATION_PENDING" /\ to \notin terminal)
  BY <1>1 DEF forward, AfterAttestation, terminal
<1>4. to \in AfterReconciliation =>
        s \in AfterReconciliation
          \/ (s = "RECONCILIATION_PENDING" /\ to \notin terminal)
  BY <1>1 DEF forward, AfterReconciliation, terminal
<1>5. ASSUME to \notin terminal PROVE PassedIn(ev, to)
  <2>1. <<s, to>> \in forward
    BY <1>1, <1>5 DEF terminal
  <2>2. before(to) \subseteq before(s) \cup {s}
    BY <1>5, <2>1, NextInOrder
  <2> QED
    BY <1>5, <2>2 DEF SupportedBy, PassedIn
<1> QED
  BY <1>2, <1>3, <1>4, <1>5 DEF SupportedBy

\* A step of the table is typed and legal.
LEMMA StepType ==
  ASSUME NEW s \in BridgeState \ terminal
  PROVE  /\ steps[s] \in Steps
         /\ steps[s].ok \in BridgeState /\ steps[s].fail \in BridgeState
         /\ steps[s].stage \in Stages \cup {"NONE"}
         /\ canTransition(s, steps[s].ok) /\ canTransition(s, steps[s].fail)
         /\ \A b \in BOOLEAN : /\ choice(s, b) \in BridgeState
                               /\ canTransition(s, choice(s, b))
BY CoordinatorConstants DEF Steps, choice

\* Every action keeps the types.
LEMMA TypeInvariance ==
  ASSUME TypeOK, [Next]_vars,
         \A w \in Workers : pc[w] \in {"evidence", "call", "put"} =>
           held[w].state \in BridgeState \ terminal
             /\ steps[held[w].state].stage \in Stages
  PROVE  TypeOK'
<1> USE CoordinatorConstants
<1>0. ASSUME NEW w \in Workers, pc[w] # "put", UNCHANGED result
      PROVE  result' = [result EXCEPT ![w] = None]
  BY <1>0 DEF TypeOK
<1>1. ASSUME NEW w \in Workers, Stop(w), UNCHANGED <<log, evidence, effects, now>>,
             crashes' \in 0..MaxCrashes
      PROVE  TypeOK'
  BY <1>1 DEF Stop, TypeOK, Nothing
<1>2. ASSUME NEW w \in Workers, NEW to \in BridgeState, Aim(w, to), pc[w] # "idle",
             pc[w] # "move",
             result' = [result EXCEPT ![w] = None],
             UNCHANGED <<log, effects, now, crashes, held>>,
             evidence' \in [Stages -> Evidence \cup {None}]
      PROVE  TypeOK'
  <2>1. to # "NONE"
    BY <1>2 DEF BridgeState
  <2>2. /\ pc' = [pc EXCEPT ![w] = "move"]
        /\ goal' = [goal EXCEPT ![w] = to]
    BY <1>2 DEF Aim
  <2>3. /\ pc' \in [Workers -> {"idle", "loop", "evidence", "call", "put", "move"}]
        /\ goal' \in [Workers -> BridgeState \cup {"NONE"}]
        /\ result' \in [Workers -> Evidence \cup {None}]
    BY <1>2, <2>2 DEF TypeOK
  <2>4. ASSUME NEW v \in Workers
        PROVE  /\ pc'[v] = "idle" <=> held'[v].state = "NONE"
               /\ pc'[v] = "move" <=> goal'[v] # "NONE"
               /\ pc'[v] = "put" <=> result'[v] # None
    <3>1. CASE v = w
      BY <1>2, <2>1, <2>2, <3>1 DEF TypeOK
    <3>2. CASE v # w
      BY <1>2, <2>2, <3>2 DEF TypeOK
    <3> QED
      BY <3>1, <3>2
  <2> QED
    BY <1>2, <2>3, <2>4 DEF TypeOK
<1>3. ASSUME NEW w \in Workers, Start(w)
      PROVE  TypeOK'
  <2>1. state \in BridgeState /\ version \in Nat /\ state # "NONE"
    BY DEF TypeOK, state, version, BridgeState
  <2> QED
    BY <1>3, <2>1 DEF Start, TypeOK
<1>4. ASSUME NEW w \in Workers, Finish(w) \/ CallRefused(w) \/ Crash(w)
      PROVE  TypeOK'
  BY <1>1, <1>4 DEF Finish, CallRefused, Crash, TypeOK
<1>5. ASSUME NEW w \in Workers, Expire(w)
      PROVE  TypeOK'
  <2>1. "EXPIRED" \in BridgeState
    BY DEF BridgeState
  <2> QED
    BY <1>0, <1>2, <1>5, <2>1 DEF Expire, TypeOK
<1>6. ASSUME NEW w \in Workers, Decide(w)
      PROVE  TypeOK'
  <2>1. held[w].state \in BridgeState \ terminal
    BY <1>6 DEF Decide, TypeOK
  <2>2. PICK ok \in BOOLEAN : Aim(w, choice(held[w].state, ok))
    BY <1>6 DEF Decide
  <2> QED
    BY <1>0, <1>2, <1>6, <2>1, <2>2, StepType DEF Decide, TypeOK
<1>7. ASSUME NEW w \in Workers, Enter(w)
      PROVE  TypeOK'
  BY <1>7 DEF Enter, TypeOK
<1>8. ASSUME NEW w \in Workers, LookUp(w)
      PROVE  TypeOK'
  <2> DEFINE s == held[w].state
             g == steps[s].stage
  <2>1. s \in BridgeState \ terminal /\ g \in Stages
    BY <1>8 DEF LookUp
  <2>2. CASE Stop(w)
    BY <1>1, <1>8, <2>2 DEF LookUp, TypeOK
  <2>3. CASE Aim(w, "DESTINATION_FAILED") /\ UNCHANGED <<held, result>>
    <3>1. "DESTINATION_FAILED" \in BridgeState
      BY DEF BridgeState
    <3> QED
      BY <1>0, <1>2, <1>8, <2>3, <3>1 DEF LookUp, TypeOK
  <2>4. CASE stored(g) /\ Aim(w, choice(s, evidence[g].ok))
             /\ UNCHANGED <<held, result>>
    <3>1. evidence[g].ok \in BOOLEAN
      BY <2>1, <2>4 DEF TypeOK, Evidence, stored
    <3> QED
      <4>1. choice(s, evidence[g].ok) \in BridgeState
        BY <2>1, <3>1, StepType
      <4>2. /\ pc[w] = "evidence"
            /\ UNCHANGED <<log, evidence, effects, now, crashes>>
        BY <1>8 DEF LookUp
      <4>3. evidence' \in [Stages -> Evidence \cup {None}]
        BY <4>2 DEF TypeOK
      <4> HIDE DEF g, s
      <4> QED
        BY <1>0, <1>2, <2>4, <4>1, <4>2, <4>3
  <2>5. CASE pc' = [pc EXCEPT ![w] = "call"] /\ UNCHANGED <<held, goal, result>>
    BY <1>8, <2>5 DEF LookUp, TypeOK
  <2> QED
    BY <1>8, <2>2, <2>3, <2>4, <2>5 DEF LookUp
<1>9. ASSUME NEW w \in Workers, Call(w)
      PROVE  TypeOK'
  <2>1. PICK ok \in BOOLEAN, e \in 0..(MaxTime + 1) :
          result' = [result EXCEPT ![w] = [ok |-> ok, expiresAt |-> e]]
    BY <1>9 DEF Call
  <2>2. [ok |-> ok, expiresAt |-> e] \in Evidence
    BY DEF Evidence
  <2>3. [ok |-> ok, expiresAt |-> e] # None
    BY <2>2
  <2> QED
    BY <1>9, <2>1, <2>2, <2>3 DEF Call, TypeOK
<1>10. ASSUME NEW w \in Workers, Put(w)
       PROVE  TypeOK'
  <2> DEFINE s == held[w].state
             g == steps[s].stage
  <2>1. s \in BridgeState \ terminal /\ g \in Stages /\ result[w] \in Evidence
    BY <1>10 DEF Put, TypeOK
  <2>2. CASE Stop(w) /\ UNCHANGED evidence
    BY <1>1, <1>10, <2>2 DEF Put, TypeOK
  <2>3. CASE /\ evidence' = [evidence EXCEPT ![g] = result[w]]
             /\ Aim(w, choice(s, result[w].ok))
             /\ result' = [result EXCEPT ![w] = None]
             /\ UNCHANGED held
    <3>1. result[w].ok \in BOOLEAN
      BY <2>1 DEF Evidence
    <3>2. evidence' \in [Stages -> Evidence \cup {None}]
      BY <2>1, <2>3 DEF TypeOK
    <3>3. choice(s, result[w].ok) \in BridgeState
      BY <2>1, <3>1, StepType
    <3>4. pc[w] = "put" /\ UNCHANGED <<log, effects, now, crashes>>
      BY <1>10 DEF Put
    <3> HIDE DEF g, s
    <3> QED
      BY <1>2, <2>3, <3>2, <3>3, <3>4
  <2> QED
    BY <1>10, <2>2, <2>3 DEF Put
<1>11. ASSUME NEW w \in Workers, Move(w)
       PROVE  TypeOK'
  <2>1. /\ state \in BridgeState /\ version \in Nat /\ state # "NONE"
        /\ goal[w] \in BridgeState /\ goal[w] # "NONE"
    BY <1>11 DEF Move, TypeOK, state, version, BridgeState
  <2>2. CASE Stop(w) /\ UNCHANGED log
    BY <1>1, <1>11, <2>2 DEF Move, TypeOK
  <2>3. ASSUME NEW s \in BridgeState, NEW n \in Nat,
               held' = [held EXCEPT ![w] = [state |-> s, version |-> n]],
               pc' = [pc EXCEPT ![w] = "loop"],
               goal' = [goal EXCEPT ![w] = "NONE"],
               UNCHANGED <<result, evidence, effects, now, crashes>>,
               log' \in Seq(BridgeState) /\ log' # <<>>
        PROVE  TypeOK'
    <3>1. s # "NONE"
      BY DEF BridgeState
    <3>2. pc[w] = "move" /\ result[w] = None
      BY <1>11 DEF Move, TypeOK
    <3> QED
      BY <2>3, <3>1, <3>2 DEF TypeOK
  <2>4. Append(log, goal[w]) \in Seq(BridgeState)
          /\ Append(log, goal[w]) # <<>> /\ version + 1 \in Nat
    <3>1. log \in Seq(BridgeState)
      BY DEF TypeOK
    <3>2. /\ Append(log, goal[w]) \in Seq(BridgeState)
          /\ Len(Append(log, goal[w])) = Len(log) + 1
      BY <2>1, <3>1
    <3>3. Len(log) \in Nat
      BY <3>1
    <3>4. Append(log, goal[w]) # <<>>
      BY <3>2, <3>3
    <3> QED
      BY <2>1, <3>2, <3>4
  <2>5. UNCHANGED <<evidence, effects, now, crashes>>
    BY <1>11 DEF Move
  <2>6. log \in Seq(BridgeState) /\ log # <<>>
    BY DEF TypeOK
  <2>7. CASE /\ log' = Append(log, goal[w])
             /\ held' = [held EXCEPT ![w] =
                           [state |-> goal[w], version |-> version + 1]]
             /\ pc' = [pc EXCEPT ![w] = "loop"]
             /\ goal' = [goal EXCEPT ![w] = "NONE"]
             /\ UNCHANGED result
    BY <2>1, <2>3, <2>4, <2>5, <2>7
  <2>8. CASE /\ held' = [held EXCEPT ![w] =
                           [state |-> state, version |-> version]]
             /\ pc' = [pc EXCEPT ![w] = "loop"]
             /\ goal' = [goal EXCEPT ![w] = "NONE"]
             /\ UNCHANGED <<log, result>>
    BY <2>1, <2>3, <2>5, <2>6, <2>8
  <2> QED
    BY <1>11, <2>2, <2>7, <2>8 DEF Move
<1>12. CASE Tick
  BY <1>12 DEF Tick, TypeOK, worker
<1>13. CASE UNCHANGED vars
  BY <1>13 DEF vars, worker, TypeOK
<1> QED
  BY <1>3, <1>4, <1>5, <1>6, <1>7, <1>8, <1>9, <1>10, <1>11, <1>12, <1>13
     DEF Next, Run
-----------------------------------------------------------------------------
\* Evidence is written once, and the ledgers only move on.
LEMMA Monotonic ==
  ASSUME IInv, [Next]_vars
  PROVE  /\ \A g \in Stages : evidence[g] # None => evidence'[g] = evidence[g]
         /\ effects \subseteq effects'
         /\ \A s : SupportedBy(evidence, s) => SupportedBy(evidence', s)
         /\ \A g, a : Witness(effects, g, a) => Witness(effects', g, a)
<1>1. \A g \in Stages : evidence[g] # None => evidence'[g] = evidence[g]
  <2>1. ASSUME NEW w \in Workers, Put(w)
        PROVE  \A g \in Stages : evidence[g] # None => evidence'[g] = evidence[g]
    BY <2>1 DEF Put, stored, IInv, TypeOK
  <2>2. CASE UNCHANGED evidence
    BY <2>2
  <2> QED
    BY <2>1, <2>2 DEF Next, Run, vars, Start, Finish, Expire, Decide, Enter,
       LookUp, Call, CallRefused, Move, Crash, Tick
<1>2. effects \subseteq effects'
  BY DEF Next, Run, vars, Start, Finish, Expire, Decide, Enter, LookUp, Call,
         CallRefused, Put, Move, Crash, Tick
<1>3. \A g \in {"SOURCE_FINALITY", "ATTESTATION", "RECONCILIATION"} :
        PositiveIn(evidence, g) => PositiveIn(evidence', g)
  BY <1>1, CoordinatorConstants DEF PositiveIn
<1>4. \A s : SupportedBy(evidence, s) => SupportedBy(evidence', s)
  <2>1. \A s : PassedIn(evidence, s) => PassedIn(evidence', s)
    BY <1>1 DEF PassedIn
  <2> QED
    BY <1>3, <2>1 DEF SupportedBy
<1>5. \A g, a : Witness(effects, g, a) => Witness(effects', g, a)
  BY <1>2 DEF Witness
<1> QED
  BY <1>1, <1>2, <1>4, <1>5

\* The target a worker aims at from a state with stored or new evidence.
LEMMA ChoiceSupported ==
  ASSUME NEW ev, NEW s \in BridgeState \ terminal, SupportedBy(ev, s),
         NEW b \in BOOLEAN,
         steps[s].stage \in Stages => ev[steps[s].stage] # None,
         b /\ steps[s].stage \in Stages => PositiveIn(ev, steps[s].stage)
  PROVE  SupportedBy(ev, choice(s, b))
<1>1. /\ choice(s, b) \in BridgeState /\ canTransition(s, choice(s, b))
  BY StepType
<1>2. /\ s = "SOURCE_CONFIRMED" => steps[s].stage = "SOURCE_FINALITY"
      /\ s = "ATTESTATION_PENDING" => steps[s].stage = "ATTESTATION"
      /\ s = "RECONCILIATION_PENDING" => steps[s].stage = "RECONCILIATION"
      /\ {"SOURCE_FINALITY", "ATTESTATION", "RECONCILIATION"} \subseteq Stages
  BY CoordinatorConstants
<1>3. s \in {"SOURCE_CONFIRMED", "ATTESTATION_PENDING",
             "RECONCILIATION_PENDING"} /\ ~b
        => choice(s, b) \in terminal
  BY CoordinatorConstants DEF choice
<1>4. /\ s = "SOURCE_CONFIRMED" /\ choice(s, b) \notin terminal
           => PositiveIn(ev, "SOURCE_FINALITY")
      /\ s = "ATTESTATION_PENDING" /\ choice(s, b) \notin terminal
           => PositiveIn(ev, "ATTESTATION")
      /\ s = "RECONCILIATION_PENDING" /\ choice(s, b) \notin terminal
           => PositiveIn(ev, "RECONCILIATION")
  BY <1>2, <1>3
<1> HIDE DEF choice
<1> QED
  BY <1>1, <1>4, TargetSupported

\* Each action keeps recorded states and targets supported by evidence.
LEMMA SupportInvariance ==
  ASSUME IInv, [Next]_vars
  PROVE  StateSupport'
<1>a. \A s : SupportedBy(evidence, s) => SupportedBy(evidence', s)
  BY Monotonic
<1>b. \A w \in Workers : WorkerSupport(log, evidence, pc[w], held[w], goal[w])
  BY DEF IInv, StateSupport
<1>c. \A s : OccursIn(log, s) => SupportedBy(evidence, s)
  BY DEF IInv, StateSupport, OccursIn
<1>d. /\ log \in Seq(BridgeState) /\ Len(log) \in Nat /\ Len(log) > 0
      /\ DOMAIN log = 1..Len(log)
  BY DEF IInv, TypeOK
<1>e. OccursIn(log, state)
  BY <1>d DEF OccursIn, state
<1>f. \A w \in Workers :
        /\ pc[w] # "idle" => OccursIn(log, held[w].state)
                             /\ SupportedBy(evidence, held[w].state)
        /\ pc[w] = "move" => SupportedBy(evidence, goal[w])
        /\ pc[w] \in {"evidence", "call", "put"} =>
             held[w].state \notin terminal /\ steps[held[w].state].stage \in Stages
  BY <1>b, <1>c DEF WorkerSupport
<1>1. ASSUME NEW w \in Workers, UNCHANGED log,
             WorkerSupport(log', evidence', pc'[w], held'[w], goal'[w]),
             \A v \in Workers \ {w} : /\ pc'[v] = pc[v] /\ held'[v] = held[v]
                                      /\ goal'[v] = goal[v]
      PROVE  StateSupport'
  <2>1. \A i \in DOMAIN log' : SupportedBy(evidence', log'[i])
    BY <1>1, <1>a DEF IInv, StateSupport
  <2>2. \A v \in Workers \ {w} :
          WorkerSupport(log', evidence', pc'[v], held'[v], goal'[v])
    BY <1>1, <1>a, <1>b DEF WorkerSupport
  <2> QED
    BY <1>1, <2>1, <2>2 DEF StateSupport
<1>2. ASSUME NEW w \in Workers, Stop(w), UNCHANGED log
      PROVE  StateSupport'
  <2>1. pc'[w] = "idle"
    BY <1>2 DEF Stop, IInv, TypeOK
  <2>2. \A v \in Workers \ {w} : /\ pc'[v] = pc[v] /\ held'[v] = held[v]
                                  /\ goal'[v] = goal[v]
    BY <1>2 DEF Stop, IInv, TypeOK
  <2>3. WorkerSupport(log', evidence', pc'[w], held'[w], goal'[w])
    BY <2>1 DEF WorkerSupport
  <2> QED
    BY <1>1, <1>2, <2>2, <2>3
<1>3. ASSUME NEW w \in Workers, NEW to, Aim(w, to), SupportedBy(evidence', to),
             UNCHANGED <<log, held>>, pc[w] # "idle"
      PROVE  StateSupport'
  <2>1. pc'[w] = "move" /\ goal'[w] = to /\ held'[w] = held[w]
    BY <1>3 DEF Aim, IInv, TypeOK
  <2>2. \A v \in Workers \ {w} : /\ pc'[v] = pc[v] /\ held'[v] = held[v]
                                  /\ goal'[v] = goal[v]
    BY <1>3 DEF Aim, IInv, TypeOK
  <2>3. WorkerSupport(log', evidence', pc'[w], held'[w], goal'[w])
    BY <1>3, <1>f, <2>1 DEF WorkerSupport
  <2> QED
    BY <1>1, <1>3, <2>2, <2>3
<1>4. ASSUME NEW w \in Workers, Start(w)
      PROVE  StateSupport'
  <2>1. /\ pc'[w] = "loop" /\ held'[w].state = state /\ UNCHANGED log
        /\ \A v \in Workers \ {w} : /\ pc'[v] = pc[v] /\ held'[v] = held[v]
                                     /\ goal'[v] = goal[v]
    BY <1>4 DEF Start, IInv, TypeOK
  <2>2. WorkerSupport(log', evidence', pc'[w], held'[w], goal'[w])
    BY <1>e, <2>1 DEF WorkerSupport
  <2> QED
    BY <1>1, <2>1, <2>2
<1>5. ASSUME NEW w \in Workers, Finish(w) \/ CallRefused(w) \/ Crash(w)
      PROVE  StateSupport'
  BY <1>2, <1>5 DEF Finish, CallRefused, Crash
<1>6. ASSUME NEW w \in Workers, Expire(w)
      PROVE  StateSupport'
  <2>1. SupportedBy(evidence', "EXPIRED")
    BY DEF SupportedBy, AfterFinality, AfterAttestation, AfterReconciliation, terminal
  <2>2. pc[w] # "idle" /\ Aim(w, "EXPIRED") /\ UNCHANGED <<log, held>>
    BY <1>6 DEF Expire
  <2> QED
    BY <1>3, <2>1, <2>2
<1>7. ASSUME NEW w \in Workers, Decide(w)
      PROVE  StateSupport'
  <2>1. PICK ok \in BOOLEAN : Aim(w, choice(held[w].state, ok))
    BY <1>7 DEF Decide
  <2>2. /\ pc[w] = "loop" /\ held[w].state \in BridgeState \ terminal
        /\ steps[held[w].state].stage = "NONE" /\ UNCHANGED <<log, held>>
    BY <1>7 DEF Decide, IInv, TypeOK
  <2>3. SupportedBy(evidence, held[w].state)
    BY <1>f, <2>2
  <2>4. SupportedBy(evidence, choice(held[w].state, ok))
    BY <2>2, <2>3, ChoiceSupported, CoordinatorConstants
  <2>5. SupportedBy(evidence', choice(held[w].state, ok))
    BY <1>a, <2>4
  <2> QED
    BY <1>3, <2>1, <2>2, <2>5
<1>8. ASSUME NEW w \in Workers, Enter(w)
      PROVE  StateSupport'
  <2>1. /\ pc'[w] = "evidence" /\ held'[w] = held[w] /\ UNCHANGED log
        /\ pc[w] = "loop"
        /\ held[w].state \in BridgeState \ terminal
        /\ steps[held[w].state].stage # "NONE"
        /\ \A v \in Workers \ {w} : /\ pc'[v] = pc[v] /\ held'[v] = held[v]
                                     /\ goal'[v] = goal[v]
    BY <1>8 DEF Enter, IInv, TypeOK
  <2>2. steps[held[w].state].stage \in Stages
    BY <2>1, StepType
  <2>3. WorkerSupport(log', evidence', pc'[w], held'[w], goal'[w])
    BY <1>f, <2>1, <2>2 DEF WorkerSupport
  <2> QED
    BY <1>1, <2>1, <2>3
<1>9. ASSUME NEW w \in Workers, LookUp(w)
      PROVE  StateSupport'
  <2> DEFINE s == held[w].state
             g == steps[s].stage
  <2>1. /\ pc[w] = "evidence" /\ UNCHANGED <<log, evidence>>
    BY <1>9 DEF LookUp
  <2>1a. /\ s \in BridgeState \ terminal /\ g \in Stages
         /\ SupportedBy(evidence, s)
    BY <1>f, <2>1 DEF IInv, TypeOK
  <2>2. CASE Stop(w)
    BY <1>2, <2>1, <2>2
  <2>3. CASE attestationExpired(w) /\ Aim(w, "DESTINATION_FAILED")
             /\ UNCHANGED <<held, result>>
    <3>1. s = "DESTINATION_PREPARING"
      BY <2>1a, <2>3, CoordinatorConstants DEF attestationExpired
    <3>2. SupportedBy(evidence', "DESTINATION_FAILED")
      BY <2>1, <2>1a, <3>1
         DEF SupportedBy, AfterFinality, AfterAttestation, AfterReconciliation, terminal
    <3> QED
      BY <1>3, <2>1, <2>3, <3>2
  <2>4. CASE stored(g) /\ Aim(w, choice(s, evidence[g].ok))
             /\ UNCHANGED <<held, result>>
    <3>1. evidence[g].ok \in BOOLEAN
      BY <2>1a, <2>4 DEF IInv, TypeOK, Evidence, stored
    <3>2. evidence[g].ok => PositiveIn(evidence, g)
      BY <2>4 DEF PositiveIn, stored
    <3>3. SupportedBy(evidence, choice(s, evidence[g].ok))
      BY <2>1a, <2>4, <3>1, <3>2, ChoiceSupported DEF stored
    <3>4. SupportedBy(evidence', choice(s, evidence[g].ok))
      BY <1>a, <3>3
    <3> HIDE DEF s, g
    <3> QED
      BY <1>3, <2>1, <2>4, <3>4
  <2>5. CASE pc' = [pc EXCEPT ![w] = "call"] /\ UNCHANGED <<held, goal, result>>
    <3>1. /\ pc'[w] = "call" /\ held'[w] = held[w]
          /\ \A v \in Workers \ {w} : /\ pc'[v] = pc[v] /\ held'[v] = held[v]
                                       /\ goal'[v] = goal[v]
      BY <2>5 DEF IInv, TypeOK
    <3>2. WorkerSupport(log', evidence', pc'[w], held'[w], goal'[w])
      BY <1>f, <2>1, <3>1 DEF WorkerSupport
    <3> QED
      BY <1>1, <2>1, <3>1, <3>2
  <2> QED
    BY <1>9, <2>2, <2>3, <2>4, <2>5 DEF LookUp
<1>10. ASSUME NEW w \in Workers, Call(w)
       PROVE  StateSupport'
  <2>1. /\ pc[w] = "call" /\ pc'[w] = "put" /\ held'[w] = held[w] /\ UNCHANGED log
        /\ \A v \in Workers \ {w} : /\ pc'[v] = pc[v] /\ held'[v] = held[v]
                                     /\ goal'[v] = goal[v]
    BY <1>10 DEF Call, IInv, TypeOK
  <2>2. WorkerSupport(log', evidence', pc'[w], held'[w], goal'[w])
    BY <1>f, <2>1 DEF WorkerSupport
  <2> QED
    BY <1>1, <2>1, <2>2
<1>11. ASSUME NEW w \in Workers, Put(w)
       PROVE  StateSupport'
  <2> DEFINE s == held[w].state
             g == steps[s].stage
  <2>1. pc[w] = "put" /\ UNCHANGED log
    BY <1>11 DEF Put
  <2>1a. /\ s \in BridgeState \ terminal /\ g \in Stages
         /\ SupportedBy(evidence, s) /\ result[w] \in Evidence
    BY <1>f, <2>1 DEF IInv, TypeOK
  <2>2. CASE Stop(w)
    BY <1>2, <2>1, <2>2
  <2>3. CASE /\ evidence' = [evidence EXCEPT ![g] = result[w]]
             /\ Aim(w, choice(s, result[w].ok))
             /\ UNCHANGED held
    <3>1. result[w].ok \in BOOLEAN /\ result[w] # None
      BY <2>1a, CoordinatorConstants DEF Evidence
    <3>2. evidence'[g] = result[w]
      BY <2>1a, <2>3 DEF IInv, TypeOK
    <3>3. result[w].ok => PositiveIn(evidence', g)
      BY <3>1, <3>2 DEF PositiveIn
    <3>4. SupportedBy(evidence', s)
      BY <1>a, <2>1a
    <3>5. SupportedBy(evidence', choice(s, result[w].ok))
      BY <2>1a, <3>1, <3>2, <3>3, <3>4, ChoiceSupported
    <3> HIDE DEF s, g
    <3> QED
      BY <1>3, <2>1, <2>3, <3>5
  <2> QED
    BY <1>11, <2>2, <2>3 DEF Put
<1>12. ASSUME NEW w \in Workers, Move(w)
       PROVE  StateSupport'
  <2>1. pc[w] = "move" /\ SupportedBy(evidence, goal[w]) /\ goal[w] \in BridgeState
    BY <1>12, <1>f DEF Move, IInv, TypeOK, BridgeState
  <2>2. CASE Stop(w) /\ UNCHANGED log
    BY <1>2, <2>2
  <2>3. CASE /\ held' = [held EXCEPT ![w] =
                           [state |-> state, version |-> version]]
             /\ pc' = [pc EXCEPT ![w] = "loop"]
             /\ goal' = [goal EXCEPT ![w] = "NONE"]
             /\ UNCHANGED <<log, result>>
    <3>1. /\ pc'[w] = "loop" /\ held'[w].state = state
          /\ \A v \in Workers \ {w} : /\ pc'[v] = pc[v] /\ held'[v] = held[v]
                                       /\ goal'[v] = goal[v]
      BY <2>3 DEF IInv, TypeOK
    <3>2. WorkerSupport(log', evidence', pc'[w], held'[w], goal'[w])
      BY <1>e, <2>3, <3>1 DEF WorkerSupport
    <3> QED
      BY <1>1, <2>3, <3>1, <3>2
  <2>4. CASE /\ log' = Append(log, goal[w])
             /\ held' = [held EXCEPT ![w] =
                           [state |-> goal[w], version |-> version + 1]]
             /\ pc' = [pc EXCEPT ![w] = "loop"]
             /\ goal' = [goal EXCEPT ![w] = "NONE"]
             /\ UNCHANGED result
    <3>1. /\ pc'[w] = "loop" /\ held'[w].state = goal[w]
          /\ \A v \in Workers \ {w} : /\ pc'[v] = pc[v] /\ held'[v] = held[v]
                                       /\ goal'[v] = goal[v]
      BY <2>4 DEF IInv, TypeOK
    <3>2. /\ DOMAIN log' = 1..(Len(log) + 1)
          /\ log'[Len(log) + 1] = goal[w]
          /\ \A i \in 1..Len(log) : log'[i] = log[i]
      BY <1>d, <2>1, <2>4
    <3>3. \A i \in DOMAIN log' : SupportedBy(evidence', log'[i])
      <4>1. \A i \in 1..Len(log) : SupportedBy(evidence', log'[i])
        BY <1>a, <1>d, <3>2 DEF IInv, StateSupport
      <4>2. SupportedBy(evidence', log'[Len(log) + 1])
        BY <1>a, <2>1, <3>2
      <4> QED
        BY <1>d, <3>2, <4>1, <4>2
    <3>4. \A s : OccursIn(log, s) => OccursIn(log', s)
      BY <1>d, <3>2 DEF OccursIn
    <3>5. OccursIn(log', goal[w])
      BY <1>d, <3>2 DEF OccursIn
    <3>6. \A v \in Workers \ {w} :
            WorkerSupport(log', evidence', pc'[v], held'[v], goal'[v])
      BY <1>a, <1>b, <3>1, <3>4 DEF WorkerSupport
    <3>7. WorkerSupport(log', evidence', pc'[w], held'[w], goal'[w])
      BY <3>1, <3>5 DEF WorkerSupport
    <3> QED
      BY <3>3, <3>6, <3>7 DEF StateSupport
  <2> QED
    BY <1>12, <2>2, <2>3, <2>4 DEF Move
<1>13. CASE Tick \/ UNCHANGED vars
  BY <1>13, <1>a, <1>b DEF Tick, vars, worker, StateSupport, IInv, WorkerSupport
<1> QED
  BY <1>4, <1>5, <1>6, <1>7, <1>8, <1>9, <1>10, <1>11, <1>12, <1>13
     DEF Next, Run

\* The stages of the five calls the properties are about are distinct.
LEMMA StagesDistinct ==
  /\ SourceStage # DestinationStage
  /\ {"SOURCE_FINALITY", "RECONCILIATION"}
       \cap {SourceStage, DestinationStage} = {}
<1>1. {"SOURCE_PREPARING", "DESTINATION_PREPARING", "SOURCE_CONFIRMED",
       "RECONCILIATION_PENDING"} \subseteq BridgeState \ terminal
  BY DEF BridgeState, terminal
<1> QED
  BY <1>1, CoordinatorConstants

\* Each action keeps answers true of the ledgers.
LEMMA HonestInvariance ==
  ASSUME IInv, [Next]_vars
  PROVE  Honest'
<1>a. \A g, x : Witness(effects, g, x) => Witness(effects', g, x)
  BY Monotonic
<1>1. ASSUME NEW w \in Workers, Put(w)
      PROVE  Honest'
  <2> DEFINE g == steps[held[w].state].stage
  <2>1. pc[w] = "put" /\ effects' = effects
    BY <1>1 DEF Put
  <2>2. g \in Stages /\ Witness(effects, g, result[w])
    BY <2>1 DEF IInv, StateSupport, WorkerSupport, Honest
  <2>3. evidence' = evidence \/ evidence' = [evidence EXCEPT ![g] = result[w]]
    BY <1>1 DEF Put
  <2>4. \A x \in Stages : evidence'[x] # None => Witness(effects', x, evidence'[x])
    BY <2>1, <2>2, <2>3 DEF IInv, TypeOK, Honest
  <2>5. /\ pc'[w] # "put"
        /\ \A v \in Workers \ {w} : /\ pc'[v] = pc[v] /\ held'[v] = held[v]
                                     /\ result'[v] = result[v]
    BY <1>1 DEF Put, Stop, Aim, IInv, TypeOK
  <2>6. \A v \in Workers : pc'[v] = "put" =>
          Witness(effects', steps[held'[v].state].stage, result'[v])
    BY <2>1, <2>5 DEF IInv, Honest
  <2> QED
    BY <2>4, <2>6 DEF Honest
<1>2. ASSUME NEW w \in Workers, Call(w)
      PROVE  Honest'
  <2> DEFINE g == steps[held[w].state].stage
  <2>1. PICK ok \in BOOLEAN, expiresAt \in 0..(MaxTime + 1) :
          /\ IF ok THEN mayAnswerYes(g) ELSE mayAnswerNo(g)
          /\ result' = [result EXCEPT ![w] = [ok |-> ok, expiresAt |-> expiresAt]]
    BY <1>2 DEF Call
  <2>2. /\ evidence' = evidence /\ pc' = [pc EXCEPT ![w] = "put"]
        /\ held' = held /\ effects \subseteq effects'
    BY <1>2 DEF Call
  <2>3. result'[w] = [ok |-> ok, expiresAt |-> expiresAt]
    BY <2>1 DEF IInv, TypeOK
  <2>4. result'[w].ok = ok
    BY <2>3
  <2>5. ok => /\ g = "SOURCE_FINALITY" => SourceStage \in effects
              /\ g = "RECONCILIATION" =>
                   {SourceStage, DestinationStage} \subseteq effects
    BY <2>1, StagesDistinct DEF mayAnswerYes
  <2>6. Witness(effects', g, result'[w])
    BY <2>2, <2>4, <2>5 DEF Witness
  <2>7. \A v \in Workers \ {w} : pc'[v] = pc[v] /\ result'[v] = result[v]
    BY <2>1, <2>2 DEF IInv, TypeOK
  <2>8. \A v \in Workers : pc'[v] = "put" =>
          Witness(effects', steps[held'[v].state].stage, result'[v])
    BY <1>a, <2>2, <2>6, <2>7 DEF IInv, Honest
  <2> QED
    BY <1>a, <2>2, <2>8 DEF IInv, Honest
<1>3. ASSUME UNCHANGED <<evidence, effects>>,
             \A v \in Workers : pc'[v] = "put" =>
               pc[v] = "put" /\ held'[v] = held[v] /\ result'[v] = result[v]
      PROVE  Honest'
  BY <1>3 DEF IInv, Honest
<1>4. ASSUME NEW w \in Workers,
             \/ Start(w) \/ Finish(w) \/ Expire(w) \/ Decide(w) \/ Enter(w)
             \/ LookUp(w) \/ CallRefused(w) \/ Move(w) \/ Crash(w)
      PROVE  Honest'
  <2>1. UNCHANGED <<evidence, effects>>
    BY <1>4 DEF Start, Finish, Expire, Decide, Enter, LookUp, CallRefused,
                Move, Crash
  <2>2. /\ pc'[w] # "put"
        /\ \A v \in Workers \ {w} : /\ pc'[v] = pc[v] /\ held'[v] = held[v]
                                     /\ result'[v] = result[v]
    <3>0. /\ pc = [x \in Workers |-> pc[x]] /\ held = [x \in Workers |-> held[x]]
          /\ result = [x \in Workers |-> result[x]]
      BY DEF IInv, TypeOK
    <3>1. CASE Stop(w)
      BY <3>0, <3>1 DEF Stop
    <3>2. ASSUME NEW to, Aim(w, to), UNCHANGED <<held, result>>
          PROVE  /\ pc'[w] # "put"
                 /\ \A v \in Workers \ {w} : /\ pc'[v] = pc[v]
                                              /\ held'[v] = held[v]
                                              /\ result'[v] = result[v]
      BY <3>0, <3>2 DEF Aim
    <3>3. CASE Start(w) \/ Enter(w)
      BY <3>0, <3>3 DEF Start, Enter
    <3>4. CASE Move(w)
      BY <3>0, <3>4 DEF Move, Stop
    <3>5. CASE LookUp(w)
      BY <3>0, <3>1, <3>2, <3>5 DEF LookUp
    <3> QED
      BY <1>4, <3>1, <3>2, <3>3, <3>4, <3>5 DEF Finish, Expire, Decide,
         CallRefused, Crash
  <2> QED
    BY <1>3, <2>1, <2>2
<1>5. CASE Tick \/ UNCHANGED vars
  BY <1>3, <1>5 DEF Tick, vars, worker
<1> QED
  BY <1>1, <1>2, <1>4, <1>5 DEF Next, Run

\* Each action keeps the destination ledger backed.
LEMMA EffectInvariance ==
  ASSUME IInv, [Next]_vars
  PROVE  EffectSupport'
<1>a. \A s : SupportedBy(evidence, s) => SupportedBy(evidence', s)
  BY Monotonic
<1>1. CASE UNCHANGED effects
  BY <1>1, <1>a DEF IInv, EffectSupport
<1>2. ASSUME NEW w \in Workers, Call(w)
      PROVE  EffectSupport'
  <2>1. CASE steps[held[w].state].stage = DestinationStage
    <3>1. pc[w] = "call"
      BY <1>2 DEF Call
    <3>2. held[w].state \in BridgeState \ terminal
      BY <3>1 DEF IInv, TypeOK, StateSupport, WorkerSupport
    <3>3. held[w].state = "DESTINATION_PREPARING"
      BY <2>1, <3>2, CoordinatorConstants
    <3>4. SupportedBy(evidence, "DESTINATION_PREPARING")
      BY <3>1, <3>3 DEF IInv, StateSupport, WorkerSupport, OccursIn
    <3> QED
      BY <1>a, <3>4 DEF EffectSupport
  <2>2. CASE steps[held[w].state].stage # DestinationStage
    <3>1. DestinationStage \in effects' => DestinationStage \in effects
      BY <1>2, <2>2 DEF Call
    <3> QED
      BY <1>a, <3>1 DEF IInv, EffectSupport
  <2> QED
    BY <2>1, <2>2
<1> QED
  BY <1>1, <1>2 DEF Next, Run, vars, Start, Finish, Expire, Decide, Enter,
     LookUp, CallRefused, Put, Move, Crash, Tick

\* The inductive invariant holds in every reachable state.
LEMMA Invariance == Spec => []IInv
<1>1. Init => IInv
  <2> SUFFICES ASSUME Init PROVE IInv
    OBVIOUS
  <2>1. TypeOK
    BY CoordinatorConstants DEF Init, TypeOK, Nothing, BridgeState
  <2>2. SupportedBy(evidence, "CREATED")
    <3>1. before("CREATED") = {}
      BY DEF before, order, BridgeState, terminal
    <3> QED
      BY <3>1 DEF SupportedBy, PassedIn, AfterFinality, AfterAttestation,
         AfterReconciliation
  <2>3. /\ \A i \in DOMAIN log : log[i] = "CREATED"
        /\ \A w \in Workers : pc[w] = "idle"
        /\ \A g \in Stages : evidence[g] = None
        /\ effects = {}
    BY DEF Init
  <2> QED
    BY <2>1, <2>2, <2>3
       DEF IInv, StateSupport, WorkerSupport, Honest, EffectSupport
<1>2. ASSUME IInv, [Next]_vars
      PROVE  IInv'
  <2>1. \A w \in Workers : pc[w] \in {"evidence", "call", "put"} =>
          held[w].state \in BridgeState \ terminal
            /\ steps[held[w].state].stage \in Stages
    BY <1>2 DEF IInv, TypeOK, StateSupport, WorkerSupport
  <2>2. TypeOK'
    BY <1>2, <2>1, TypeInvariance DEF IInv
  <2> QED
    BY <1>2, <2>2, SupportInvariance, HonestInvariance, EffectInvariance DEF IInv
<1> QED
  BY <1>1, <1>2, PTL DEF Spec
-----------------------------------------------------------------------------
\* Every reachable state is typed, and what a worker keeps in memory agrees
\* with where its run() stands.
THEOREM TypeCorrect == Spec => []TypeOK
<1>1. IInv => TypeOK
  BY DEF IInv
<1> QED
  BY <1>1, Invariance, PTL

\* No interleaving of any number of workers, stale copies and crashes mints
\* or releases on the destination without a source effect, its finality and
\* its attestation.
THEOREM DestinationCorrect == Spec => []DestinationBacked
<1>1. ASSUME IInv
      PROVE  DestinationBacked
  <2> SUFFICES ASSUME DestinationStage \in effects
               PROVE  /\ SourceStage \in effects
                      /\ positive("SOURCE_FINALITY") /\ positive("ATTESTATION")
    BY DEF DestinationBacked
  <2>1. /\ PositiveIn(evidence, "SOURCE_FINALITY")
        /\ PositiveIn(evidence, "ATTESTATION")
    BY <1>1 DEF IInv, EffectSupport, SupportedBy, AfterFinality, AfterAttestation
  <2>2. SourceStage \in effects
    BY <1>1, <2>1, CoordinatorConstants DEF IInv, Honest, Witness, PositiveIn
  <2> QED
    BY <2>1, <2>2 DEF PositiveIn, positive, stored
<1> QED
  BY <1>1, Invariance, PTL

\* An operation is reported COMPLETED only when both ledgers moved and the
\* reconciliation found a match.
THEOREM CompletionCorrect == Spec => []CompletedIsReconciled
<1>1. ASSUME IInv
      PROVE  CompletedIsReconciled
  <2> SUFFICES ASSUME recorded("COMPLETED")
               PROVE  /\ effects = {SourceStage, DestinationStage}
                      /\ positive("RECONCILIATION")
    BY DEF CompletedIsReconciled
  <2>1. SupportedBy(evidence, "COMPLETED")
    BY <1>1 DEF IInv, StateSupport, recorded
  <2>2. PositiveIn(evidence, "RECONCILIATION")
    BY <2>1 DEF SupportedBy, AfterReconciliation
  <2>3. {SourceStage, DestinationStage} \subseteq effects
    BY <1>1, <2>2, CoordinatorConstants DEF IInv, Honest, Witness, PositiveIn
  <2> QED
    BY <1>1, <2>2, <2>3 DEF IInv, TypeOK, PositiveIn, positive, stored
<1> QED
  BY <1>1, Invariance, PTL

\* requiredEvidence never throws: in the state that a worker holds, however
\* old its copy, everything the branch requires is durable.
THEOREM RequirementsCorrect == Spec => []NoMissingEvidence
<1>1. ASSUME IInv
      PROVE  NoMissingEvidence
  <2> SUFFICES ASSUME NEW w \in Workers, pc[w] = "evidence",
                      NEW r \in steps[held[w].state].requires
               PROVE  evidence[r] # None
    BY DEF NoMissingEvidence, requirementsMet, stored
  <2>1. PICK s : s = held[w].state
    OBVIOUS
  <2>2. /\ s \in BridgeState \ terminal
        /\ \E i \in DOMAIN log : log[i] = s
    BY <1>1, <2>1 DEF IInv, TypeOK, StateSupport, WorkerSupport, OccursIn
  <2>3. PassedIn(evidence, s)
    BY <1>1, <2>2 DEF IInv, StateSupport, SupportedBy
  <2>4. r \in Stages /\ \E u \in before(s) : r = steps[u].stage
    BY <2>1, <2>2, CoordinatorConstants DEF Steps
  <2> QED
    BY <2>3, <2>4 DEF PassedIn
<1> QED
  BY <1>1, Invariance, PTL

\* Evidence is never replaced.
THEOREM EvidenceCorrect == Spec => EvidenceImmutable
<1>1. ASSUME IInv, [Next]_vars
      PROVE  [\A g \in Stages : stored(g) => evidence'[g] = evidence[g]]_vars
  BY <1>1, Monotonic DEF stored
<1> QED
  BY <1>1, Invariance, PTL DEF Spec, EvidenceImmutable

\* The workers change the operation along legal transitions only.
THEOREM TransitionsCorrect == Spec => ImplementsOperationLog
<1>1. ASSUME IInv, [Next]_vars
      PROVE  [\E to \in BridgeState : Abstract!Advance("operation", to)]_log
  <2>1. CASE UNCHANGED log
    BY <2>1
  <2>2. ASSUME NEW w \in Workers, canTransition(state, goal[w]),
               log' = Append(log, goal[w]), pc[w] = "move"
        PROVE  \E to \in BridgeState : Abstract!Advance("operation", to)
    <3>1. goal[w] \in BridgeState
      BY <1>1, <2>2 DEF IInv, TypeOK
    <3>2. log # <<>> /\ Abstract!canTransition(log[Len(log)], goal[w])
      BY <1>1, <2>2 DEF IInv, TypeOK, state, canTransition, forward, terminal,
         Abstract!canTransition, Abstract!forward, Abstract!terminal
    <3>3. Abstract!Advance("operation", goal[w])
      BY <2>2, <3>2 DEF Abstract!Advance
    <3> QED
      BY <3>1, <3>3
  <2> QED
    BY <1>1, <2>1, <2>2 DEF Next, Run, vars, Start, Finish, Expire, Decide,
       Enter, LookUp, Call, CallRefused, Put, Move, Crash, Tick
<1> QED
  BY <1>1, Invariance, PTL DEF Spec, ImplementsOperationLog
=============================================================================
