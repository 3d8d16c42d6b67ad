-------------------------- MODULE TransactionEngine --------------------------
(***************************************************************************)
(* DurableTransactionEngine over PostgresTransactionStore                  *)
(* (packages/core/src/transaction-engine.ts), called by several processes. *)
(*                                                                         *)
(* A call of transition() is not atomic.  It reads the operation without a *)
(* lock and validates the command against that snapshot (Transition), then *)
(* either looks for an earlier transition with the same key                *)
(* (FindTransition) or runs the store's append: a duplicate look-up        *)
(* (CheckDuplicate), and then, with the operation's row locked FOR UPDATE, *)
(* the version check, the second look at the graph, the insert and the     *)
(* update (AppendLocked).  Other calls may interleave between these steps, *)
(* and a caller may die between any two of them (Crash).                   *)
(***************************************************************************)
EXTENDS Naturals, Sequences, BridgeStates

CONSTANTS
  Ops,          \* bridge operation ids
  Clients,      \* concurrent callers of the engine
  Keys,         \* transition keys; one of them is the key of the creation
  CreatedKey,   \* the key `<id>:created` of the first transition
  Targets,      \* the states callers ask for
  Versions,     \* the expected versions callers send
  AttemptKeys,  \* keys of persisted retry attempts
  Attempts,     \* contents of a retry attempt
  None          \* no command, no attempt

Decision == {"ALLOW", "DENY"}

\* TransitionCommand.  Any command may carry a policy decision: the engine
\* asks for one on the two policy targets and forbids it on no other.
\* "NONE" is the absent optional field.
Command ==
  [ op : Ops, key : Keys, expectedVersion : Versions, to : Targets,
    decision : Decision \cup {"NONE"} ]

ASSUME EngineConstants ==
  /\ CreatedKey \in Keys
  /\ Targets \subseteq BridgeState
  /\ Versions \subseteq Nat
  /\ None \notin Attempts \cup Command

VARIABLES
  row,          \* bridge_operations: state, version, policy decision
  transitions,  \* bridge_transitions, by sequence number (the first is 0);
                \* the field carried is history and no column of the table:
                \* the policy decision of the command that was recorded
  attempts,     \* transaction_attempts
  pc,           \* where each caller's transition() call stands
  cmd,          \* the command of that call
  acked         \* history: the commands that were answered with success

vars == <<row, transitions, attempts, pc, cmd, acked>>

Absent == [state |-> "ABSENT", version |-> 0, decision |-> "NONE"]

Init ==
  /\ row = [o \in Ops |-> Absent]
  /\ transitions = [o \in Ops |-> <<>>]
  /\ attempts = [o \in Ops |-> [a \in AttemptKeys |-> None]]
  /\ pc = [c \in Clients |-> "idle"]
  /\ cmd = [c \in Clients |-> None]
  /\ acked = {}

exists(o) == transitions[o] # <<>>

recorded(o, k) == \E i \in DOMAIN transitions[o] : transitions[o][i].key = k

recordedAs(o, k, to) ==
  \E i \in DOMAIN transitions[o] :
    transitions[o][i].key = k /\ transitions[o][i].to = to

\* The call of c ends; its command is acknowledged when success holds.
Reply(c, success) ==
  /\ pc' = [pc EXCEPT ![c] = "idle"]
  /\ cmd' = [cmd EXCEPT ![c] = None]
  /\ acked' = IF success
                THEN acked \cup {<<cmd[c].op, cmd[c].key, cmd[c].to>>}
                ELSE acked
-----------------------------------------------------------------------------
\* create: the snapshot and transition 0 in one database transaction.  A
\* second create is answered ALREADY_EXISTS and changes nothing.
Create(o) ==
  /\ ~exists(o)
  /\ row' = [row EXCEPT ![o] =
               [state |-> "CREATED", version |-> 0, decision |-> "NONE"]]
  /\ transitions' = [transitions EXCEPT ![o] =
               <<[key |-> CreatedKey, from |-> "NULL", to |-> "CREATED",
                  carried |-> "NONE"]>>]
  /\ UNCHANGED <<attempts, pc, cmd, acked>>

\* Mutant: transition() forgets to look at the decision.
policyAdmitsAnything(m) == TRUE

\* The policy rules transition() applies after the first look at the graph.
policyAdmits(m) ==
  /\ m.to = "POLICY_CHECKED" => m.decision = "ALLOW"
  /\ m.to = "POLICY_REJECTED" => m.decision \notin {"ALLOW", "NONE"}

\* transition(), up to the first write: store.get without a lock, the graph
\* on that snapshot, the policy rules.  NOT_FOUND and INVALID_ARGUMENT end
\* the call and leave no trace.
Transition(c, m) ==
  /\ pc[c] = "idle"
  /\ exists(m.op)
  /\ \/ /\ ~canTransition(row[m.op].state, m.to)
        /\ pc' = [pc EXCEPT ![c] = "find"]
     \/ /\ canTransition(row[m.op].state, m.to)
        /\ policyAdmits(m)
        /\ pc' = [pc EXCEPT ![c] = "append"]
  /\ cmd' = [cmd EXCEPT ![c] = m]
  /\ UNCHANGED <<row, transitions, attempts, acked>>

\* An illegal transition is answered with the operation when the same key
\* already recorded the same target, and with CONFLICT otherwise.
FindTransition(c) ==
  /\ pc[c] = "find"
  /\ Reply(c, recordedAs(cmd[c].op, cmd[c].key, cmd[c].to))
  /\ UNCHANGED <<row, transitions, attempts>>

\* Mutant: a recorded key answers the call whatever its target was.
CheckDuplicateAnyTarget(c) ==
  /\ pc[c] = "append"
  /\ \/ /\ recorded(cmd[c].op, cmd[c].key)
        /\ Reply(c, TRUE)
     \/ /\ ~recorded(cmd[c].op, cmd[c].key)
        /\ pc' = [pc EXCEPT ![c] = "locked"]
        /\ UNCHANGED <<cmd, acked>>
  /\ UNCHANGED <<row, transitions, attempts>>

\* append, first statement: a recorded key answers the call, with CONFLICT
\* when it was recorded for another target.
CheckDuplicate(c) ==
  /\ pc[c] = "append"
  /\ \/ /\ recorded(cmd[c].op, cmd[c].key)
        /\ Reply(c, recordedAs(cmd[c].op, cmd[c].key, cmd[c].to))
     \/ /\ ~recorded(cmd[c].op, cmd[c].key)
        /\ pc' = [pc EXCEPT ![c] = "locked"]
        /\ UNCHANGED <<cmd, acked>>
  /\ UNCHANGED <<row, transitions, attempts>>

\* Mutants of the checks made under the row lock: the graph is trusted from
\* the unlocked snapshot; the duplicate look-up is trusted from before the
\* lock and the table has no primary key.
appendAdmitsNoRecheck(m) ==
  /\ row[m.op].version = m.expectedVersion
  /\ ~recorded(m.op, m.key)

appendAdmitsNoPrimaryKey(m) ==
  /\ row[m.op].version = m.expectedVersion
  /\ canTransition(row[m.op].state, m.to)

\* What append requires once it holds the row lock: the expected version,
\* a legal edge from the state now stored, and the primary key
\* (operation_id, transition_key) of the insert.
appendAdmits(m) ==
  /\ row[m.op].version = m.expectedVersion
  /\ canTransition(row[m.op].state, m.to)
  /\ ~recorded(m.op, m.key)

\* The decision of the command, or else the one stored before.
mergedDecision(m) ==
  IF m.decision = "NONE" THEN row[m.op].decision ELSE m.decision

\* append, with the row locked: the insert and the update commit together,
\* or the database transaction rolls back and the call fails.
AppendLocked(c) ==
  LET m == cmd[c] IN
  /\ pc[c] = "locked"
  /\ \/ /\ appendAdmits(m)
        /\ transitions' = [transitions EXCEPT ![m.op] =
             Append(@, [key |-> m.key, from |-> row[m.op].state,
                        to |-> m.to, carried |-> m.decision])]
        /\ row' = [row EXCEPT ![m.op] =
             [state |-> m.to, version |-> row[m.op].version + 1,
              decision |-> mergedDecision(m)]]
        /\ Reply(c, TRUE)
     \/ /\ ~appendAdmits(m)
        /\ Reply(c, FALSE)
        /\ UNCHANGED <<row, transitions>>
  /\ UNCHANGED attempts

\* recordAttempt: inserted once; a retry with the same content is answered,
\* one with other content gets CONFLICT, and neither changes the record.
RecordAttempt(o, a, r) ==
  /\ exists(o)
  /\ attempts[o][a] = None
  /\ attempts' = [attempts EXCEPT ![o] = [@ EXCEPT ![a] = r]]
  /\ UNCHANGED <<row, transitions, pc, cmd, acked>>

\* The caller dies, or the answer to it is lost.
Crash(c) ==
  /\ pc[c] # "idle"
  /\ Reply(c, FALSE)
  /\ UNCHANGED <<row, transitions, attempts>>

Next ==
  \/ \E o \in Ops : Create(o)
  \/ \E c \in Clients :
       \/ \E m \in Command : Transition(c, m)
       \/ FindTransition(c)
       \/ CheckDuplicate(c)
       \/ AppendLocked(c)
       \/ Crash(c)
  \/ \E o \in Ops, a \in AttemptKeys, r \in Attempts : RecordAttempt(o, a, r)

Spec == Init /\ [][Next]_vars
-----------------------------------------------------------------------------
Transitions ==
  [ key : Keys, from : BridgeState \cup {"NULL"}, to : BridgeState,
    carried : Decision \cup {"NONE"} ]

\* Types of the two tables and of the calls in flight; a caller holds a
\* command exactly while its call of transition() is running.
TypeOK ==
  /\ row \in [Ops -> [ state : BridgeState \cup {"ABSENT"}, version : Nat,
                        decision : Decision \cup {"NONE"} ]]
  /\ transitions \in [Ops -> Seq(Transitions)]
  /\ attempts \in [Ops -> [AttemptKeys -> Attempts \cup {None}]]
  /\ pc \in [Clients -> {"idle", "find", "append", "locked"}]
  /\ cmd \in [Clients -> Command \cup {None}]
  /\ \A c \in Clients : pc[c] = "idle" <=> cmd[c] = None
  /\ acked \subseteq Ops \X Keys \X BridgeState

\* The snapshot in bridge_operations and the rows of bridge_transitions are
\* written by separate statements and read by separate queries, yet they
\* always tell one story: the state is the target of the last transition,
\* the version counts the transitions, each one starts where the one before
\* it ended (assertTransitionChain of invariants.ts) and along a legal edge.
ChainIntact ==
  \A o \in Ops : exists(o) =>
    LET t == transitions[o] IN
    /\ row[o].state = t[Len(t)].to
    /\ row[o].version + 1 = Len(t)
    /\ t[1].to = "CREATED" /\ t[1].from = "NULL"
    /\ \A i \in 2..Len(t) :
         t[i].from = t[i-1].to /\ canTransition(t[i].from, t[i].to)

\* Two calls that carry one transition key, duplicates of each other or not,
\* never record two transitions, however their steps interleave.
OneTransitionPerKey ==
  \A o \in Ops : \A i, j \in DOMAIN transitions[o] :
    transitions[o][i].key = transitions[o][j].key => i = j

\* A caller that was told its transition succeeded finds it in the history
\* under its own key and with its own target: an answer is never given for
\* a transition of somebody else, nor for one that was rolled back.
AcknowledgedIsRecorded ==
  \A a \in acked :
    \E i \in DOMAIN transitions[a[1]] :
      /\ transitions[a[1]][i].key = a[2]
      /\ transitions[a[1]][i].to = a[3]

\* The states an operation reaches only through the policy check.
PastPolicy ==
  BridgeState \ {"CREATED", "POLICY_REJECTED", "EXPIRED", "MANUAL_REVIEW"}

\* Nothing happens to an operation beyond the policy check unless a recorded
\* POLICY_CHECKED transition carried ALLOW, and the operation still stores
\* that decision or one that a later recorded transition carried; a rejected
\* operation stores the refusal.  The decision is examined against an
\* unlocked snapshot and stored by a later step, and a call that loses its
\* race must leave no decision behind.
PolicyGate ==
  \A o \in Ops :
    LET t == transitions[o] IN
    /\ (\E i \in DOMAIN t : t[i].to \in PastPolicy)
         => \E i \in DOMAIN t :
              /\ t[i].to = "POLICY_CHECKED" /\ t[i].carried = "ALLOW"
              /\ \/ row[o].decision = "ALLOW"
                 \/ \E j \in DOMAIN t :
                      i < j /\ t[j].carried = row[o].decision
    /\ row[o].state = "POLICY_REJECTED" => row[o].decision = "DENY"

\* What docs/adr/0009 says of the stored decision.  It fails: append stores
\* the decision of any later command over the one that was checked.
StoredDecisionAllows ==
  \A o \in Ops :
    (\E i \in DOMAIN transitions[o] : transitions[o][i].to \in PastPolicy)
      => row[o].decision = "ALLOW"

\* Recorded transitions and recorded attempts are never altered or removed,
\* whatever is retried.
RecordsImmutable ==
  [][ \A o \in Ops :
        /\ \A i \in DOMAIN transitions[o] :
             /\ i \in DOMAIN transitions'[o]
             /\ transitions'[o][i] = transitions[o][i]
        /\ \A a \in AttemptKeys :
             attempts[o][a] # None => attempts'[o][a] = attempts[o][a]
    ]_vars

\* The engine implements the abstract log of legal state changes.
logBar ==
  [o \in Ops |-> [i \in DOMAIN transitions[o] |-> transitions[o][i].to]]

Abstract == INSTANCE OperationLog WITH log <- logBar

ImplementsOperationLog == Abstract!Spec
=============================================================================
