----------------------- MODULE TransactionEngineProofs -----------------------
(***************************************************************************)
(* The durable transaction engine, for any set of operations, callers,     *)
(* keys, targets and expected versions.                                    *)
(***************************************************************************)
EXTENDS TransactionEngine, SequenceTheorems, TLAPS

\* A call is made only for an operation that exists, and operations are
\* never deleted: the row that append locks is there.
RowPresent ==
  /\ \A o \in Ops : exists(o) => row[o].state \in BridgeState
  /\ \A c \in Clients : pc[c] # "idle" => exists(cmd[c].op)

\* TypeOK needs RowPresent: append copies the state it finds into the new
\* transition.
TypeInv == TypeOK /\ RowPresent

Rows ==
  [ state : BridgeState \cup {"ABSENT"}, version : Nat,
    decision : Decision \cup {"NONE"} ]

\* What a command in flight is made of.
LEMMA CommandType ==
  ASSUME NEW m \in Command
  PROVE  /\ m.op \in Ops /\ m.key \in Keys /\ m.to \in BridgeState
         /\ m.expectedVersion \in Nat
         /\ m.decision \in Decision \cup {"NONE"}
BY EngineConstants DEF Command

\* The two ways a call ends leave the calls of the others alone.
LEMMA ReplyType ==
  ASSUME TypeOK, NEW c \in Clients, NEW b \in BOOLEAN, pc[c] # "idle",
         Reply(c, b)
  PROVE  /\ pc' \in [Clients -> {"idle", "find", "append", "locked"}]
         /\ cmd' \in [Clients -> Command \cup {None}]
         /\ \A d \in Clients : pc'[d] = "idle" <=> cmd'[d] = None
         /\ acked' \subseteq Ops \X Keys \X BridgeState
         /\ \A d \in Clients :
              pc'[d] # "idle" => pc'[d] = pc[d] /\ cmd'[d] = cmd[d]
<1>1. cmd[c] \in Command
  BY DEF TypeOK
<1>2. <<cmd[c].op, cmd[c].key, cmd[c].to>> \in Ops \X Keys \X BridgeState
  BY <1>1, CommandType
<1> QED
  BY <1>2 DEF TypeOK, Reply

\* What an append adds, and what it leaves alone.
LEMMA AppendType ==
  ASSUME TypeInv, NEW c \in Clients, AppendLocked(c), appendAdmits(cmd[c])
  PROVE  LET m == cmd[c]
             t == [key |-> m.key, from |-> row[m.op].state, to |-> m.to,
                  carried |-> m.decision]
         IN
         /\ m \in Command /\ t \in Transitions
         /\ exists(m.op)
         /\ transitions' = [transitions EXCEPT ![m.op] =
                              Append(transitions[m.op], t)]
         /\ row'[m.op] = [state |-> m.to, version |-> row[m.op].version + 1,
                          decision |-> mergedDecision(m)]
         /\ row'[m.op] \in Rows
         /\ \A o \in Ops : o # m.op => row'[o] = row[o]
         /\ row' \in [Ops -> Rows]
<1> DEFINE m == cmd[c]
<1>1. m \in Command /\ exists(m.op)
  BY DEF TypeInv, TypeOK, RowPresent, AppendLocked
<1>2. row[m.op].state \in BridgeState
  BY <1>1, CommandType DEF TypeInv, RowPresent
<1>3. [key |-> m.key, from |-> row[m.op].state, to |-> m.to,
       carried |-> m.decision] \in Transitions
  BY <1>1, <1>2, CommandType DEF Transitions
<1>4. row[m.op] \in Rows
  BY <1>1, CommandType DEF TypeInv, TypeOK, Rows
<1>5. [state |-> m.to, version |-> row[m.op].version + 1,
       decision |-> mergedDecision(m)] \in Rows
  BY <1>1, <1>4, CommandType DEF Rows, mergedDecision
<1>6. row \in [Ops -> Rows]
  BY DEF TypeInv, TypeOK, Rows
<1>7. row' = [row EXCEPT ![m.op] =
                [state |-> m.to, version |-> row[m.op].version + 1,
                 decision |-> mergedDecision(m)]]
  BY DEF AppendLocked
<1>8. transitions' = [transitions EXCEPT ![m.op] =
        Append(transitions[m.op],
               [key |-> m.key, from |-> row[m.op].state, to |-> m.to,
                carried |-> m.decision])]
  BY DEF AppendLocked
<1>9. m.op \in Ops
  BY <1>1, CommandType
<1> HIDE DEF m
<1> QED
  BY <1>1, <1>3, <1>5, <1>6, <1>7, <1>8, <1>9 DEF m

\* Each of the seven operations of the engine keeps the tables and the calls
\* in flight well typed, and no call is left without its operation.
LEMMA TypeInvariance == TypeInv /\ [Next]_vars => TypeInv'
<1> SUFFICES ASSUME TypeInv, [Next]_vars
             PROVE  TypeInv'
  OBVIOUS
<1> USE EngineConstants DEF TypeInv
<1>1. ASSUME NEW o \in Ops, Create(o)
      PROVE  TypeInv'
  <2>1. [key |-> CreatedKey, from |-> "NULL", to |-> "CREATED",
         carried |-> "NONE"] \in Transitions
    BY DEF Transitions, BridgeState
  <2>2. [state |-> "CREATED", version |-> 0, decision |-> "NONE"] \in Rows
    BY DEF Rows, BridgeState
  <2>3. TypeOK'
    BY <1>1, <2>1, <2>2 DEF Create, TypeOK, Rows
  <2>4. RowPresent'
    BY <1>1, <2>2 DEF Create, TypeOK, RowPresent, exists, BridgeState
  <2> QED
    BY <2>3, <2>4
<1>2. ASSUME NEW c \in Clients, NEW m \in Command, Transition(c, m)
      PROVE  TypeInv'
  <2>1. TypeOK'
    BY <1>2 DEF Transition, TypeOK
  <2>2. RowPresent'
    BY <1>2 DEF Transition, TypeOK, RowPresent, exists
  <2> QED
    BY <2>1, <2>2
<1>3. ASSUME NEW c \in Clients, NEW b \in BOOLEAN, pc[c] # "idle",
             Reply(c, b), UNCHANGED <<row, transitions, attempts>>
      PROVE  TypeInv'
  <2>1. TypeOK'
    BY <1>3, ReplyType DEF TypeOK
  <2>2. RowPresent'
    BY <1>3, ReplyType DEF RowPresent, exists
  <2> QED
    BY <2>1, <2>2
<1>4. ASSUME NEW c \in Clients, CheckDuplicate(c),
             ~recorded(cmd[c].op, cmd[c].key)
      PROVE  TypeInv'
  <2>1. TypeOK'
    BY <1>4 DEF CheckDuplicate, recorded, TypeOK
  <2>2. RowPresent'
    BY <1>4 DEF CheckDuplicate, recorded, TypeOK, RowPresent, exists
  <2> QED
    BY <2>1, <2>2
<1>5. ASSUME NEW c \in Clients, AppendLocked(c), appendAdmits(cmd[c])
      PROVE  TypeInv'
  <2> DEFINE m == cmd[c]
             t == [key |-> m.key, from |-> row[m.op].state, to |-> m.to,
                  carried |-> m.decision]
  <2>0. /\ m \in Command /\ t \in Transitions /\ exists(m.op)
        /\ transitions' = [transitions EXCEPT ![m.op] =
                             Append(transitions[m.op], t)]
        /\ row'[m.op] = [state |-> m.to, version |-> row[m.op].version + 1,
                         decision |-> mergedDecision(m)]
        /\ \A o \in Ops : o # m.op => row'[o] = row[o]
        /\ row' \in [Ops -> Rows]
    BY <1>5, AppendType
  <2>1. row'[m.op].state = m.to /\ m.op \in Ops /\ m.to \in BridgeState
    BY <2>0, CommandType
  <2>2. Reply(c, TRUE) /\ UNCHANGED attempts /\ pc[c] # "idle"
    BY <1>5 DEF AppendLocked
  <2> HIDE DEF m, t
  <2>3. transitions \in [Ops -> Seq(Transitions)]
    BY DEF TypeOK
  <2>4. transitions' \in [Ops -> Seq(Transitions)]
    BY <2>0, <2>1, <2>3
  <2>5. TypeOK'
    BY <2>0, <2>2, <2>4, ReplyType DEF TypeOK, Rows
  <2>6. \A o \in Ops : exists(o) => exists(o)'
    BY <2>0, <2>1, <2>3 DEF exists
  <2>7. \A o \in Ops : exists(o)' => row'[o].state \in BridgeState
    BY <2>0, <2>1, <2>3 DEF exists, RowPresent
  <2>8. \A d \in Clients : (pc[d] # "idle" => exists(cmd[d].op))'
    BY <2>2, <2>6, ReplyType, CommandType DEF RowPresent, TypeOK
  <2> QED
    BY <2>5, <2>7, <2>8 DEF RowPresent
<1>6. ASSUME NEW o \in Ops, NEW a \in AttemptKeys, NEW r \in Attempts,
             RecordAttempt(o, a, r)
      PROVE  TypeInv'
  BY <1>6 DEF RecordAttempt, TypeOK, RowPresent, exists
<1>7. CASE UNCHANGED vars
  BY <1>7 DEF vars, TypeOK, RowPresent, exists
<1>8. ASSUME NEW c \in Clients,
             FindTransition(c) \/ CheckDuplicate(c) \/ AppendLocked(c)
               \/ Crash(c)
      PROVE  TypeInv'
  <2>1. CASE FindTransition(c)
    BY <2>1, <1>3 DEF FindTransition, recordedAs
  <2>2. CASE CheckDuplicate(c)
    BY <2>2, <1>3, <1>4 DEF CheckDuplicate, recordedAs
  <2>3. CASE AppendLocked(c)
    BY <2>3, <1>3, <1>5 DEF AppendLocked
  <2>4. CASE Crash(c)
    BY <2>4, <1>3 DEF Crash
  <2> QED
    BY <1>8, <2>1, <2>2, <2>3, <2>4
<1> QED
  BY <1>1, <1>2, <1>6, <1>7, <1>8 DEF Next

\* Type correctness of the engine: the tables and the calls in flight.
THEOREM TypeCorrect == Spec => []TypeOK
<1>1. Init => TypeInv
  BY EngineConstants DEF Init, TypeInv, TypeOK, RowPresent, exists, Absent
<1>2. TypeInv => TypeOK
  BY DEF TypeInv
<1> QED
  BY <1>1, <1>2, TypeInvariance, PTL DEF Spec
-----------------------------------------------------------------------------
\* A step of the engine writes the two tables of operations only to create
\* an operation or to append one transition.
LEMMA TableSteps ==
  ASSUME TypeInv, [Next]_vars
  PROVE  \/ UNCHANGED <<row, transitions>>
         \/ \E o \in Ops : Create(o)
         \/ \E c \in Clients : AppendLocked(c) /\ appendAdmits(cmd[c])
BY DEF Next, vars, Transition, FindTransition, CheckDuplicate, AppendLocked,
       RecordAttempt, Crash

\* The transitions of the operation that an append extends, index by index.
LEMMA AppendShape ==
  ASSUME TypeInv, NEW c \in Clients, AppendLocked(c), appendAdmits(cmd[c])
  PROVE  LET o == cmd[c].op
             n == Len(transitions[o])
         IN
         /\ o \in Ops /\ n \in Nat /\ n > 0
         /\ DOMAIN transitions[o] = 1..n
         /\ DOMAIN transitions'[o] = 1..(n + 1)
         /\ Len(transitions'[o]) = n + 1
         /\ \A i \in 1..n : transitions'[o][i] = transitions[o][i]
         /\ transitions'[o][n + 1].key = cmd[c].key
         /\ transitions'[o][n + 1].from = row[o].state
         /\ transitions'[o][n + 1].to = cmd[c].to
         /\ transitions'[o][n + 1].carried = cmd[c].decision
         /\ row'[o].state = cmd[c].to
         /\ row'[o].version = row[o].version + 1
         /\ row'[o].decision = mergedDecision(cmd[c])
         /\ \A p \in Ops : p # o =>
              transitions'[p] = transitions[p] /\ row'[p] = row[p]
<1> DEFINE m == cmd[c]
           t == [key |-> m.key, from |-> row[m.op].state, to |-> m.to,
                  carried |-> m.decision]
<1>1. /\ m \in Command /\ t \in Transitions /\ exists(m.op)
      /\ transitions' = [transitions EXCEPT ![m.op] =
                           Append(transitions[m.op], t)]
      /\ row'[m.op] = [state |-> m.to, version |-> row[m.op].version + 1,
                       decision |-> mergedDecision(m)]
      /\ \A p \in Ops : p # m.op => row'[p] = row[p]
  BY AppendType
<1>2. m.op \in Ops
  BY <1>1, CommandType
<1>3. transitions \in [Ops -> Seq(Transitions)]
  BY DEF TypeInv, TypeOK
<1>4. /\ transitions[m.op] \in Seq(Transitions)
      /\ transitions'[m.op] = Append(transitions[m.op], t)
      /\ transitions[m.op] # <<>>
      /\ \A p \in Ops : p # m.op => transitions'[p] = transitions[p]
  BY <1>1, <1>2, <1>3 DEF exists
<1> HIDE DEF m
<1>5. Len(transitions[m.op]) \in Nat /\ Len(transitions[m.op]) > 0
  BY <1>4
<1>6. /\ DOMAIN transitions[m.op] = 1..Len(transitions[m.op])
      /\ DOMAIN transitions'[m.op] = 1..(Len(transitions[m.op]) + 1)
      /\ Len(transitions'[m.op]) = Len(transitions[m.op]) + 1
      /\ \A i \in 1..Len(transitions[m.op]) :
           transitions'[m.op][i] = transitions[m.op][i]
      /\ transitions'[m.op][Len(transitions[m.op]) + 1] = t
  BY <1>1, <1>4, <1>5
<1>7. /\ transitions'[m.op][Len(transitions[m.op]) + 1].key = m.key
      /\ transitions'[m.op][Len(transitions[m.op]) + 1].from = row[m.op].state
      /\ transitions'[m.op][Len(transitions[m.op]) + 1].to = m.to
      /\ transitions'[m.op][Len(transitions[m.op]) + 1].carried = m.decision
      /\ row'[m.op].state = m.to
      /\ row'[m.op].version = row[m.op].version + 1
      /\ row'[m.op].decision = mergedDecision(m)
  BY <1>1, <1>6
<1> QED
  BY <1>1, <1>2, <1>4, <1>5, <1>6, <1>7 DEF m

\* The same for the creation of an operation.
LEMMA CreateShape ==
  ASSUME TypeInv, NEW o \in Ops, Create(o)
  PROVE  /\ Len(transitions'[o]) = 1
         /\ DOMAIN transitions'[o] = {1}
         /\ transitions'[o][1] =
              [key |-> CreatedKey, from |-> "NULL", to |-> "CREATED",
               carried |-> "NONE"]
         /\ row'[o] = [state |-> "CREATED", version |-> 0, decision |-> "NONE"]
         /\ \A p \in Ops : p # o =>
              transitions'[p] = transitions[p] /\ row'[p] = row[p]
BY DEF TypeInv, TypeOK, Create

\* ChainIntact for one operation, with history t and snapshot r.
Chain(t, r) ==
  /\ r.state = t[Len(t)].to
  /\ r.version + 1 = Len(t)
  /\ t[1].to = "CREATED" /\ t[1].from = "NULL"
  /\ \A i \in 2..Len(t) :
       t[i].from = t[i-1].to /\ canTransition(t[i].from, t[i].to)

\* A step keeps the snapshot and the history of every operation consistent.
LEMMA ChainInvariance ==
  ASSUME TypeInv, ChainIntact, [Next]_vars
  PROVE  ChainIntact'
<1>1. CASE UNCHANGED <<row, transitions>>
  BY <1>1 DEF ChainIntact, exists
<1>2. ASSUME NEW o \in Ops, Create(o)
      PROVE  ChainIntact'
  <2>1. /\ row'[o].state = "CREATED" /\ row'[o].version = 0
        /\ Len(transitions'[o]) = 1
        /\ transitions'[o][1].to = "CREATED"
        /\ transitions'[o][1].from = "NULL"
    BY <1>2, CreateShape
  <2>2. \A p \in Ops : p # o =>
          transitions'[p] = transitions[p] /\ row'[p] = row[p]
    BY <1>2, CreateShape
  <2>3. Chain(transitions'[o], row'[o])
    <3>1. 2..Len(transitions'[o]) = {}
      BY <2>1
    <3> QED
      BY <2>1, <3>1 DEF Chain
  <2>4. \A p \in Ops : transitions[p] # <<>> => Chain(transitions[p], row[p])
    BY DEF ChainIntact, exists, Chain
  <2>5. \A p \in Ops : transitions'[p] # <<>> => Chain(transitions'[p], row'[p])
    BY <2>2, <2>3, <2>4
  <2> QED
    BY <2>5 DEF ChainIntact, exists, Chain
<1>3. ASSUME NEW c \in Clients, AppendLocked(c), appendAdmits(cmd[c])
      PROVE  ChainIntact'
  <2> DEFINE o == cmd[c].op
             n == Len(transitions[o])
  <2>1. /\ o \in Ops /\ n \in Nat /\ n > 0
        /\ Len(transitions'[o]) = n + 1
        /\ \A i \in 1..n : transitions'[o][i] = transitions[o][i]
        /\ transitions'[o][n + 1].from = row[o].state
        /\ transitions'[o][n + 1].to = cmd[c].to
        /\ row'[o].state = cmd[c].to
        /\ row'[o].version = row[o].version + 1
        /\ \A p \in Ops : p # o =>
             transitions'[p] = transitions[p] /\ row'[p] = row[p]
    BY <1>3, AppendShape
  <2>2. exists(o)
    BY <2>1 DEF exists
  <2>3. canTransition(row[o].state, cmd[c].to)
    BY <1>3 DEF appendAdmits
  <2>4. row[o].version \in Nat
    BY <2>1 DEF TypeInv, TypeOK
  <2> HIDE DEF o, n
  <2>5. /\ row[o].state = transitions[o][n].to
        /\ row[o].version + 1 = n
        /\ transitions[o][1].to = "CREATED" /\ transitions[o][1].from = "NULL"
        /\ \A i \in 2..n :
             /\ transitions[o][i].from = transitions[o][i-1].to
             /\ canTransition(transitions[o][i].from, transitions[o][i].to)
    BY <2>1, <2>2 DEF ChainIntact, n
  <2>6. \A i \in 2..(n + 1) :
          /\ transitions'[o][i].from = transitions'[o][i-1].to
          /\ canTransition(transitions'[o][i].from, transitions'[o][i].to)
    <3> SUFFICES ASSUME NEW i \in 2..(n + 1)
                 PROVE  /\ transitions'[o][i].from = transitions'[o][i-1].to
                        /\ canTransition(transitions'[o][i].from,
                                         transitions'[o][i].to)
      OBVIOUS
    <3>1. CASE i = n + 1
      BY <2>1, <2>3, <2>5, <3>1
    <3>2. CASE i # n + 1
      <4>1. i \in 2..n /\ i \in 1..n /\ i - 1 \in 1..n
        BY <2>1, <3>2
      <4> QED
        BY <2>1, <2>5, <4>1
    <3> QED
      BY <3>1, <3>2
  <2>7. ASSUME NEW p \in Ops, p # o, exists(p)'
        PROVE  LET t == transitions'[p] IN
               /\ row'[p].state = t[Len(t)].to
               /\ row'[p].version + 1 = Len(t)
               /\ t[1].to = "CREATED" /\ t[1].from = "NULL"
               /\ \A i \in 2..Len(t) :
                    t[i].from = t[i-1].to /\ canTransition(t[i].from, t[i].to)
    BY <2>1, <2>2, <2>7 DEF ChainIntact, exists
  <2>8. /\ row'[o].state = transitions'[o][n + 1].to
        /\ row'[o].version + 1 = n + 1
        /\ transitions'[o][1].to = "CREATED"
        /\ transitions'[o][1].from = "NULL"
    BY <2>1, <2>2, <2>4, <2>5
  <2> QED
    BY <2>1, <2>6, <2>7, <2>8 DEF ChainIntact
<1> QED
  BY <1>1, <1>2, <1>3, TableSteps

\* The unique key check made under the row lock is the one that counts.
LEMMA KeyInvariance ==
  ASSUME TypeInv, OneTransitionPerKey, [Next]_vars
  PROVE  OneTransitionPerKey'
<1>1. CASE UNCHANGED <<row, transitions>>
  BY <1>1 DEF OneTransitionPerKey
<1>2. ASSUME NEW o \in Ops, Create(o)
      PROVE  OneTransitionPerKey'
  BY <1>2, CreateShape DEF OneTransitionPerKey
<1>3. ASSUME NEW c \in Clients, AppendLocked(c), appendAdmits(cmd[c])
      PROVE  OneTransitionPerKey'
  <2> DEFINE o == cmd[c].op
             n == Len(transitions[o])
  <2>1. /\ o \in Ops /\ n \in Nat
        /\ DOMAIN transitions[o] = 1..n
        /\ DOMAIN transitions'[o] = 1..(n + 1)
        /\ \A i \in 1..n : transitions'[o][i] = transitions[o][i]
        /\ transitions'[o][n + 1].key = cmd[c].key
        /\ \A p \in Ops : p # o => transitions'[p] = transitions[p]
    BY <1>3, AppendShape
  <2>2. \A i \in 1..n : transitions[o][i].key # cmd[c].key
    BY <1>3, <2>1 DEF appendAdmits, recorded
  <2> HIDE DEF o, n
  <2>3. \A i, j \in 1..(n + 1) :
          transitions'[o][i].key = transitions'[o][j].key => i = j
    <3> SUFFICES ASSUME NEW i \in 1..(n + 1), NEW j \in 1..(n + 1),
                        transitions'[o][i].key = transitions'[o][j].key
                 PROVE  i = j
      OBVIOUS
    <3>1. CASE i \in 1..n /\ j \in 1..n
      BY <2>1, <3>1 DEF OneTransitionPerKey
    <3>2. CASE i = n + 1 /\ j \in 1..n
      BY <2>1, <2>2, <3>2
    <3>3. CASE i \in 1..n /\ j = n + 1
      BY <2>1, <2>2, <3>3
    <3> QED
      BY <2>1, <3>1, <3>2, <3>3
  <2> QED
    BY <2>1, <2>3 DEF OneTransitionPerKey
<1> QED
  BY <1>1, <1>2, <1>3, TableSteps
-----------------------------------------------------------------------------
\* No step alters or drops a recorded transition.
LEMMA HistoryKept ==
  ASSUME TypeInv, [Next]_vars, NEW o \in Ops, NEW i \in DOMAIN transitions[o]
  PROVE  i \in DOMAIN transitions'[o] /\ transitions'[o][i] = transitions[o][i]
<1>1. CASE UNCHANGED <<row, transitions>>
  BY <1>1
<1>2. ASSUME NEW p \in Ops, Create(p)
      PROVE  i \in DOMAIN transitions'[o]
               /\ transitions'[o][i] = transitions[o][i]
  <2>1. p # o
    BY <1>2 DEF Create, exists
  <2> QED
    BY <1>2, <2>1, CreateShape
<1>3. ASSUME NEW c \in Clients, AppendLocked(c), appendAdmits(cmd[c])
      PROVE  i \in DOMAIN transitions'[o]
               /\ transitions'[o][i] = transitions[o][i]
  <2>1. CASE o = cmd[c].op
    <3>1. /\ Len(transitions[o]) \in Nat
          /\ DOMAIN transitions[o] = 1..Len(transitions[o])
          /\ DOMAIN transitions'[o] = 1..(Len(transitions[o]) + 1)
          /\ \A j \in 1..Len(transitions[o]) :
               transitions'[o][j] = transitions[o][j]
      BY <1>3, <2>1, AppendShape
    <3> QED
      BY <3>1
  <2>2. CASE o # cmd[c].op
    BY <1>3, <2>2, AppendShape
  <2> QED
    BY <2>1, <2>2
<1> QED
  BY <1>1, <1>2, <1>3, TableSteps

\* What was acknowledged stays recorded, and only what is recorded is
\* acknowledged: by the answer to a duplicate or by the append itself.
LEMMA AckInvariance ==
  ASSUME TypeInv, AcknowledgedIsRecorded, [Next]_vars
  PROVE  AcknowledgedIsRecorded'
<1> DEFINE Found(a) ==
      \E i \in DOMAIN transitions[a[1]] :
        transitions[a[1]][i].key = a[2] /\ transitions[a[1]][i].to = a[3]
<1>1. ASSUME NEW a \in acked
      PROVE  Found(a)'
  <2>1. a[1] \in Ops
    BY DEF TypeInv, TypeOK
  <2>2. PICK i \in DOMAIN transitions[a[1]] :
          transitions[a[1]][i].key = a[2] /\ transitions[a[1]][i].to = a[3]
    BY DEF AcknowledgedIsRecorded
  <2> QED
    BY <2>1, <2>2, HistoryKept
<1>2. ASSUME NEW a \in acked', a \notin acked
      PROVE  Found(a)'
  <2>1. PICK c \in Clients :
          /\ a = <<cmd[c].op, cmd[c].key, cmd[c].to>>
          /\ \/ FindTransition(c) /\ recordedAs(cmd[c].op, cmd[c].key, cmd[c].to)
             \/ CheckDuplicate(c) /\ recordedAs(cmd[c].op, cmd[c].key, cmd[c].to)
             \/ AppendLocked(c) /\ appendAdmits(cmd[c])
    BY <1>2 DEF Next, vars, Create, Transition, FindTransition, CheckDuplicate,
                AppendLocked, RecordAttempt, Crash, Reply
  <2>2. a[1] = cmd[c].op /\ a[2] = cmd[c].key /\ a[3] = cmd[c].to
    BY <2>1
  <2>3. CASE recordedAs(cmd[c].op, cmd[c].key, cmd[c].to)
             /\ (FindTransition(c) \/ CheckDuplicate(c))
    BY <2>2, <2>3 DEF recordedAs, FindTransition, CheckDuplicate
  <2>4. CASE AppendLocked(c) /\ appendAdmits(cmd[c])
    <3> DEFINE n == Len(transitions[cmd[c].op])
    <3>1. /\ n \in Nat
          /\ DOMAIN transitions'[cmd[c].op] = 1..(n + 1)
          /\ transitions'[cmd[c].op][n + 1].key = cmd[c].key
          /\ transitions'[cmd[c].op][n + 1].to = cmd[c].to
      BY <2>4, AppendShape
    <3> HIDE DEF n
    <3>2. n + 1 \in DOMAIN transitions'[cmd[c].op]
      BY <3>1
    <3> QED
      BY <2>2, <3>1, <3>2
  <2> QED
    BY <2>1, <2>3, <2>4
<1> QED
  BY <1>1, <1>2 DEF AcknowledgedIsRecorded

\* The decision a call carries was examined when the call began.
CallsAdmitted ==
  \A c \in Clients :
    pc[c] \in {"append", "locked"} => policyAdmits(cmd[c])

LEMMA AdmittedInvariance ==
  ASSUME TypeInv, CallsAdmitted, [Next]_vars
  PROVE  CallsAdmitted'
<1>1. ASSUME NEW c \in Clients, NEW m \in Command, Transition(c, m)
      PROVE  CallsAdmitted'
  BY <1>1 DEF Transition, CallsAdmitted, TypeInv, TypeOK
<1>2. ASSUME NEW c \in Clients, NEW b \in BOOLEAN, pc[c] # "idle", Reply(c, b)
      PROVE  CallsAdmitted'
  BY <1>2, ReplyType DEF CallsAdmitted, TypeInv
<1>3. ASSUME NEW c \in Clients, CheckDuplicate(c)
      PROVE  CallsAdmitted'
  <2>1. CASE pc' = [pc EXCEPT ![c] = "locked"] /\ UNCHANGED <<cmd, acked>>
    BY <1>3, <2>1 DEF CheckDuplicate, CallsAdmitted, TypeInv, TypeOK
  <2> QED
    BY <1>2, <1>3, <2>1 DEF CheckDuplicate, recordedAs
<1>4. CASE UNCHANGED <<pc, cmd>>
  BY <1>4 DEF CallsAdmitted
<1> QED
  BY <1>1, <1>2, <1>3, <1>4
     DEF Next, vars, Create, FindTransition, AppendLocked, RecordAttempt,
         Crash, recordedAs

\* PolicyGate for one operation, with history t and snapshot r.
Gated(t, r) ==
  /\ (\E i \in DOMAIN t : t[i].to \in PastPolicy)
       => \E i \in DOMAIN t :
            /\ t[i].to = "POLICY_CHECKED" /\ t[i].carried = "ALLOW"
            /\ \/ r.decision = "ALLOW"
               \/ \E j \in DOMAIN t : i < j /\ t[j].carried = r.decision
  /\ r.state = "POLICY_REJECTED" => r.decision = "DENY"

\* An append is the only step that can lead past the policy check.  It
\* records the examined decision there, and leaves the decision stored or
\* replaces it by the one it records.
LEMMA PolicyInvariance ==
  ASSUME TypeInv, ChainIntact, CallsAdmitted, PolicyGate, [Next]_vars
  PROVE  PolicyGate'
<1>1. CASE UNCHANGED <<row, transitions>>
  BY <1>1 DEF PolicyGate
<1>2. ASSUME NEW o \in Ops, Create(o)
      PROVE  PolicyGate'
  <2>1. /\ DOMAIN transitions'[o] = {1} /\ transitions'[o][1].to = "CREATED"
        /\ row'[o].state = "CREATED"
    BY <1>2, CreateShape
  <2>2. \A p \in Ops : p # o =>
          transitions'[p] = transitions[p] /\ row'[p] = row[p]
    BY <1>2, CreateShape
  <2> QED
    BY <2>1, <2>2 DEF PolicyGate, PastPolicy
<1>3. ASSUME NEW c \in Clients, AppendLocked(c), appendAdmits(cmd[c])
      PROVE  PolicyGate'
  <2> DEFINE m == cmd[c]
             o == m.op
             n == Len(transitions[o])
             d == row'[o].decision
  <2>1. /\ o \in Ops /\ n \in Nat /\ n > 0
        /\ DOMAIN transitions[o] = 1..n
        /\ DOMAIN transitions'[o] = 1..(n + 1)
        /\ \A i \in 1..n : transitions'[o][i] = transitions[o][i]
        /\ transitions'[o][n + 1].to = m.to
        /\ transitions'[o][n + 1].carried = m.decision
        /\ row'[o].state = m.to
        /\ d = mergedDecision(m)
        /\ \A p \in Ops : p # o =>
             transitions'[p] = transitions[p] /\ row'[p] = row[p]
    BY <1>3, AppendShape
  <2>2. canTransition(row[o].state, m.to) /\ pc[c] = "locked"
    BY <1>3 DEF appendAdmits, AppendLocked
  <2>3. policyAdmits(m) /\ m.decision \in {"ALLOW", "DENY", "NONE"}
    <3>1. m \in Command
      BY <2>2 DEF TypeInv, TypeOK
    <3> QED
      BY <2>2, <3>1, CommandType DEF CallsAdmitted, Decision
  <2>4. d = IF m.decision = "NONE" THEN row[o].decision ELSE m.decision
    BY <2>1 DEF mergedDecision
  <2>5. row[o].state = transitions[o][n].to
    BY <2>1 DEF ChainIntact, exists
  <2> HIDE DEF m, o, n, d
  <2>6. m.to = "POLICY_REJECTED" => d = "DENY"
    BY <2>3, <2>4 DEF policyAdmits
  <2>7. ASSUME NEW k \in 1..(n + 1), transitions'[o][k].to \in PastPolicy
        PROVE  \E i \in 1..(n + 1) :
                 /\ transitions'[o][i].to = "POLICY_CHECKED"
                 /\ transitions'[o][i].carried = "ALLOW"
                 /\ \/ d = "ALLOW"
                    \/ \E j \in 1..(n + 1) :
                         i < j /\ transitions'[o][j].carried = d
    <3>1. n + 1 \in 1..(n + 1)
      BY <2>1
    <3>2. CASE m.to = "POLICY_CHECKED"
      <4>1. m.decision = "ALLOW" /\ d = "ALLOW"
        BY <2>3, <2>4, <3>2 DEF policyAdmits
      <4> QED
        BY <2>1, <3>1, <3>2, <4>1
    <3>3. CASE m.to # "POLICY_CHECKED"
      <4>1. \E i \in 1..n : transitions[o][i].to \in PastPolicy
        <5>1. CASE k \in 1..n
          BY <2>1, <2>7, <5>1
        <5>2. CASE k = n + 1
          <6>1. row[o].state \in PastPolicy
            BY <2>1, <2>2, <2>7, <3>3, <5>2
               DEF canTransition, forward, PastPolicy, BridgeState
          <6> QED
            BY <2>1, <2>5, <6>1
        <5> QED
          BY <2>1, <5>1, <5>2
      <4>2. PICK i \in 1..n :
              /\ transitions[o][i].to = "POLICY_CHECKED"
              /\ transitions[o][i].carried = "ALLOW"
              /\ \/ row[o].decision = "ALLOW"
                 \/ \E j \in 1..n :
                      i < j /\ transitions[o][j].carried = row[o].decision
        BY <2>1, <4>1 DEF PolicyGate
      <4>3. /\ i \in 1..(n + 1) /\ i < n + 1
            /\ transitions'[o][i].to = "POLICY_CHECKED"
            /\ transitions'[o][i].carried = "ALLOW"
        BY <2>1, <4>2
      <4>4. CASE m.decision = "NONE"
        <5>1. d = row[o].decision
          BY <2>4, <4>4
        <5>2. \A j \in 1..n : j \in 1..(n + 1)
                              /\ transitions'[o][j] = transitions[o][j]
          BY <2>1
        <5> QED
          BY <4>2, <4>3, <5>1, <5>2
      <4>5. CASE m.decision # "NONE"
        <5>1. transitions'[o][n + 1].carried = d
          BY <2>1, <2>4, <4>5
        <5> QED
          BY <3>1, <4>3, <5>1
      <4> QED
        BY <4>4, <4>5
    <3> QED
      BY <3>2, <3>3
  <2>8. Gated(transitions'[o], row'[o])
    <3>1. DOMAIN transitions'[o] = 1..(n + 1)
      BY <2>1
    <3>2. row'[o].state = m.to
      BY <2>1
    <3> QED
      BY <2>6, <2>7, <3>1, <3>2 DEF Gated, d
  <2>9. \A p \in Ops : p # o => Gated(transitions'[p], row'[p])
    <3>1. \A p \in Ops : Gated(transitions[p], row[p])
      BY DEF PolicyGate, Gated
    <3> QED
      BY <2>1, <3>1
  <2>10. \A p \in Ops : Gated(transitions'[p], row'[p])
    BY <2>8, <2>9
  <2> QED
    BY <2>10 DEF PolicyGate, Gated
<1> QED
  BY <1>1, <1>2, <1>3, TableSteps
-----------------------------------------------------------------------------
\* The inductive invariant of the engine: types, the consistency of the two
\* tables, what calls in flight have passed, and the four promises.
IInv ==
  /\ TypeInv
  /\ ChainIntact
  /\ OneTransitionPerKey
  /\ AcknowledgedIsRecorded
  /\ CallsAdmitted
  /\ PolicyGate

LEMMA Invariance == Spec => []IInv
<1>1. Init => IInv
  BY EngineConstants
     DEF Init, IInv, TypeInv, TypeOK, RowPresent, exists, Absent, ChainIntact,
         OneTransitionPerKey, AcknowledgedIsRecorded, CallsAdmitted, PolicyGate
<1>2. IInv /\ [Next]_vars => IInv'
  BY TypeInvariance, ChainInvariance, KeyInvariance, AckInvariance,
     AdmittedInvariance, PolicyInvariance DEF IInv
<1> QED
  BY <1>1, <1>2, PTL DEF Spec

\* However many callers race, retry or die: the snapshot of an operation and
\* its history agree and form a legal chain.
THEOREM ChainCorrect == Spec => []ChainIntact
<1>1. IInv => ChainIntact
  BY DEF IInv
<1> QED
  BY <1>1, Invariance, PTL

\* A transition key is recorded at most once.
THEOREM KeysCorrect == Spec => []OneTransitionPerKey
<1>1. IInv => OneTransitionPerKey
  BY DEF IInv
<1> QED
  BY <1>1, Invariance, PTL

\* A success answer is always backed by a recorded transition.
THEOREM AcknowledgementCorrect == Spec => []AcknowledgedIsRecorded
<1>1. IInv => AcknowledgedIsRecorded
  BY DEF IInv
<1> QED
  BY <1>1, Invariance, PTL

\* No operation gets past the policy check without a recorded ALLOW, and the
\* decision it stores was carried by a recorded transition.
THEOREM PolicyCorrect == Spec => []PolicyGate
<1>1. IInv => PolicyGate
  BY DEF IInv
<1> QED
  BY <1>1, Invariance, PTL

\* Transitions and attempts are written once and for all.
THEOREM HistoryCorrect == Spec => RecordsImmutable
<1>1. ASSUME TypeInv, [Next]_vars
      PROVE  [ \A o \in Ops :
                 /\ \A i \in DOMAIN transitions[o] :
                      /\ i \in DOMAIN transitions'[o]
                      /\ transitions'[o][i] = transitions[o][i]
                 /\ \A a \in AttemptKeys :
                      attempts[o][a] # None => attempts'[o][a] = attempts[o][a]
             ]_vars
  <2>1. ASSUME NEW o \in Ops, NEW a \in AttemptKeys, attempts[o][a] # None
        PROVE  attempts'[o][a] = attempts[o][a]
    <3>1. CASE UNCHANGED attempts
      BY <3>1
    <3>2. ASSUME NEW p \in Ops, NEW b \in AttemptKeys, NEW r \in Attempts,
                 RecordAttempt(p, b, r)
          PROVE  attempts'[o][a] = attempts[o][a]
      BY <2>1, <3>2 DEF RecordAttempt, TypeInv, TypeOK
    <3> QED
      BY <1>1, <3>1, <3>2
         DEF Next, vars, Create, Transition, FindTransition, CheckDuplicate,
             AppendLocked, Crash
  <2> QED
    BY <1>1, <2>1, HistoryKept
<1>2. IInv => TypeInv
  BY DEF IInv
<1> QED
  BY <1>1, <1>2, Invariance, PTL DEF Spec, RecordsImmutable
-----------------------------------------------------------------------------
\* The states of a history form a sequence of states.
LEMMA ProjectionType ==
  ASSUME NEW t \in Seq(Transitions)
  PROVE  LET b == [i \in DOMAIN t |-> t[i].to] IN
         /\ b \in Seq(BridgeState)
         /\ Len(b) = Len(t)
         /\ \A i \in 1..Len(t) : b[i] = t[i].to
<1>1. /\ DOMAIN t = 1..Len(t)
      /\ Len(t) \in Nat
      /\ \A i \in 1..Len(t) : t[i] \in Transitions
  OBVIOUS
<1>2. \A i \in 1..Len(t) : t[i].to \in BridgeState
  BY <1>1 DEF Transitions
<1> QED
  BY <1>1, <1>2

\* The engine implements the abstract operation log: the steps of a call
\* that only read, check, answer or fail are invisible, creating an
\* operation is Create, and the locked append is Advance.
THEOREM EngineImplementsLog == Spec => ImplementsOperationLog
<1>1. Init => Abstract!Init
  BY DEF Init, Abstract!Init, logBar
<1>2. ASSUME TypeInv, TypeInv', ChainIntact, [Next]_vars
      PROVE  [Abstract!Next]_logBar
  <2>1. CASE UNCHANGED <<row, transitions>>
    BY <2>1 DEF logBar
  <2>2. ASSUME NEW o \in Ops, Create(o)
        PROVE  Abstract!Create(o)
    <3>1. transitions[o] = <<>>
      BY <2>2 DEF Create, exists
    <3>2. logBar[o] = <<>>
      BY <3>1 DEF logBar
    <3>3. DOMAIN transitions'[o] = {1} /\ transitions'[o][1].to = "CREATED"
      BY <1>2, <2>2, CreateShape
    <3>4. logBar'[o] = <<"CREATED">>
      BY <3>3 DEF logBar
    <3>5. \A p \in Ops : p # o => logBar'[p] = logBar[p]
      BY <1>2, <2>2, CreateShape DEF logBar
    <3>6. logBar' = [logBar EXCEPT ![o] = <<"CREATED">>]
      BY <3>4, <3>5 DEF logBar
    <3> QED
      BY <3>2, <3>6 DEF Abstract!Create
  <2>3. ASSUME NEW c \in Clients, AppendLocked(c), appendAdmits(cmd[c])
        PROVE  \E o \in Ops, to \in BridgeState : Abstract!Advance(o, to)
    <3> DEFINE o == cmd[c].op
               to == cmd[c].to
               n == Len(transitions[o])
    <3>1. /\ o \in Ops /\ n \in Nat /\ n > 0
          /\ Len(transitions'[o]) = n + 1
          /\ \A i \in 1..n : transitions'[o][i] = transitions[o][i]
          /\ transitions'[o][n + 1].to = to
          /\ \A p \in Ops : p # o => transitions'[p] = transitions[p]
      BY <1>2, <2>3, AppendShape
    <3>2. to \in BridgeState
      BY <1>2, <2>3, CommandType DEF TypeInv, TypeOK, AppendLocked
    <3>3. canTransition(row[o].state, to)
      BY <2>3 DEF appendAdmits
    <3>4. exists(o)
      BY <3>1 DEF exists
    <3>5. row[o].state = transitions[o][n].to
      BY <1>2, <3>1, <3>4 DEF ChainIntact
    <3>6. /\ logBar[o] \in Seq(BridgeState) /\ Len(logBar[o]) = n
          /\ \A i \in 1..n : logBar[o][i] = transitions[o][i].to
      <4>1. transitions[o] \in Seq(Transitions)
        BY <1>2, <3>1 DEF TypeInv, TypeOK
      <4>2. logBar[o] = [i \in DOMAIN transitions[o] |-> transitions[o][i].to]
        BY <3>1 DEF logBar
      <4> QED
        BY <4>1, <4>2, ProjectionType
    <3>7. /\ logBar'[o] \in Seq(BridgeState) /\ Len(logBar'[o]) = n + 1
          /\ \A i \in 1..(n + 1) : logBar'[o][i] = transitions'[o][i].to
      <4>1. transitions'[o] \in Seq(Transitions)
        BY <1>2, <3>1 DEF TypeInv, TypeOK
      <4>2. logBar'[o] = [i \in DOMAIN transitions'[o] |-> transitions'[o][i].to]
        BY <3>1 DEF logBar
      <4> HIDE DEF o
      <4> QED
        BY <3>1, <4>1, <4>2, ProjectionType
    <3> HIDE DEF o, to, n
    <3>8. logBar'[o] = Append(logBar[o], to)
      <4>1. /\ Append(logBar[o], to) \in Seq(BridgeState)
            /\ Len(Append(logBar[o], to)) = n + 1
            /\ \A i \in 1..n : Append(logBar[o], to)[i] = logBar[o][i]
            /\ Append(logBar[o], to)[n + 1] = to
        BY <3>1, <3>2, <3>6
      <4>2. \A i \in 1..(n + 1) : logBar'[o][i] = Append(logBar[o], to)[i]
        BY <3>1, <3>6, <3>7, <4>1
      <4> QED
        BY <3>7, <4>1, <4>2, SeqEqual
    <3>9. \A p \in Ops : p # o => logBar'[p] = logBar[p]
      BY <3>1 DEF logBar
    <3>10. logBar' = [logBar EXCEPT ![o] = Append(logBar[o], to)]
      BY <3>8, <3>9 DEF logBar
    <3>11. Abstract!Advance(o, to)
      BY <3>1, <3>3, <3>5, <3>6, <3>10
         DEF Abstract!Advance, Abstract!canTransition, Abstract!forward,
             Abstract!terminal, canTransition, forward, terminal
    <3> QED
      BY <3>1, <3>2, <3>11
  <2> QED
    BY <1>2, <2>1, <2>2, <2>3, TableSteps
       DEF Abstract!Next, Abstract!BridgeState, BridgeState
<1>3. IInv => TypeInv /\ ChainIntact
  BY DEF IInv
<1> QED
  BY <1>1, <1>2, <1>3, Invariance, PTL
     DEF Spec, ImplementsOperationLog, Abstract!Spec
=============================================================================
