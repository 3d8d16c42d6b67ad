------------------------ MODULE CrossSettlementProofs ------------------------
(***************************************************************************)
(* The settlement saga, for any number of workers, contents, crashes and   *)
(* any deadlines.  The properties speak of the log and of the two ledgers; *)
(* the workers act on copies that may be old, so the invariant says of     *)
(* each of them which position of the log it holds, what it may record     *)
(* next, and that this is already true of the ledgers.                     *)
(***************************************************************************)
EXTENDS CrossSettlement, TLAPS

\* The saga without its ends, by position: what is not terminal in a log
\* stands at its own place.
saga ==
  << "CREATED", "POLICY_CHECKED", "DELIVERY_RESERVED",
     "DELIVERY_RESERVATION_VERIFIED", "PAYMENT_SUBMITTED", "PAYMENT_FINALIZED",
     "PAYMENT_ATTESTED", "DELIVERY_RELEASED", "DELIVERY_FINALIZED", "RECONCILED" >>

\* The steps a log can take, with what the store does not check.
Legal(s, t) ==
  /\ s \in DOMAIN next
  /\ t \in {next[s]} \cup terminal
  /\ t = "COMPLETED" => s = "RECONCILED"
  /\ t \in {"FAILED", "EXPIRED"} => s \in {"CREATED", "POLICY_CHECKED"}

OccursIn(l, s) == \E i \in DOMAIN l : l[i] = s

LogOK(l) ==
  /\ \A i \in DOMAIN l : l[i] \in DOMAIN next => i \in 1..10 /\ l[i] = saga[i]
  /\ \A i \in DOMAIN l : i + 1 \in DOMAIN l => Legal(l[i], l[i + 1])
  /\ l # <<>> => l[1] = "CREATED"

\* What recording state s says of the ledgers.
TrueOf(d, p, s) ==
  /\ s = "PAYMENT_FINALIZED" => p = "final"
  /\ s = "RECONCILED" => d = "released" /\ p = "final"
  /\ s = "COMPENSATED" => d = "cancelled"

\* The ledgers moved only for states that are recorded.
LedgerOK(l, d, p) ==
  /\ \A i \in DOMAIN l : TrueOf(d, p, l[i])
  /\ p # "none" => OccursIn(l, "DELIVERY_RESERVATION_VERIFIED")
  /\ d = "released" => OccursIn(l, "PAYMENT_ATTESTED")

\* A worker at c with copy h and target g.
WorkerOK(l, d, p, c, h, g) ==
  /\ c \notin {"idle", "create"} =>
       h.version + 1 \in DOMAIN l /\ l[h.version + 1] = h.state
  /\ c \in {"call", "move", "cancel", "end"} => h.state \in DOMAIN next
  /\ c = "cancel" => compensable(h.state)
  /\ c \in {"move", "end"} => Legal(h.state, g) /\ TrueOf(d, p, g)

WorkersOK ==
  \A w \in Workers : WorkerOK(log, delivery, payment, pc[w], held[w], goal[w])

IInv == TypeOK /\ LogOK(log) /\ LedgerOK(log, delivery, payment) /\ WorkersOK

\* What a log and the ledgers never lose.
Grows(l, m) == \A i \in DOMAIN l : i \in DOMAIN m /\ m[i] = l[i]

Lasting(d, p, e, q) ==
  /\ d \in {"released", "cancelled"} => e = d
  /\ p = "final" => q = p

-----------------------------------------------------------------------------
\* The table of the saga, state by state.
LEMMA SagaFacts ==
  /\ DOMAIN next =
       { "CREATED", "POLICY_CHECKED", "DELIVERY_RESERVED",
         "DELIVERY_RESERVATION_VERIFIED", "PAYMENT_SUBMITTED", "PAYMENT_FINALIZED",
         "PAYMENT_ATTESTED", "DELIVERY_RELEASED", "DELIVERY_FINALIZED",
         "RECONCILED" }
  /\ DOMAIN next \cap terminal = {}
  /\ \A i \in 1..10 : saga[i] \in DOMAIN next
  /\ \A i \in 1..9 : next[saga[i]] = saga[i + 1]
  /\ next["RECONCILED"] = "COMPLETED"
  /\ \A i, j \in 1..10 : saga[i] = saga[j] => i = j
  /\ saga[10] = "RECONCILED"
<1>1. DOMAIN next =
       { "CREATED", "POLICY_CHECKED", "DELIVERY_RESERVED",
         "DELIVERY_RESERVATION_VERIFIED", "PAYMENT_SUBMITTED", "PAYMENT_FINALIZED",
         "PAYMENT_ATTESTED", "DELIVERY_RELEASED", "DELIVERY_FINALIZED",
         "RECONCILED" }
  BY DEF next
<1>2. DOMAIN next \cap terminal = {}
  BY <1>1 DEF terminal
<1>3. \A i \in 1..10 : saga[i] \in DOMAIN next
  BY <1>1 DEF saga
<1>4. \A i \in 1..9 : next[saga[i]] = saga[i + 1]
  BY DEF saga, next
<1>5. next["RECONCILED"] = "COMPLETED"
  BY DEF next
<1>6. \A i, j \in 1..10 : saga[i] = saga[j] => i = j
  BY DEF saga
<1>7. saga[10] = "RECONCILED"
  BY DEF saga
<1> QED
  BY <1>1, <1>2, <1>3, <1>4, <1>5, <1>6, <1>7

\* The states of the table are states of the settlement, and so is what
\* follows them.
LEMMA NextStates ==
  ASSUME NEW s \in DOMAIN next
  PROVE  s \in SettlementState /\ next[s] \in SettlementState
  BY DEF next, SettlementState, terminal

\* What is true of a log and of the ledgers stays true of them.
LEMMA TruthLasts ==
  ASSUME NEW d, NEW p, NEW e, NEW q, NEW s, TrueOf(d, p, s), Lasting(d, p, e, q)
  PROVE  TrueOf(e, q, s)
  BY DEF TrueOf, Lasting

LEMMA WorkerLasts ==
  ASSUME NEW l, NEW m, NEW d, NEW p, NEW e, NEW q, NEW c, NEW h, NEW g,
         WorkerOK(l, d, p, c, h, g), Grows(l, m), Lasting(d, p, e, q)
  PROVE  WorkerOK(m, e, q, c, h, g)
  BY TruthLasts DEF WorkerOK, Grows

\* Appending a legal state keeps the log a run of the saga.
LEMMA LogAppend ==
  ASSUME NEW l \in Seq(SettlementState), l # <<>>, LogOK(l),
         NEW s \in SettlementState, Legal(l[Len(l)], s)
  PROVE  LogOK(Append(l, s)) /\ Grows(l, Append(l, s))
<1> DEFINE m == Append(l, s)
<1>1. PICK n \in Nat \ {0} :
         /\ DOMAIN l = 1..n /\ Len(l) = n
         /\ DOMAIN m = 1..(n + 1)
         /\ \A i \in 1..n : m[i] = l[i]
         /\ m[n + 1] = s
  OBVIOUS
<1>2. Legal(l[n], s)
  BY <1>1
<1> HIDE DEF m
<1>3. Grows(l, m)
  BY <1>1 DEF Grows
<1>4. ASSUME s \in DOMAIN next
      PROVE  n + 1 \in 1..10 /\ s = saga[n + 1]
  <2>1. s = next[l[n]] /\ l[n] \in DOMAIN next
    BY <1>2, <1>4, SagaFacts DEF Legal
  <2>2. n \in 1..10 /\ l[n] = saga[n]
    BY <1>1, <2>1 DEF LogOK
  <2>3. n # 10
    BY <1>4, <2>1, <2>2, SagaFacts DEF terminal
  <2>4. n \in 1..9
    BY <2>2, <2>3
  <2> QED
    BY <2>1, <2>2, <2>4, SagaFacts
<1>5. ASSUME NEW i \in DOMAIN m, m[i] \in DOMAIN next
      PROVE  i \in 1..10 /\ m[i] = saga[i]
  <2>1. CASE i \in 1..n
    BY <1>1, <1>5, <2>1 DEF LogOK
  <2>2. CASE i = n + 1
    BY <1>1, <1>4, <1>5, <2>2
  <2> QED
    BY <1>1, <2>1, <2>2
<1>6. ASSUME NEW i \in DOMAIN m, i + 1 \in DOMAIN m
      PROVE  Legal(m[i], m[i + 1])
  <2>1. CASE i + 1 \in 1..n
    BY <1>1, <1>6, <2>1 DEF LogOK
  <2>2. CASE i = n
    BY <1>1, <1>2, <2>2
  <2> QED
    BY <1>1, <1>6, <2>1, <2>2
<1>7. m # <<>> => m[1] = "CREATED"
  BY <1>1 DEF LogOK
<1> QED
  BY <1>3, <1>5, <1>6, <1>7 DEF LogOK, m

\* Recording what is true keeps the ledgers in line with the log.
LEMMA LedgerAppend ==
  ASSUME NEW l \in Seq(SettlementState), NEW s \in SettlementState,
         NEW d, NEW p, LedgerOK(l, d, p), TrueOf(d, p, s)
  PROVE  LedgerOK(Append(l, s), d, p)
<1>1. /\ DOMAIN l = 1..Len(l) /\ DOMAIN Append(l, s) = 1..(Len(l) + 1)
      /\ \A i \in 1..Len(l) : Append(l, s)[i] = l[i]
      /\ Append(l, s)[Len(l) + 1] = s
  OBVIOUS
<1> QED
  BY <1>1 DEF LedgerOK, OccursIn

\* A step of one worker leaves the others as they are.
LEMMA StepKeeps ==
  ASSUME IInv, TypeOK', NEW w \in Workers,
         Grows(log, log'), Lasting(delivery, payment, delivery', payment'),
         LogOK(log'), LedgerOK(log', delivery', payment'),
         \A v \in Workers \ {w} :
           pc'[v] = pc[v] /\ held'[v] = held[v] /\ goal'[v] = goal[v],
         WorkerOK(log', delivery', payment', pc'[w], held'[w], goal'[w])
  PROVE  IInv'
<1>1. ASSUME NEW v \in Workers \ {w}
      PROVE  WorkerOK(log', delivery', payment', pc'[v], held'[v], goal'[v])
  BY WorkerLasts DEF IInv, WorkersOK
<1>2. WorkersOK'
  BY <1>1 DEF WorkersOK
<1> QED
  BY <1>2 DEF IInv

\* The bookkeeping of a worker that stops.
LEMMA StopKeeps ==
  ASSUME IInv, TypeOK', NEW w \in Workers, Stop(w),
         Grows(log, log'), LogOK(log'), LedgerOK(log', delivery, payment),
         UNCHANGED <<delivery, payment>>
  PROVE  IInv'
<1>1. \A v \in Workers \ {w} :
        pc'[v] = pc[v] /\ held'[v] = held[v] /\ goal'[v] = goal[v]
  BY DEF Stop, IInv, TypeOK
<1>2. pc'[w] = "idle"
  BY DEF Stop, IInv, TypeOK
<1>3. WorkerOK(log', delivery', payment', pc'[w], held'[w], goal'[w])
  BY <1>2 DEF WorkerOK
<1>4. Lasting(delivery, payment, delivery', payment')
  BY DEF Lasting
<1> QED
  BY <1>1, <1>3, <1>4, StepKeeps

\* A worker that gives up, whatever became of the delivery in the meantime.
LEMMA GiveUpKeeps ==
  ASSUME IInv, TypeOK', NEW w \in Workers, pc[w] \in {"loop", "call", "move"},
         held[w].state \in DOMAIN next, NEW early \in {"FAILED", "EXPIRED"},
         giveUp(w, early), UNCHANGED log, LedgerOK(log, delivery', payment'),
         Lasting(delivery, payment, delivery', payment')
  PROVE  IInv'
<1>1. \A v \in Workers \ {w} :
        pc'[v] = pc[v] /\ held'[v] = held[v] /\ goal'[v] = goal[v]
  BY DEF giveUp, Aim, IInv, TypeOK
<1>2. held'[w] = held[w]
  BY DEF giveUp, Aim
<1>3. /\ held[w].version + 1 \in DOMAIN log
      /\ log[held[w].version + 1] = held[w].state
  BY DEF IInv, WorkersOK, WorkerOK
<1>4. CASE compensable(held[w].state)
  <2>1. pc'[w] = "cancel"
    BY <1>4 DEF giveUp, Aim, IInv, TypeOK
  <2>2. WorkerOK(log', delivery', payment', pc'[w], held'[w], goal'[w])
    BY <1>2, <1>3, <1>4, <2>1 DEF WorkerOK
  <2> QED
    BY <1>1, <2>2, StepKeeps DEF IInv, Grows
<1>5. CASE ~compensable(held[w].state)
  <2>1. /\ pc'[w] = "end"
        /\ goal'[w] = IF beforePaymentFinality(held[w].state)
                        THEN early ELSE "MANUAL_REVIEW"
    BY <1>5 DEF giveUp, Aim, IInv, TypeOK
  <2>2. Legal(held[w].state, goal'[w]) /\ TrueOf(delivery', payment', goal'[w])
    BY <1>5, <2>1
       DEF Legal, TrueOf, compensable, beforePaymentFinality, terminal
  <2>3. WorkerOK(log', delivery', payment', pc'[w], held'[w], goal'[w])
    BY <1>2, <1>3, <2>1, <2>2 DEF WorkerOK
  <2> QED
    BY <1>1, <2>3, StepKeeps DEF IInv, Grows
<1> QED
  BY <1>4, <1>5

-----------------------------------------------------------------------------
\* Types of the steps that end a call of execute or give it up.
LEMMA AimType ==
  ASSUME TypeOK, NEW w \in Workers, pc[w] # "idle",
         NEW label \in {"move", "end"}, NEW to \in SettlementState,
         Aim(w, label, to), UNCHANGED <<request, log, now, crashes>>,
         delivery' \in {"none", "reserved", "released", "cancelled"},
         payment' \in {"none", "submitted", "final"}, lateCancel' \in BOOLEAN
  PROVE  TypeOK'
  BY DEF TypeOK, Aim, SettlementState, next, terminal

LEMMA GiveUpType ==
  ASSUME TypeOK, NEW w \in Workers, pc[w] # "idle",
         NEW early \in {"FAILED", "EXPIRED"}, giveUp(w, early),
         UNCHANGED <<request, log, now, crashes, lateCancel>>,
         delivery' \in {"none", "reserved", "released", "cancelled"},
         payment' \in {"none", "submitted", "final"}
  PROVE  TypeOK'
<1>1. early \in SettlementState /\ "MANUAL_REVIEW" \in SettlementState
  BY DEF SettlementState, terminal
<1>2. CASE compensable(held[w].state)
  <2>1. Aim(w, "cancel", "NONE")
    BY <1>2 DEF giveUp
  <2> QED
    BY <2>1 DEF TypeOK, Aim
<1>3. CASE ~compensable(held[w].state)
  <2> DEFINE to == IF beforePaymentFinality(held[w].state)
                     THEN early ELSE "MANUAL_REVIEW"
  <2>1. Aim(w, "end", to)
    BY <1>3 DEF giveUp
  <2>2. to \in SettlementState /\ lateCancel' \in BOOLEAN
    BY <1>1 DEF TypeOK
  <2> HIDE DEF to
  <2> QED
    BY <2>1, <2>2, AimType
<1> QED
  BY <1>2, <1>3

LEMMA StopType ==
  ASSUME TypeOK, NEW w \in Workers, Stop(w), UNCHANGED <<request, now, delivery,
         payment, lateCancel>>, crashes' \in 0..MaxCrashes,
         log' \in Seq(SettlementState), log' = <<>> <=> log = <<>>
  PROVE  TypeOK'
  BY DEF TypeOK, Stop, Nothing

\* What a call does to the ledgers, when it is made in a recorded state.
LEMMA PerformKeeps ==
  ASSUME IInv, NEW w \in Workers, pc[w] = "call", mayAnswerYes(held[w].state),
         Perform(held[w].state)
  PROVE  /\ delivery' \in {"none", "reserved", "released", "cancelled"}
         /\ payment' \in {"none", "submitted", "final"}
         /\ Lasting(delivery, payment, delivery', payment')
         /\ LedgerOK(log, delivery', payment')
         /\ TrueOf(delivery', payment', next[held[w].state])
<1> DEFINE s == held[w].state
<1>1. s \in DOMAIN next /\ OccursIn(log, s)
  BY DEF IInv, WorkersOK, WorkerOK, OccursIn
<1>2. /\ delivery \in {"none", "reserved", "released", "cancelled"}
      /\ payment \in {"none", "submitted", "final"}
  BY DEF IInv, TypeOK
<1>3. /\ delivery' \in {"none", "reserved", "released", "cancelled"}
      /\ payment' \in {"none", "submitted", "final"}
  BY <1>2 DEF Perform
<1>4. Lasting(delivery, payment, delivery', payment')
  BY <1>2 DEF Perform, Lasting
<1>5. LedgerOK(log, delivery', payment')
  <2>1. \A i \in DOMAIN log : TrueOf(delivery', payment', log[i])
    BY <1>4, TruthLasts DEF IInv, LedgerOK
  <2>2. payment' # "none" => OccursIn(log, "DELIVERY_RESERVATION_VERIFIED")
    BY <1>1 DEF IInv, LedgerOK, Perform
  <2>3. delivery' = "released" => OccursIn(log, "PAYMENT_ATTESTED")
    BY <1>1 DEF IInv, LedgerOK, Perform
  <2> QED
    BY <2>1, <2>2, <2>3 DEF LedgerOK
<1>6. TrueOf(delivery', payment', next[s])
  <2>1. next[s] = "PAYMENT_FINALIZED" => s = "PAYMENT_SUBMITTED"
    BY <1>1 DEF next
  <2>2. next[s] = "RECONCILED" => s = "DELIVERY_FINALIZED"
    BY <1>1 DEF next
  <2>3. next[s] # "COMPENSATED"
    BY <1>1 DEF next
  <2>4. s = "PAYMENT_SUBMITTED" => payment' = "final"
    BY DEF mayAnswerYes, Perform
  <2>5. s = "DELIVERY_FINALIZED" => delivery' = "released" /\ payment' = "final"
    BY DEF mayAnswerYes, Perform
  <2> QED
    BY <2>1, <2>2, <2>3, <2>4, <2>5 DEF TrueOf
<1> QED
  BY <1>3, <1>4, <1>5, <1>6

\* store.get and store.create.
LEMMA ReadKeeps ==
  ASSUME IInv, NEW w \in Workers,
         (\E r \in Requests : Get(w, r)) \/ Create(w)
  PROVE  IInv'
<1> USE SettlementConstants
<1>1. \A v \in Workers \ {w} :
        pc'[v] = pc[v] /\ held'[v] = held[v] /\ goal'[v] = goal[v]
  BY DEF Get, Create, IInv, TypeOK
<1>2. Lasting(delivery, payment, delivery', payment')
  BY DEF Get, Create, Lasting
<1>3. ASSUME log # <<>>
      PROVE  /\ Record.version + 1 \in DOMAIN log
             /\ log[Record.version + 1] = Record.state
             /\ Record \in [state : SettlementState \cup {"NONE"}, version : Nat]
  BY <1>3 DEF IInv, TypeOK, Record, state, version
<1>4. CASE \E r \in Requests : Get(w, r)
  <2>1. PICK r \in Requests : Get(w, r)
    BY <1>4
  <2>2. /\ pc[w] = "idle" /\ mine' = [mine EXCEPT ![w] = r]
        /\ UNCHANGED <<request, log, delivery, payment, now, crashes, goal, lateCancel>>
    BY <2>1 DEF Get
  <2>3. \/ pc' = [pc EXCEPT ![w] = "create"] /\ UNCHANGED held
        \/ /\ log # <<>> /\ pc' = [pc EXCEPT ![w] = "loop"]
           /\ held' = [held EXCEPT ![w] = Record]
    BY <2>1 DEF Get
  <2>4. ASSUME UNCHANGED held PROVE TypeOK'
    BY <2>2, <2>3, <2>4 DEF IInv, TypeOK
  <2>5. ASSUME log # <<>>, held' = [held EXCEPT ![w] = Record] PROVE TypeOK'
    BY <1>3, <2>2, <2>3, <2>5 DEF IInv, TypeOK
  <2>6. TypeOK'
    BY <2>3, <2>4, <2>5
  <2>7. WorkerOK(log', delivery', payment', pc'[w], held'[w], goal'[w])
    BY <1>3, <2>2, <2>3 DEF IInv, TypeOK, WorkerOK
  <2>8. Grows(log, log') /\ LogOK(log') /\ LedgerOK(log', delivery', payment')
    BY <2>2 DEF IInv, Grows
  <2> QED
    BY <1>1, <1>2, <2>6, <2>7, <2>8, StepKeeps
<1>5. CASE Create(w)
  <2>1. UNCHANGED <<delivery, payment, now, crashes, mine, goal, lateCancel>>
          /\ pc' = [pc EXCEPT ![w] = "loop"] /\ mine[w] \in Requests
          /\ goal[w] = "NONE" /\ pc[w] = "create"
    BY <1>5 DEF Create, IInv, TypeOK
  <2>2. CASE log # <<>>
    <3>1. UNCHANGED <<request, log>> /\ held' = [held EXCEPT ![w] = Record]
      BY <1>5, <2>2 DEF Create
    <3>2. TypeOK'
      BY <1>3, <2>1, <2>2, <3>1 DEF IInv, TypeOK
    <3>3. WorkerOK(log', delivery', payment', pc'[w], held'[w], goal'[w])
      BY <1>3, <2>1, <2>2, <3>1 DEF IInv, TypeOK, WorkerOK
    <3>4. Grows(log, log') /\ LogOK(log') /\ LedgerOK(log', delivery', payment')
      BY <2>1, <3>1 DEF IInv, Grows
    <3> QED
      BY <1>1, <1>2, <3>2, <3>3, <3>4, StepKeeps
  <2>3. CASE log = <<>>
    <3>1. /\ request' = mine[w] /\ log' = <<"CREATED">>
          /\ held' = [held EXCEPT ![w] = [state |-> "CREATED", version |-> 0]]
      BY <1>5, <2>3 DEF Create
    <3>2. "CREATED" \in SettlementState
      BY SagaFacts DEF SettlementState
    <3>3. TypeOK'
      BY <2>1, <2>3, <3>1, <3>2 DEF IInv, TypeOK
    <3>4. DOMAIN log' = {1} /\ log'[1] = "CREATED"
      BY <3>1
    <3>5. WorkerOK(log', delivery', payment', pc'[w], held'[w], goal'[w])
      BY <2>1, <3>1, <3>4 DEF IInv, TypeOK, WorkerOK
    <3>6. Grows(log, log') /\ LogOK(log')
      BY <2>3, <3>4 DEF LogOK, Grows, saga
    <3>7. LedgerOK(log', delivery', payment')
      BY <2>1, <2>3, <3>4 DEF IInv, LedgerOK, OccursIn, TrueOf
    <3> QED
      BY <1>1, <1>2, <3>3, <3>5, <3>6, <3>7, StepKeeps
  <2> QED
    BY <2>2, <2>3
<1> QED
  BY <1>4, <1>5

\* The test of the clock at the head of the loop, and the end of execute.
LEMMA LoopKeeps ==
  ASSUME IInv, NEW w \in Workers, Return(w) \/ Expire(w) \/ Advance(w)
  PROVE  IInv'
<1> USE SettlementConstants
<1>1. /\ pc[w] = "loop" /\ UNCHANGED <<request, log, delivery, payment, now, crashes,
                                       lateCancel>>
      /\ held[w].version + 1 \in DOMAIN log
      /\ log[held[w].version + 1] = held[w].state
  BY DEF Return, Expire, Advance, IInv, WorkersOK, WorkerOK
<1>2. /\ Grows(log, log') /\ LogOK(log') /\ LedgerOK(log', delivery', payment')
      /\ LedgerOK(log, delivery', payment') /\ LedgerOK(log', delivery, payment)
      /\ Lasting(delivery, payment, delivery', payment')
  BY <1>1 DEF IInv, Grows, Lasting
<1>3. held[w].state \notin terminal => held[w].state \in DOMAIN next
  BY <1>1 DEF IInv, TypeOK, SettlementState
<1>4. CASE Return(w)
  <2>1. Stop(w)
    BY <1>4 DEF Return
  <2>2. TypeOK'
    BY <1>1, <2>1, StopType DEF IInv, TypeOK
  <2> QED
    BY <1>1, <1>2, <2>1, <2>2, StopKeeps
<1>5. CASE Expire(w)
  <2>1. giveUp(w, "EXPIRED") /\ held[w].state \in DOMAIN next
    BY <1>3, <1>5 DEF Expire
  <2>2. TypeOK'
    BY <1>1, <2>1, GiveUpType DEF IInv, TypeOK
  <2> QED
    BY <1>1, <1>2, <2>1, <2>2, GiveUpKeeps
<1>6. CASE Advance(w)
  <2>1. /\ pc' = [pc EXCEPT ![w] = "call"] /\ UNCHANGED <<mine, held, goal>>
        /\ held[w].state \in DOMAIN next
    BY <1>3, <1>6 DEF Advance, Goto
  <2>2. TypeOK'
    BY <1>1, <2>1 DEF IInv, TypeOK
  <2>3. WorkerOK(log', delivery', payment', pc'[w], held'[w], goal'[w])
    BY <1>1, <2>1 DEF WorkerOK, IInv, TypeOK
  <2>4. \A v \in Workers \ {w} :
          pc'[v] = pc[v] /\ held'[v] = held[v] /\ goal'[v] = goal[v]
    BY <2>1 DEF IInv, TypeOK
  <2> QED
    BY <1>2, <2>2, <2>3, <2>4, StepKeeps
<1> QED
  BY <1>4, <1>5, <1>6

\* A call on a ledger, which succeeds, is denied, or throws.
LEMMA CallKeeps ==
  ASSUME IInv, NEW w \in Workers, Call(w)
  PROVE  IInv'
<1> DEFINE s == held[w].state
<1>1. /\ pc[w] = "call" /\ UNCHANGED <<request, log, now, crashes, lateCancel>>
      /\ s \in DOMAIN next
      /\ held[w].version + 1 \in DOMAIN log
      /\ log[held[w].version + 1] = s
  BY DEF Call, IInv, WorkersOK, WorkerOK
<1>2. /\ s \in SettlementState /\ next[s] \in SettlementState
      /\ "FAILED" \in SettlementState /\ "MANUAL_REVIEW" \in SettlementState
  BY <1>1, NextStates DEF SettlementState, terminal
<1>3. /\ delivery \in {"none", "reserved", "released", "cancelled"}
      /\ payment \in {"none", "submitted", "final"}
      /\ LedgerOK(log, delivery, payment) /\ LogOK(log)
      /\ Lasting(delivery, payment, delivery, payment)
      /\ lateCancel \in BOOLEAN
  BY DEF IInv, TypeOK, Lasting
\* The worker goes on to record state to.
<1>4. ASSUME NEW to \in SettlementState, Aim(w, "move", to), Legal(s, to),
             TrueOf(delivery', payment', to), LedgerOK(log, delivery', payment'),
             delivery' \in {"none", "reserved", "released", "cancelled"},
             payment' \in {"none", "submitted", "final"},
             Lasting(delivery, payment, delivery', payment')
      PROVE  IInv'
  <2>1. TypeOK'
    BY <1>1, <1>3, <1>4, AimType DEF IInv
  <2>2. pc'[w] = "move" /\ goal'[w] = to /\ held'[w] = held[w]
    BY <1>4 DEF Aim, IInv, TypeOK
  <2>3. \A v \in Workers \ {w} :
          pc'[v] = pc[v] /\ held'[v] = held[v] /\ goal'[v] = goal[v]
    BY <1>4 DEF Aim, IInv, TypeOK
  <2>4. WorkerOK(log', delivery', payment', pc'[w], held'[w], goal'[w])
    BY <1>1, <1>4, <2>2 DEF WorkerOK
  <2>5. Grows(log, log') /\ LogOK(log') /\ LedgerOK(log', delivery', payment')
    BY <1>1, <1>3, <1>4 DEF Grows
  <2> QED
    BY <1>4, <2>1, <2>3, <2>4, <2>5, StepKeeps
<1>5. CASE mayAnswerYes(s) /\ Perform(s) /\ Aim(w, "move", next[s])
  <2>1. Legal(s, next[s])
    BY <1>1 DEF Legal, next
  <2> QED
    BY <1>1, <1>2, <1>4, <1>5, <2>1, PerformKeeps
<1>6. CASE /\ s \in {"CREATED", "DELIVERY_FINALIZED"}
           /\ Aim(w, "move", IF s = "CREATED" THEN "FAILED" ELSE "MANUAL_REVIEW")
           /\ UNCHANGED <<delivery, payment>>
  <2> DEFINE to == IF s = "CREATED" THEN "FAILED" ELSE "MANUAL_REVIEW"
  <2>1. to \in SettlementState /\ Legal(s, to) /\ TrueOf(delivery, payment, to)
    BY <1>1, <1>2, <1>6 DEF Legal, TrueOf, terminal
  <2>2. Aim(w, "move", to)
    BY <1>6
  <2> HIDE DEF to
  <2> QED
    BY <1>3, <1>4, <1>6, <2>1, <2>2
<1>7. CASE /\ (mayAnswerYes(s) /\ Perform(s)) \/ UNCHANGED <<delivery, payment>>
           /\ giveUp(w, "FAILED")
  <2>1. /\ delivery' \in {"none", "reserved", "released", "cancelled"}
        /\ payment' \in {"none", "submitted", "final"}
        /\ LedgerOK(log, delivery', payment')
        /\ Lasting(delivery, payment, delivery', payment')
    BY <1>1, <1>3, <1>7, PerformKeeps
  <2>2. TypeOK'
    BY <1>1, <1>7, <2>1, GiveUpType DEF IInv
  <2> QED
    BY <1>1, <1>7, <2>1, <2>2, GiveUpKeeps
<1> QED
  BY <1>5, <1>6, <1>7 DEF Call

\* The durable transition inside the loop.
LEMMA MoveKeeps ==
  ASSUME IInv, NEW w \in Workers, Move(w)
  PROVE  IInv'
<1>1. /\ pc[w] = "move"
      /\ UNCHANGED <<request, delivery, payment, now, crashes, lateCancel>>
      /\ held[w].state \in DOMAIN next
      /\ held[w].version + 1 \in DOMAIN log
      /\ log[held[w].version + 1] = held[w].state
      /\ Legal(held[w].state, goal[w]) /\ TrueOf(delivery, payment, goal[w])
  BY DEF Move, IInv, WorkersOK, WorkerOK
<1>2. Lasting(delivery, payment, delivery', payment')
  BY <1>1 DEF Lasting
<1>3. CASE /\ transitionAdmits(w)
           /\ log' = Append(log, goal[w])
           /\ held' = [held EXCEPT ![w] =
                         [state |-> goal[w], version |-> held[w].version + 1]]
           /\ pc' = [pc EXCEPT ![w] = "loop"]
           /\ goal' = [goal EXCEPT ![w] = "NONE"]
           /\ UNCHANGED mine
  <2>1. PICK n \in Nat : n = Len(log) /\ DOMAIN log = 1..n
    BY DEF IInv, TypeOK
  <2>2. held[w].version \in Nat /\ held[w].version + 1 = n /\ log # <<>>
    BY <1>1, <1>3, <2>1 DEF transitionAdmits, version, IInv, TypeOK
  <2>3. goal[w] \in SettlementState
    BY <1>1 DEF IInv, TypeOK
  <2>4. LogOK(log') /\ Grows(log, log')
    BY <1>1, <1>3, <2>1, <2>2, <2>3, LogAppend DEF IInv, TypeOK
  <2>5. LedgerOK(log', delivery', payment')
    BY <1>1, <1>3, <2>3, LedgerAppend DEF IInv, TypeOK
  <2>6. /\ log' \in Seq(SettlementState) /\ log' # <<>>
        /\ DOMAIN log' = 1..(n + 1) /\ log'[n + 1] = goal[w]
    <3>1. log \in Seq(SettlementState) /\ log' = Append(log, goal[w])
      BY <1>3 DEF IInv, TypeOK
    <3> QED
      BY <2>1, <2>3, <3>1
  <2>7. TypeOK'
    BY <1>1, <1>3, <2>2, <2>3, <2>6 DEF IInv, TypeOK
  <2>8. /\ pc'[w] = "loop" /\ held'[w].state = goal[w]
        /\ held'[w].version = n
    BY <1>3, <2>2 DEF IInv, TypeOK
  <2>9. WorkerOK(log', delivery', payment', pc'[w], held'[w], goal'[w])
    BY <2>1, <2>6, <2>8 DEF WorkerOK
  <2>10. \A v \in Workers \ {w} :
          pc'[v] = pc[v] /\ held'[v] = held[v] /\ goal'[v] = goal[v]
    BY <1>3 DEF IInv, TypeOK
  <2> QED
    BY <1>2, <2>4, <2>5, <2>7, <2>9, <2>10, StepKeeps
<1>4. CASE giveUp(w, "FAILED") /\ UNCHANGED log
  <2>1. TypeOK'
    BY <1>1, <1>4, GiveUpType DEF IInv, TypeOK
  <2>2. LedgerOK(log, delivery', payment')
    BY <1>1 DEF IInv
  <2> QED
    BY <1>1, <1>2, <1>4, <2>1, <2>2, GiveUpKeeps
<1> QED
  BY <1>3, <1>4 DEF Move

\* The cancellation of the reservation.
LEMMA CancelKeeps ==
  ASSUME IInv, NEW w \in Workers, Cancel(w)
  PROVE  IInv'
<1>1. /\ pc[w] = "cancel" /\ UNCHANGED <<request, log, payment, now, crashes>>
      /\ held[w].state \in DOMAIN next /\ compensable(held[w].state)
      /\ held[w].version + 1 \in DOMAIN log
      /\ log[held[w].version + 1] = held[w].state
      /\ delivery \in {"none", "reserved", "released", "cancelled"}
      /\ payment \in {"none", "submitted", "final"}
      /\ lateCancel' \in BOOLEAN
  BY DEF Cancel, IInv, TypeOK, WorkersOK, WorkerOK
<1>2. PICK to \in {"COMPENSATED", "MANUAL_REVIEW"} :
        /\ Aim(w, "end", to)
        /\ \/ delivery \in {"reserved", "cancelled"} /\ delivery' = "cancelled"
           \/ to = "MANUAL_REVIEW" /\ UNCHANGED delivery
  BY DEF Cancel
<1>3. Lasting(delivery, payment, delivery', payment')
  BY <1>1, <1>2 DEF Lasting
<1>4. /\ delivery' \in {"none", "reserved", "released", "cancelled"}
      /\ payment' \in {"none", "submitted", "final"} /\ to \in SettlementState
  BY <1>1, <1>2 DEF SettlementState, terminal
<1>5. TypeOK'
  BY <1>1, <1>2, <1>4, AimType DEF IInv
<1>6. Legal(held[w].state, to) /\ TrueOf(delivery', payment', to)
  BY <1>1, <1>2 DEF Legal, TrueOf, terminal
<1>7. LedgerOK(log', delivery', payment')
  <2>1. \A i \in DOMAIN log : TrueOf(delivery', payment', log[i])
    BY <1>3, TruthLasts DEF IInv, LedgerOK
  <2> QED
    BY <1>1, <1>2, <2>1 DEF IInv, LedgerOK
<1>8. pc'[w] = "end" /\ goal'[w] = to /\ held'[w] = held[w]
  BY <1>2 DEF Aim, IInv, TypeOK
<1>9. WorkerOK(log', delivery', payment', pc'[w], held'[w], goal'[w])
  BY <1>1, <1>6, <1>8 DEF WorkerOK
<1>10. \A v \in Workers \ {w} :
         pc'[v] = pc[v] /\ held'[v] = held[v] /\ goal'[v] = goal[v]
  BY <1>2 DEF Aim, IInv, TypeOK
<1>11. Grows(log, log') /\ LogOK(log')
  BY <1>1 DEF IInv, Grows
<1> QED
  BY <1>3, <1>5, <1>7, <1>9, <1>10, <1>11, StepKeeps

\* The last transition, and the death of a worker.
LEMMA EndKeeps ==
  ASSUME IInv, NEW w \in Workers, End(w) \/ Crash(w)
  PROVE  IInv'
<1> USE SettlementConstants
<1>1. Stop(w) /\ UNCHANGED <<request, delivery, payment, now, lateCancel>>
        /\ crashes' \in 0..MaxCrashes
  BY DEF End, Crash, IInv, TypeOK
<1>2. CASE UNCHANGED log
  <2>1. TypeOK'
    BY <1>1, <1>2, StopType DEF IInv, TypeOK
  <2>2. Grows(log, log') /\ LogOK(log') /\ LedgerOK(log', delivery, payment)
    BY <1>2 DEF IInv, Grows
  <2> QED
    BY <1>1, <2>1, <2>2, StopKeeps
<1>3. CASE End(w) /\ transitionAdmits(w) /\ log' = Append(log, goal[w])
  <2>1. /\ held[w].version + 1 \in DOMAIN log
        /\ log[held[w].version + 1] = held[w].state
        /\ Legal(held[w].state, goal[w]) /\ TrueOf(delivery, payment, goal[w])
        /\ goal[w] \in SettlementState
    BY <1>3 DEF End, IInv, TypeOK, WorkersOK, WorkerOK
  <2>2. PICK n \in Nat : n = Len(log) /\ DOMAIN log = 1..n
    BY DEF IInv, TypeOK
  <2>3. held[w].version + 1 = n /\ log # <<>>
    BY <1>3, <2>1, <2>2 DEF transitionAdmits, version, IInv, TypeOK
  <2>4. LogOK(log') /\ Grows(log, log')
    BY <1>3, <2>1, <2>2, <2>3, LogAppend DEF IInv, TypeOK
  <2>5. LedgerOK(log', delivery, payment)
    BY <1>3, <2>1, LedgerAppend DEF IInv, TypeOK
  <2>6. log' \in Seq(SettlementState) /\ log' # <<>>
    BY <1>3, <2>1 DEF IInv, TypeOK
  <2>7. TypeOK'
    BY <1>1, <2>3, <2>6, StopType DEF IInv, TypeOK
  <2> QED
    BY <1>1, <2>4, <2>5, <2>7, StopKeeps
<1> QED
  BY <1>2, <1>3 DEF End, Crash

\* The invariant is inductive.
LEMMA Induction ==
  ASSUME IInv, [Next]_vars
  PROVE  IInv'
<1> USE SettlementConstants
<1>1. ASSUME NEW w \in Workers, Execute(w) \/ Crash(w)
      PROVE  IInv'
  BY <1>1, ReadKeeps, LoopKeeps, CallKeeps, MoveKeeps, CancelKeeps, EndKeeps
     DEF Execute
<1>2. CASE PaymentFinalizes \/ Tick \/ UNCHANGED vars
  <2>1. UNCHANGED <<log, delivery, pc, held, goal>>
    BY <1>2 DEF PaymentFinalizes, Tick, vars, worker
  <2>2. TypeOK'
    BY <1>2 DEF PaymentFinalizes, Tick, vars, worker, IInv, TypeOK
  <2>3. Lasting(delivery, payment, delivery', payment') /\ Grows(log, log')
    BY <1>2, <2>1 DEF PaymentFinalizes, Tick, vars, worker, Lasting, Grows
  <2>4. payment' # "none" => payment # "none"
    BY <1>2 DEF PaymentFinalizes, Tick, vars, worker
  <2>5. LogOK(log')
    BY <2>1 DEF IInv
  <2>6. \A i \in DOMAIN log : TrueOf(delivery', payment', log[i])
    BY <2>3, TruthLasts DEF IInv, LedgerOK
  <2>7. LedgerOK(log', delivery', payment')
    BY <2>1, <2>4, <2>6 DEF IInv, LedgerOK
  <2>8. WorkersOK'
    BY <2>1, <2>3, WorkerLasts DEF IInv, WorkersOK
  <2> QED
    BY <2>2, <2>5, <2>7, <2>8 DEF IInv
<1> QED
  BY <1>1, <1>2 DEF Next

-----------------------------------------------------------------------------
\* The invariant holds at first.
LEMMA Initially ==
  ASSUME Init
  PROVE  IInv
<1> USE SettlementConstants
<1>1. TypeOK
  <2>1. /\ log \in Seq(SettlementState) /\ (request = None <=> log = <<>>)
        /\ now \in 0..MaxTime /\ crashes \in 0..MaxCrashes
    BY DEF Init
  <2>2. held \in [Workers -> [state : SettlementState \cup {"NONE"}, version : Nat]]
    BY DEF Init, Nothing
  <2>3. \A w \in Workers :
          /\ pc[w] \in {"move", "end"} <=> goal[w] # "NONE"
          /\ pc[w] = "idle" <=> mine[w] = None
    BY DEF Init
  <2> QED
    BY <2>1, <2>2, <2>3 DEF Init, TypeOK
<1>2. log = <<>> /\ DOMAIN log = {}
  BY DEF Init
<1>3. LogOK(log)
  BY <1>2 DEF LogOK
<1>4. LedgerOK(log, delivery, payment)
  BY <1>2 DEF Init, LedgerOK
<1>5. WorkersOK
  BY DEF Init, WorkersOK, WorkerOK
<1> QED
  BY <1>1, <1>3, <1>4, <1>5 DEF IInv

LEMMA Invariance == Spec => []IInv
<1>1. Init => IInv
  BY Initially
<1>2. IInv /\ [Next]_vars => IInv'
  BY Induction
<1> QED
  BY <1>1, <1>2, PTL DEF Spec

\* What stands before another state in a log is the saga.
LEMMA SagaBefore ==
  ASSUME NEW l \in Seq(SettlementState), LogOK(l), NEW i \in DOMAIN l,
         NEW j \in 1..(i - 1)
  PROVE  j \in DOMAIN l /\ j \in 1..10 /\ l[j] = saga[j]
<1>1. PICK n \in Nat : DOMAIN l = 1..n
  OBVIOUS
<1>2. j \in DOMAIN l /\ j + 1 \in DOMAIN l
  BY <1>1
<1>3. l[j] \in DOMAIN next
  BY <1>2 DEF LogOK, Legal
<1> QED
  BY <1>2, <1>3 DEF LogOK

\* A delivery that was released is paid.
LEMMA DeliveryFollows ==
  ASSUME IInv
  PROVE  DeliveryIsPaid
<1> SUFFICES ASSUME delivery = "released"
             PROVE  /\ payment = "final"
                    /\ OccursIn(log, "PAYMENT_FINALIZED")
                    /\ OccursIn(log, "PAYMENT_ATTESTED")
  BY DEF DeliveryIsPaid, recorded, OccursIn
<1>1. PICK i \in DOMAIN log : log[i] = "PAYMENT_ATTESTED"
  BY DEF IInv, LedgerOK, OccursIn
<1>2. i \in 1..10 /\ saga[i] = "PAYMENT_ATTESTED"
  BY <1>1, SagaFacts DEF IInv, LogOK
<1>3. saga[7] = "PAYMENT_ATTESTED" /\ saga[6] = "PAYMENT_FINALIZED"
  BY DEF saga
<1>4. i = 7
  BY <1>2, <1>3, SagaFacts
<1>5. 6 \in DOMAIN log /\ log[6] = "PAYMENT_FINALIZED"
  BY <1>3, <1>4, SagaBefore DEF IInv, TypeOK
<1>6. payment = "final"
  BY <1>5 DEF IInv, LedgerOK, TrueOf
<1> QED
  BY <1>1, <1>5, <1>6 DEF OccursIn

\* What is recorded is a run of the saga.
LEMMA OrderFollows ==
  ASSUME IInv
  PROVE  SagaOrder
<1> SUFFICES ASSUME NEW i \in 1..(Len(log) - 1)
             PROVE  /\ log[i] \notin terminal
                    /\ log[i + 1] \in {next[log[i]]} \cup terminal
                    /\ log[i + 1] = "COMPLETED" => log[i] = "RECONCILED"
  BY DEF SagaOrder
<1>1. i \in DOMAIN log /\ i + 1 \in DOMAIN log
  BY DEF IInv, TypeOK
<1>2. Legal(log[i], log[i + 1])
  BY <1>1 DEF IInv, LogOK
<1> QED
  BY <1>2, SagaFacts DEF Legal

\* The state before an end of the saga.
LEMMA EndHasCause ==
  ASSUME IInv, NEW i \in DOMAIN log, log[i] \in terminal
  PROVE  i - 1 \in DOMAIN log /\ Legal(log[i - 1], log[i]) /\ i + 1 \notin DOMAIN log
<1>1. PICK n \in Nat : DOMAIN log = 1..n
  BY DEF IInv, TypeOK
<1>2. i # 1
  BY <1>1 DEF IInv, TypeOK, LogOK, terminal
<1>3. i - 1 \in DOMAIN log /\ (i - 1) + 1 = i
  BY <1>1, <1>2
<1>4. Legal(log[i - 1], log[i])
  BY <1>3 DEF IInv, LogOK
<1>5. i + 1 \notin DOMAIN log
  BY SagaFacts DEF IInv, LogOK, Legal
<1> QED
  BY <1>3, <1>4, <1>5

\* A settlement that failed or expired never took the payment.
LEMMA UnpaidFollows ==
  ASSUME IInv
  PROVE  FailedIsUnpaid
<1> SUFFICES ASSUME NEW i \in DOMAIN log, log[i] \in {"FAILED", "EXPIRED"},
                    payment # "none"
             PROVE  FALSE
  BY DEF FailedIsUnpaid, recorded
<1>1. PICK n \in Nat : DOMAIN log = 1..n
  BY DEF IInv, TypeOK
<1>2. /\ i - 1 \in DOMAIN log /\ i + 1 \notin DOMAIN log
      /\ log[i - 1] \in {"CREATED", "POLICY_CHECKED"}
  BY EndHasCause DEF terminal, Legal
<1>3. i - 1 \in 1..10 /\ log[i - 1] = saga[i - 1]
  BY <1>2, SagaFacts DEF IInv, LogOK
<1>4. /\ saga[1] = "CREATED" /\ saga[2] = "POLICY_CHECKED"
      /\ saga[4] = "DELIVERY_RESERVATION_VERIFIED"
  BY DEF saga
<1>5. i - 1 \in {1, 2}
  BY <1>2, <1>3, <1>4, SagaFacts
<1>6. PICK j \in DOMAIN log : log[j] = "DELIVERY_RESERVATION_VERIFIED"
  BY DEF IInv, LedgerOK, OccursIn
<1>7. j \in 1..10 /\ saga[j] = "DELIVERY_RESERVATION_VERIFIED"
  BY <1>6, SagaFacts DEF IInv, LogOK
<1>8. j = 4
  BY <1>4, <1>7, SagaFacts
<1> QED
  BY <1>1, <1>2, <1>5, <1>8

\* A settlement that is completed is delivered and paid.
LEMMA CompletionFollows ==
  ASSUME IInv
  PROVE  CompletedIsDelivered
<1> SUFFICES ASSUME NEW i \in DOMAIN log, log[i] = "COMPLETED"
             PROVE  delivery = "released" /\ payment = "final"
  BY DEF CompletedIsDelivered, recorded
<1>1. i - 1 \in DOMAIN log /\ log[i - 1] = "RECONCILED"
  BY EndHasCause DEF terminal, Legal
<1> QED
  BY <1>1 DEF IInv, LedgerOK, TrueOf

\* The state of the settlement and of its workers keeps its type.
THEOREM TypeCorrect == Spec => []TypeOK
<1>1. IInv => TypeOK
  BY DEF IInv
<1> QED
  BY <1>1, Invariance, PTL

\* A delivery is released for a payment that is final on its ledger and was
\* recorded as final and attested, whatever copies the workers hold.
THEOREM DeliveryCorrect == Spec => []DeliveryIsPaid
<1>1. IInv => DeliveryIsPaid
  BY DeliveryFollows
<1> QED
  BY <1>1, Invariance, PTL

\* The record of a settlement is a run of the saga and is true of both
\* ledgers, although the store compares nothing but versions.
THEOREM HistoryCorrect == Spec => []HistoryIsTrue
<1>1. IInv => HistoryIsTrue
  <2> SUFFICES ASSUME IInv PROVE HistoryIsTrue
    OBVIOUS
  <2>1. CompensatedIsCancelled
    BY DEF IInv, LedgerOK, TrueOf, CompensatedIsCancelled, recorded
  <2> QED
    BY <2>1, OrderFollows, UnpaidFollows, CompletionFollows DEF HistoryIsTrue
<1> QED
  BY <1>1, Invariance, PTL
=============================================================================
