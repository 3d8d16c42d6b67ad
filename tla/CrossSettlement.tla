--------------------------- MODULE CrossSettlement ---------------------------
(***************************************************************************)
(* CrossNetworkSettlementService.execute over the settlement store         *)
(* (packages/core/src/cross-network-settlement.ts): a delivery-versus-     *)
(* payment saga over two ledgers, driven by several processes, each from   *)
(* its own copy of the record.  A call on a ledger and the durable         *)
(* transition that records it are separate steps; a call may fail after it *)
(* took effect, and a process may die between any two steps.               *)
(*                                                                         *)
(* The two ledgers and the policy service are external.                    *)
(***************************************************************************)
EXTENDS Naturals, Sequences

CONSTANTS
  Workers,     \* processes that execute the settlement
  Requests,    \* contents sent under the one settlement id
  expiresAt,   \* expiresAt of each of them
  MaxTime,     \* bound of the clock
  MaxCrashes,  \* bound of the number of crashes
  None

terminal == {"COMPLETED", "COMPENSATED", "FAILED", "EXPIRED", "MANUAL_REVIEW"}

\* The saga: the state that a successful step of advance() leads to.
next ==
  [ CREATED |-> "POLICY_CHECKED",
    POLICY_CHECKED |-> "DELIVERY_RESERVED",
    DELIVERY_RESERVED |-> "DELIVERY_RESERVATION_VERIFIED",
    DELIVERY_RESERVATION_VERIFIED |-> "PAYMENT_SUBMITTED",
    PAYMENT_SUBMITTED |-> "PAYMENT_FINALIZED",
    PAYMENT_FINALIZED |-> "PAYMENT_ATTESTED",
    PAYMENT_ATTESTED |-> "DELIVERY_RELEASED",
    DELIVERY_RELEASED |-> "DELIVERY_FINALIZED",
    DELIVERY_FINALIZED |-> "RECONCILED",
    RECONCILED |-> "COMPLETED" ]

SettlementState == DOMAIN next \cup terminal

ASSUME SettlementConstants ==
  /\ expiresAt \in [Requests -> Nat]
  /\ MaxTime \in Nat /\ MaxCrashes \in Nat
  /\ None \notin Requests

VARIABLES
  request,    \* the content stored with the settlement
  log,        \* its transitions: the states, oldest first
  delivery,   \* external: the delivery leg on its ledger
  payment,    \* external: the payment leg on its ledger
  now,        \* the clock
  crashes,    \* how often a process died
  pc,         \* where each worker's execute() stands
  mine,       \* the content each worker was called with
  held,       \* the copy of the record a worker holds: state and version
  goal,       \* the state a worker is about to record
  lateCancel  \* history: a reservation was cancelled although the store
              \* already said PAYMENT_FINALIZED

worker == <<pc, mine, held, goal>>
vars == <<request, log, delivery, payment, now, crashes, worker, lateCancel>>

state == log[Len(log)]
version == Len(log) - 1
recorded(s) == \E i \in DOMAIN log : log[i] = s

Nothing == [state |-> "NONE", version |-> 0]
Record == [state |-> state, version |-> version]

Init ==
  /\ request = None
  /\ log = <<>>
  /\ delivery = "none"
  /\ payment = "none"
  /\ now = 0
  /\ crashes = 0
  /\ pc = [w \in Workers |-> "idle"]
  /\ mine = [w \in Workers |-> None]
  /\ held = [w \in Workers |-> Nothing]
  /\ goal = [w \in Workers |-> "NONE"]
  /\ lateCancel = FALSE

\* execute() ends, by returning or by throwing.
Stop(w) ==
  /\ pc' = [pc EXCEPT ![w] = "idle"]
  /\ mine' = [mine EXCEPT ![w] = None]
  /\ held' = [held EXCEPT ![w] = Nothing]
  /\ goal' = [goal EXCEPT ![w] = "NONE"]

Goto(w, label) ==
  /\ pc' = [pc EXCEPT ![w] = label]
  /\ UNCHANGED <<mine, held, goal>>

\* Worker w goes on to a durable transition: "move" inside the loop, "end"
\* when the transition is the last thing that execute() does.
Aim(w, label, to) ==
  /\ pc' = [pc EXCEPT ![w] = label]
  /\ goal' = [goal EXCEPT ![w] = to]
  /\ UNCHANGED <<mine, held>>

beforePaymentFinality(s) ==
  s \in {"CREATED", "POLICY_CHECKED", "DELIVERY_RESERVED",
         "DELIVERY_RESERVATION_VERIFIED", "PAYMENT_SUBMITTED"}
-----------------------------------------------------------------------------
\* store.get: a known settlement with other content is a CONFLICT, which
\* leaves no trace; an unknown one is to be created.
Get(w, r) ==
  /\ pc[w] = "idle"
  /\ \/ /\ log = <<>>
        /\ pc' = [pc EXCEPT ![w] = "create"]
        /\ UNCHANGED held
     \/ /\ log # <<>>
        /\ request = r
        /\ held' = [held EXCEPT ![w] = Record]
        /\ pc' = [pc EXCEPT ![w] = "loop"]
  /\ mine' = [mine EXCEPT ![w] = r]
  /\ UNCHANGED <<request, log, delivery, payment, now, crashes, goal, lateCancel>>

\* store.create: the first insert wins.  Whoever loses the race gets the
\* existing record, and its content is not compared again.
Create(w) ==
  /\ pc[w] = "create"
  /\ \/ /\ log = <<>>
        /\ log' = <<"CREATED">>
        /\ request' = mine[w]
        /\ held' = [held EXCEPT ![w] = [state |-> "CREATED", version |-> 0]]
     \/ /\ log # <<>>
        /\ held' = [held EXCEPT ![w] = Record]
        /\ UNCHANGED <<request, log>>
  /\ pc' = [pc EXCEPT ![w] = "loop"]
  /\ UNCHANGED <<delivery, payment, now, crashes, mine, goal, lateCancel>>

Return(w) ==
  /\ pc[w] = "loop"
  /\ held[w].state \in terminal
  /\ Stop(w)
  /\ UNCHANGED <<request, log, delivery, payment, now, crashes, lateCancel>>

\* Mutant: a submitted payment is not a reason to compensate.
compensableUntilPayment(s) ==
  s \in {"DELIVERY_RESERVED", "DELIVERY_RESERVATION_VERIFIED"}

\* The test that expireOrCompensate and handleFailure share.
compensable(s) ==
  beforePaymentFinality(s) /\ s \notin {"CREATED", "POLICY_CHECKED"}

\* What both do: cancel the reservation, or record the outcome at once.
giveUp(w, early) ==
  IF compensable(held[w].state)
    THEN Aim(w, "cancel", "NONE")
    ELSE Aim(w, "end", IF beforePaymentFinality(held[w].state)
                         THEN early ELSE "MANUAL_REVIEW")

\* expireOrCompensate, with the expiry time of the caller's own request.
Expire(w) ==
  /\ pc[w] = "loop"
  /\ held[w].state \notin terminal
  /\ now >= expiresAt[mine[w]]
  /\ giveUp(w, "EXPIRED")
  /\ UNCHANGED <<request, log, delivery, payment, now, crashes, lateCancel>>

Advance(w) ==
  /\ pc[w] = "loop"
  /\ held[w].state \notin terminal
  /\ now < expiresAt[mine[w]]
  /\ Goto(w, "call")
  /\ UNCHANGED <<request, log, delivery, payment, now, crashes, lateCancel>>

\* External: when the action of a state can succeed.  Actions are idempotent
\* under the settlement id; a cancelled reservation cannot be used again.
mayAnswerYes(s) ==
  CASE s \in {"CREATED", "DELIVERY_RESERVATION_VERIFIED", "RECONCILED"} -> TRUE
    [] s = "POLICY_CHECKED" -> delivery # "cancelled"
    [] s \in {"DELIVERY_RESERVED", "PAYMENT_ATTESTED"} ->
         delivery \in {"reserved", "released"}
    [] s \in {"PAYMENT_SUBMITTED", "PAYMENT_FINALIZED"} -> payment = "final"
    [] s = "DELIVERY_RELEASED" -> delivery = "released"
    [] s = "DELIVERY_FINALIZED" -> delivery = "released" /\ payment = "final"

\* External: what the action of a state does to its ledger.
Perform(s) ==
  /\ delivery' = CASE s = "POLICY_CHECKED" /\ delivery = "none" -> "reserved"
                   [] s = "PAYMENT_ATTESTED" /\ delivery = "reserved" -> "released"
                   [] OTHER -> delivery
  /\ payment' = IF s = "DELIVERY_RESERVATION_VERIFIED" /\ payment = "none"
                  THEN "submitted" ELSE payment

\* Mutants: an error of the action is taken for a success; an error of the
\* action ends execute() without a trace.
CallIgnoresError(w) ==
  LET s == held[w].state IN
  /\ pc[w] = "call"
  /\ Perform(s) \/ UNCHANGED <<delivery, payment>>
  /\ Aim(w, "move", next[s])
  /\ UNCHANGED <<request, log, now, crashes, lateCancel>>

CallSwallowsError(w) ==
  LET s == held[w].state IN
  /\ pc[w] = "call"
  /\ \/ mayAnswerYes(s) /\ Perform(s) /\ Aim(w, "move", next[s])
     \/ s # "RECONCILED" /\ UNCHANGED <<delivery, payment>> /\ Stop(w)
  /\ UNCHANGED <<request, log, now, crashes, lateCancel>>

\* The call of advance(): it succeeds; or the policy denies or
\* reconciliation mismatches; or it throws, with or without having taken
\* effect, and handleFailure follows.  RECONCILED makes no call.
Call(w) ==
  LET s == held[w].state IN
  /\ pc[w] = "call"
  /\ \/ /\ mayAnswerYes(s)
        /\ Perform(s)
        /\ Aim(w, "move", next[s])
     \/ /\ s \in {"CREATED", "DELIVERY_FINALIZED"}
        /\ Aim(w, "move", IF s = "CREATED" THEN "FAILED" ELSE "MANUAL_REVIEW")
        /\ UNCHANGED <<delivery, payment>>
     \/ /\ s # "RECONCILED"
        /\ (mayAnswerYes(s) /\ Perform(s)) \/ UNCHANGED <<delivery, payment>>
        /\ giveUp(w, "FAILED")
  /\ UNCHANGED <<request, log, now, crashes, lateCancel>>

\* store.transition: the row is locked, and only the version is compared.
transitionAdmits(w) == held[w].version = version

\* The transition inside the loop.  A stale version is an error like any
\* other: handleFailure runs, with the stale copy.
Move(w) ==
  /\ pc[w] = "move"
  /\ \/ /\ transitionAdmits(w)
        /\ log' = Append(log, goal[w])
        /\ held' = [held EXCEPT ![w] =
                      [state |-> goal[w], version |-> held[w].version + 1]]
        /\ pc' = [pc EXCEPT ![w] = "loop"]
        /\ goal' = [goal EXCEPT ![w] = "NONE"]
        /\ UNCHANGED mine
     \/ /\ ~transitionAdmits(w)
        /\ giveUp(w, "FAILED")
        /\ UNCHANGED log
  /\ UNCHANGED <<request, delivery, payment, now, crashes, lateCancel>>

\* cancelDeliveryReservation: COMPENSATED when it succeeds, MANUAL_REVIEW
\* when it throws, with or without having taken effect.
Cancel(w) ==
  LET takesEffect == delivery \in {"reserved", "cancelled"} /\ delivery' = "cancelled"
  IN
  /\ pc[w] = "cancel"
  /\ \/ takesEffect /\ Aim(w, "end", "COMPENSATED")
     \/ (takesEffect \/ UNCHANGED delivery) /\ Aim(w, "end", "MANUAL_REVIEW")
  /\ lateCancel' = \/ lateCancel
                    \/ (delivery' # delivery /\ recorded("PAYMENT_FINALIZED"))
  /\ UNCHANGED <<request, log, payment, now, crashes>>

\* The last transition of execute(); a stale version makes it throw.
End(w) ==
  /\ pc[w] = "end"
  /\ \/ transitionAdmits(w) /\ log' = Append(log, goal[w])
     \/ ~transitionAdmits(w) /\ UNCHANGED log
  /\ Stop(w)
  /\ UNCHANGED <<request, delivery, payment, now, crashes, lateCancel>>

Crash(w) ==
  /\ pc[w] # "idle"
  /\ crashes < MaxCrashes
  /\ crashes' = crashes + 1
  /\ Stop(w)
  /\ UNCHANGED <<request, log, delivery, payment, now, lateCancel>>

\* External: the payment network makes a submitted payment final.
PaymentFinalizes ==
  /\ payment = "submitted"
  /\ payment' = "final"
  /\ UNCHANGED <<request, log, delivery, now, crashes, worker, lateCancel>>

Tick ==
  /\ now < MaxTime
  /\ now' = now + 1
  /\ UNCHANGED <<request, log, delivery, payment, crashes, worker, lateCancel>>

Execute(w) ==
  \/ \E r \in Requests : Get(w, r)
  \/ Create(w) \/ Return(w) \/ Expire(w) \/ Advance(w)
  \/ Call(w) \/ Move(w) \/ Cancel(w) \/ End(w)

Next ==
  \/ \E w \in Workers : Execute(w) \/ Crash(w)
  \/ PaymentFinalizes
  \/ Tick

Spec == Init /\ [][Next]_vars

\* The settlement is executed again until it ends, and a process that is
\* not killed goes on.
FairSpec == Spec /\ \A w \in Workers : WF_vars(Execute(w))
-----------------------------------------------------------------------------
\* Types; a worker has a target exactly while it is about to record it.
TypeOK ==
  /\ request \in Requests \cup {None}
  /\ log \in Seq(SettlementState)
  /\ request = None <=> log = <<>>
  /\ delivery \in {"none", "reserved", "released", "cancelled"}
  /\ payment \in {"none", "submitted", "final"}
  /\ now \in 0..MaxTime /\ crashes \in 0..MaxCrashes
  /\ pc \in [Workers -> {"idle", "create", "loop", "call", "move", "cancel", "end"}]
  /\ mine \in [Workers -> Requests \cup {None}]
  /\ held \in [Workers -> [state : SettlementState \cup {"NONE"}, version : Nat]]
  /\ goal \in [Workers -> SettlementState \cup {"NONE"}]
  /\ lateCancel \in BOOLEAN
  /\ \A w \in Workers :
       /\ pc[w] \in {"move", "end"} <=> goal[w] # "NONE"
       /\ pc[w] = "idle" <=> mine[w] = None

\* The recorded history is a run of the saga: although the store compares
\* only versions, no worker takes a settlement out of a terminal state, and
\* every other step goes to the next state or gives up.
SagaOrder ==
  \A i \in 1..(Len(log) - 1) :
    /\ log[i] \notin terminal
    /\ log[i + 1] \in {next[log[i]]} \cup terminal
    /\ log[i + 1] = "COMPLETED" => log[i] = "RECONCILED"

\* The delivery is released only for a payment that is final on its ledger
\* and was recorded as final and attested.
DeliveryIsPaid ==
  delivery = "released" =>
    /\ payment = "final"
    /\ recorded("PAYMENT_FINALIZED") /\ recorded("PAYMENT_ATTESTED")

\* COMPENSATED is recorded only when the reservation is cancelled, and then
\* the delivery is never released any more.
CompensatedIsCancelled == recorded("COMPENSATED") => delivery = "cancelled"

\* A settlement that ended as FAILED or EXPIRED never took the payment,
\* also not through a worker that was still on its way.
FailedIsUnpaid ==
  recorded("FAILED") \/ recorded("EXPIRED") => payment = "none"

\* COMPLETED means that both legs took place.
CompletedIsDelivered ==
  recorded("COMPLETED") => delivery = "released" /\ payment = "final"

\* What is recorded is a run of the saga and is true of the two ledgers,
\* although workers act on stale copies, calls fail after they took effect,
\* and the ledger and the record change in separate steps.
HistoryIsTrue ==
  /\ SagaOrder
  /\ CompensatedIsCancelled
  /\ FailedIsUnpaid
  /\ CompletedIsDelivered

\* With finitely many crashes every settlement ends.
EventuallyEnds == <>(log # <<>> /\ state \in terminal)

\* "A delivery reservation may be cancelled only before payment finality.
\* Once payment is final, automatic reversal is prohibited" (ADR 0023).
NoCancelAfterFinality == ~lateCancel

\* "Failure before payment finality cancels the delivery reservation": a
\* settlement that failed or expired leaves no reservation behind.
FailureLeavesNoReservation ==
  recorded("FAILED") \/ recorded("EXPIRED") => delivery # "reserved"
=============================================================================
