-------------------------- MODULE EmergencyControls --------------------------
(***************************************************************************)
(* EmergencyControlService over PostgresEmergencyControlStore              *)
(* (packages/core/src/emergency-controls.ts), for one tenant: activate,    *)
(* lift and assertAllowed.  A control is stored in one step and audited in *)
(* a later one; lift lists the controls before it updates one; and an      *)
(* operation is submitted some time after its check.                       *)
(*                                                                         *)
(* The audit sink and the submission are external.  What validate refuses  *)
(* is left out: it never becomes a control.                                *)
(***************************************************************************)
EXTENDS Undefined, Naturals

CONSTANTS
  ControlIds,  \* ids of controls
  operators,   \* principals with the role EMERGENCY_OPERATOR
  admins,      \* principals with the role EMERGENCY_ADMIN
  Submitters,  \* processes that submit financial operations
  Values,      \* asset and network ids
  MaxFailures  \* bound of the number of calls that die

Staff == operators \cup admins
Fields == {"assetId", "sourceNetworkId", "destinationNetworkId"}
OperationAction == {"MINT", "RELEASE", "SETTLEMENT"}

\* What the selector of a control has to name (validate).
named(kind) ==
  CASE kind = "ASSET" -> {"assetId"}
    [] kind = "SOURCE_NETWORK" -> {"sourceNetworkId"}
    [] kind = "DESTINATION_NETWORK" -> {"destinationNetworkId"}
    [] kind = "BRIDGE_DIRECTION" -> {"sourceNetworkId", "destinationNetworkId"}
    [] OTHER -> {}

Kinds ==
  {"ASSET", "SOURCE_NETWORK", "DESTINATION_NETWORK", "BRIDGE_DIRECTION"}
    \cup OperationAction

Selector == [Fields -> Values \cup {None}]
selectors(kind) == {s \in Selector : \A f \in named(kind) : s[f] # None}

\* A row of emergency_controls.
Control ==
  [ kind : Kinds, selector : Selector, status : {"ACTIVE", "LIFTED"},
    activatedBy : Staff, liftedBy : Staff \cup {None} ]

ASSUME EmergencyConstants ==
  MaxFailures \in Nat /\ None \notin Values /\ None \notin Control

VARIABLES
  controls,    \* emergency_controls
  handling,    \* what a principal's call is doing, and where it stands
  trail,       \* external: the audit events
  submitting,  \* the operation that passed its check, by submitter
  failures     \* how many calls died

emergencyVars == <<controls, handling, trail, submitting, failures>>

EmergencyInit ==
  /\ controls = [i \in ControlIds |-> None]
  /\ handling = [p \in Staff |-> None]
  /\ trail = {}
  /\ submitting = [s \in Submitters |-> None]
  /\ failures = 0

active(i) == controls[i] # None /\ controls[i].status = "ACTIVE"

handle(p, doing, i) ==
  handling' = [handling EXCEPT ![p] = [doing |-> doing, id |-> i]]
-----------------------------------------------------------------------------
\* activate, by an operator; an id that is taken makes it throw.
Activate(p, i, kind, selector) ==
  /\ p \in operators
  /\ handling[p] = None
  /\ controls[i] = None
  /\ controls' = [controls EXCEPT ![i] =
       [kind |-> kind, selector |-> selector, status |-> "ACTIVE",
        activatedBy |-> p, liftedBy |-> None]]
  /\ handle(p, "ACTIVATED", i)
  /\ UNCHANGED <<trail, submitting, failures>>

\* lift, by an administrator, finds the control active.
ListForLift(p, i) ==
  /\ p \in admins
  /\ handling[p] = None
  /\ active(i)
  /\ handle(p, "lift", i)
  /\ UNCHANGED <<controls, trail, submitting, failures>>

\* Mutant: the status is not part of the update's condition.
updateAdmitsLifted(i) == TRUE

updateAdmits(i) == active(i)

\* The update, or CONFLICT when another lifted the control meanwhile.
UpdateControl(p) ==
  LET i == handling[p].id
  IN  /\ handling[p] # None /\ handling[p].doing = "lift"
      /\ \/ /\ updateAdmits(i)
            /\ controls' = [controls EXCEPT ![i].status = "LIFTED", ![i].liftedBy = p]
            /\ handle(p, "LIFTED", i)
         \/ /\ ~updateAdmits(i)
            /\ handling' = [handling EXCEPT ![p] = None]
            /\ UNCHANGED controls
      /\ UNCHANGED <<trail, submitting, failures>>

\* audit.record, with the action that was done.
RecordEvent(p) ==
  /\ handling[p] # None /\ handling[p].doing \in {"ACTIVATED", "LIFTED"}
  /\ trail' = trail \cup
       {[controlId |-> handling[p].id, actor |-> p, action |-> handling[p].doing]}
  /\ handling' = [handling EXCEPT ![p] = None]
  /\ UNCHANGED <<controls, submitting, failures>>

DieHandling(p) ==
  /\ handling[p] # None
  /\ failures < MaxFailures
  /\ failures' = failures + 1
  /\ handling' = [handling EXCEPT ![p] = None]
  /\ UNCHANGED <<controls, trail, submitting>>
-----------------------------------------------------------------------------
\* Mutant: a control stops the action it is named after, and no other.
matchesAction(c, o) ==
  /\ \A f \in Fields : c.selector[f] \in {None, o.at[f]}
  /\ c.kind = o.action

\* Everything that the selector names is the operation's.
matches(c, o) ==
  /\ \A f \in Fields : c.selector[f] \in {None, o.at[f]}
  /\ c.kind \in OperationAction => c.kind = o.action

\* assertAllowed finds no active control that matches.
AssertAllowed(s, o) ==
  /\ submitting[s] = None
  /\ \A i \in ControlIds : active(i) => ~matches(controls[i], o)
  /\ submitting' = [submitting EXCEPT ![s] = o]
  /\ UNCHANGED <<controls, handling, trail, failures>>

\* External: the operation is submitted.
SubmitOperation(s) ==
  /\ submitting[s] # None
  /\ submitting' = [submitting EXCEPT ![s] = None]
  /\ UNCHANGED <<controls, handling, trail, failures>>

EmergencyNext ==
  \/ \E p \in Staff, i \in ControlIds, k \in Kinds :
       \E selector \in selectors(k) : Activate(p, i, k, selector)
  \/ \E p \in Staff, i \in ControlIds : ListForLift(p, i)
  \/ \E p \in Staff : UpdateControl(p) \/ RecordEvent(p) \/ DieHandling(p)
  \/ \E s \in Submitters, a \in OperationAction, place \in Selector :
       AssertAllowed(s, [action |-> a, at |-> place])
  \/ \E s \in Submitters : SubmitOperation(s)

EmergencySpec == EmergencyInit /\ [][EmergencyNext]_emergencyVars
-----------------------------------------------------------------------------
\* "Both actions emit immutable audit events" (ADR 0038): the events of a
\* control name the principals the stored control names, so that of two
\* administrators who lift it at once one is recorded, the one who did.
TrailIsTrue ==
  \A e \in trail :
    /\ controls[e.controlId] # None
    /\ e.action = "ACTIVATED" => controls[e.controlId].activatedBy = e.actor
    /\ e.action = "LIFTED" => controls[e.controlId].liftedBy = e.actor

\* The operation has what the control's selector names, and its action.
covered(c, o) ==
  /\ \A f \in Fields : c.selector[f] # None => o.at[f] = c.selector[f]
  /\ c.kind \in {"MINT", "RELEASE", "SETTLEMENT"} => o.action = c.kind

\* A control is "checked before the corresponding financial action" (ADR
\* 0038): when it stays active, the operations that passed their check before
\* it are submitted and no further one on its asset, route or action follows.
PauseTakesHold ==
  \A i \in ControlIds :
    <>[]active(i) =>
      <>[](\A s \in Submitters :
             active(i) /\ submitting[s] # None
               => ~covered(controls[i], submitting[s]))
=============================================================================
