--------------------------- MODULE MCDurableClaims ---------------------------
(***************************************************************************)
(* The three services that claim an id in the database before they act:    *)
(* the idempotency store, same-network settlement and the workflow engine. *)
(* They do not interact, so that TLC explores the behaviours of each one   *)
(* while the others rest: component never changes.                         *)
(*                                                                         *)
(* Two processes and two contents that are sent under one id; for the      *)
(* workflow three validators of which one is faulty; three clients of one  *)
(* idempotency key.                                                        *)
(***************************************************************************)
EXTENDS SameNetworkSettlement, WorkflowEngine, Idempotency, TLC

CONSTANTS w1, w2, r1, r2, e1, e2, v1, v2, v3, x, y, c1, c2, c3, q1, q2, p1, p2

MCExpiresAt == r1 :> 1 @@ r2 :> 2

MCWorkflows ==
  { [enabled |-> TRUE, claimEquals |-> {x}, handler |-> TRUE],
    [enabled |-> TRUE, claimEquals |-> {y}, handler |-> FALSE],
    [enabled |-> FALSE, claimEquals |-> {x, y}, handler |-> TRUE] }

VARIABLE component

claimVars == <<component, vars, workflowVars, keyVars>>

ClaimsInit ==
  /\ component \in {"SETTLEMENT", "WORKFLOW", "KEY"}
  /\ Init /\ WorkflowInit /\ KeyInit

\* A step of one component; the others rest.
Settlement(step_) ==
  /\ component = "SETTLEMENT"
  /\ step_
  /\ UNCHANGED <<component, workflowVars, keyVars>>

Workflow(step_) ==
  /\ component = "WORKFLOW"
  /\ step_
  /\ UNCHANGED <<component, vars, keyVars>>

Key(step_) ==
  /\ component = "KEY"
  /\ step_
  /\ UNCHANGED <<component, vars, workflowVars>>

ClaimsNext == Settlement(Next) \/ Workflow(WorkflowNext) \/ Key(KeyNext)

\* Settlements and workflows are executed again until they end, and a
\* process that is not killed goes on.
FairClaims ==
  /\ ClaimsInit /\ [][ClaimsNext]_claimVars
  /\ \A w \in Workers : WF_claimVars(Settlement(Execute(w)))
  /\ \A e \in Engines : WF_claimVars(Workflow(ExecuteWorkflow(e)))

\* With finitely many crashes every claimed settlement and every claimed
\* execution of a workflow ends: a process that dies between the claim and
\* the effect, or between the effect and its record, leaves nothing open.
EveryClaimEnds ==
  /\ component = "SETTLEMENT" => <>ended
  /\ component = "WORKFLOW" => <>executed
=============================================================================
