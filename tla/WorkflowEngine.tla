--------------------------- MODULE WorkflowEngine ---------------------------
(***************************************************************************)
(* WorkflowEngine.execute over PostgresWorkflowExecutionStore (packages/   *)
(* core/src/workflow-engine.ts), composed with what the attestation        *)
(* service promises (AttestedSource): from an event of the source network  *)
(* to an action on the destination network.                                *)
(*                                                                         *)
(* Anybody may call execute with one execution id and any attestation: its *)
(* list holds signatures of faulty validators, genuine ones of honest      *)
(* validators and ones that do not verify, each under any validator id,    *)
(* for the id is not among the signed bytes.  A claim that is IN_PROGRESS  *)
(* is not exclusive: processes resume it side by side.                     *)
(***************************************************************************)
EXTENDS AttestedSource

CONSTANTS
  Engines,         \* processes that execute the workflow
  Workflows,       \* the registered versions, which are immutable
  Labels,          \* the validator ids that lists of signatures name
  MaxSignatures,   \* bound of the length of such a list
  MaxDeaths        \* bound of the number of crashes and malformed results

\* enabled; claimEquals, by the claims that satisfy it; handler: one is
\* configured for the action type.
WorkflowDefinition ==
  [enabled : BOOLEAN, claimEquals : SUBSET Claims, handler : BOOLEAN]

ActionOutcome == {"APPLIED", "ALREADY_APPLIED", "REJECTED", "UNCERTAIN"}
ExecutionStatus == {"IN_PROGRESS", "COMPLETED", "REJECTED", "MANUAL_REVIEW"}

\* What the request hash of execute covers: the workflow version and the
\* digest of the attestation, that is, its claims.
Inputs == [workflow : Workflows, claims : Claims]

\* ValidatorSignature: the id it is listed under, and whose key verifies it
\* over the statement at hand (None: it does not verify).
Signature == [validatorId : Labels, signer : validatorIds \cup {None}]

ASSUME WorkflowConstants ==
  /\ Workflows \subseteq WorkflowDefinition
  /\ MaxDeaths \in Nat /\ MaxSignatures \in Nat
  /\ None \notin validatorIds
  /\ None \notin Inputs \cup [input : Inputs, status : ExecutionStatus]

VARIABLES
  execution,  \* the row of workflow_executions: input and status
  expired,    \* the attestation has expired
  step,       \* where each process's execute() stands
  input,      \* the input it was called with
  proven,     \* its attestation verifies
  disguised,  \* history: its signatures are disguised (see below)
  reported,   \* what it is about to record
  applied,    \* external: the claims that the action was applied for, and
              \* whether on disguised signatures
  deaths,     \* how often a process died
  told        \* history: the statuses callers were answered with

call == <<step, input, proven, disguised, reported>>
workflowVars == <<sourceVars, execution, expired, call, applied, deaths, told>>

WorkflowInit ==
  /\ SourceInit
  /\ execution = None
  /\ expired = FALSE
  /\ step = [e \in Engines |-> "idle"]
  /\ input = [e \in Engines |-> None]
  /\ proven = [e \in Engines |-> FALSE]
  /\ disguised = [e \in Engines |-> FALSE]
  /\ reported = [e \in Engines |-> "NONE"]
  /\ applied = {}
  /\ deaths = 0
  /\ told = {}

Leave(e) ==
  /\ step' = [step EXCEPT ![e] = "idle"]
  /\ input' = [input EXCEPT ![e] = None]
  /\ proven' = [proven EXCEPT ![e] = FALSE]
  /\ disguised' = [disguised EXCEPT ![e] = FALSE]
  /\ reported' = [reported EXCEPT ![e] = "NONE"]

\* The process goes on to step s, with outcome r if it has one by now.
Continue(e, s, r) ==
  /\ step' = [step EXCEPT ![e] = s]
  /\ reported' = [reported EXCEPT ![e] = r]
  /\ UNCHANGED <<input, proven, disguised>>
-----------------------------------------------------------------------------
\* External: what can be listed for claims c.  Honest validators sign what
\* they attest, faulty ones anything, and the labels are free.
presentable(c, signatures) ==
  \A i \in DOMAIN signatures :
    \/ signatures[i].signer \in Faulty \cup {None}
    \/ <<signatures[i].signer, c>> \in signed

\* The entries that verifyGenericAttestation counts: seen skips an id that
\* was listed before, whether that entry was valid or not; validity is a
\* matter of the key alone.
counted(signatures) ==
  { i \in DOMAIN signatures :
      /\ \A j \in 1..(i - 1) :
           signatures[j].validatorId # signatures[i].validatorId
      /\ signatures[i].signer # None }

\* Mutant: the ids are not compared, every valid entry counts.
verifiesEach(signatures) ==
  Cardinality({i \in DOMAIN signatures : signatures[i].signer # None})
    >= Threshold

\* verifyGenericAttestation, apart from the expiry.
verifies(signatures) == Cardinality(counted(signatures)) >= Threshold

\* Only signatures of faulty validators count, and one of them is listed
\* under an id that is not its signer's.
disguise(signatures) ==
  /\ \A i \in counted(signatures) : signatures[i].signer \in Faulty
  /\ \E i \in counted(signatures) :
       signatures[i].validatorId # signatures[i].signer

\* store.claim: the row is inserted once; the same input resumes it while it
\* is IN_PROGRESS, and other input is a CONFLICT.
ClaimExecution(e, i) ==
  /\ step[e] = "idle"
  /\ execution \in {None, [input |-> i, status |-> "IN_PROGRESS"]}
  /\ execution' = [input |-> i, status |-> "IN_PROGRESS"]
  /\ step' = [step EXCEPT ![e] = "verify"]
  /\ input' = [input EXCEPT ![e] = i]
  /\ \E n \in 0..MaxSignatures : \E signatures \in [1..n -> Signature] :
       /\ presentable(i.claims, signatures)
       /\ proven' = [proven EXCEPT ![e] = verifies(signatures)]
       /\ disguised' = [disguised EXCEPT ![e] = disguise(signatures)]
  /\ UNCHANGED <<sourceVars, expired, reported, applied, deaths, told>>

executed == execution # None /\ execution.status # "IN_PROGRESS"

\* A claim of an execution that has ended is answered with its record.
ReplayExecution(e) ==
  /\ step[e] = "idle"
  /\ executed
  /\ told' = told \cup {execution.status}
  /\ UNCHANGED <<sourceVars, execution, expired, call, applied, deaths>>

\* The workflow is enabled, the claims match, and the attestation verifies
\* and has not expired.
admits(e) ==
  /\ input[e].workflow.enabled
  /\ input[e].claims \in input[e].workflow.claimEquals
  /\ proven[e] /\ ~expired

\* The checks up to the awaited verification.
Verify(e) ==
  /\ step[e] = "verify"
  /\ IF admits(e) THEN Continue(e, "authorize", "NONE")
                  ELSE Continue(e, "finish", "REJECTED")
  /\ UNCHANGED <<sourceVars, execution, expired, applied, deaths, told>>

\* policy.authorize (external): only an ALLOW of the exact policy version
\* reaches the handler, if there is one.
Authorize(e) ==
  /\ step[e] = "authorize"
  /\ \/ input[e].workflow.handler /\ Continue(e, "act", "NONE")
     \/ Continue(e, "finish", "REJECTED")
  /\ UNCHANGED <<sourceVars, execution, expired, applied, deaths, told>>

\* External: the handler deduplicates by execution id, and rejects only what
\* it did not apply.  An exception is UNCERTAIN.
mayReport(outcome, before, after) ==
  CASE outcome = "APPLIED" -> before = {} /\ after # {}
    [] outcome = "ALREADY_APPLIED" -> before # {} /\ after = before
    [] outcome = "REJECTED" -> before = {} /\ after = {}
    [] outcome = "UNCERTAIN" -> TRUE

\* handler.execute.
Act(e) ==
  /\ step[e] = "act"
  /\ \/ UNCHANGED applied
     \/ /\ applied = {}
        /\ applied' = {[claims |-> input[e].claims, disguised |-> disguised[e]]}
  /\ \E outcome \in ActionOutcome :
       /\ mayReport(outcome, applied, applied')
       /\ Continue(e, "finish", outcome)
  /\ UNCHANGED <<sourceVars, execution, expired, deaths, told>>

executionStatusOf(outcome) ==
  CASE outcome \in {"APPLIED", "ALREADY_APPLIED"} -> "COMPLETED"
    [] outcome = "REJECTED" -> "REJECTED"
    [] outcome = "UNCERTAIN" -> "MANUAL_REVIEW"

\* Mutant: finish does not look whether the execution has ended.
finishedAnew(e) == [execution EXCEPT !.status = executionStatusOf(reported[e])]

\* The row after finish: an execution that has ended stays as it is.
finished(e) ==
  IF executed THEN execution
              ELSE [execution EXCEPT !.status = executionStatusOf(reported[e])]

\* store.finish, with the row locked.  The answer may be lost.
FinishExecution(e) ==
  /\ step[e] = "finish"
  /\ execution' = finished(e)
  /\ told' \in {told, told \cup {execution'.status}}
  /\ Leave(e)
  /\ UNCHANGED <<sourceVars, expired, applied, deaths>>

\* The process dies, or validateActionResult refuses what the handler said.
Die(e) ==
  /\ step[e] # "idle"
  /\ deaths < MaxDeaths
  /\ deaths' = deaths + 1
  /\ Leave(e)
  /\ UNCHANGED <<sourceVars, execution, expired, applied, told>>

\* External: the source network and its validators, and the clock.
SourceSteps ==
  /\ \/ SourceNext /\ UNCHANGED expired
     \/ expired' = TRUE /\ UNCHANGED sourceVars
  /\ UNCHANGED <<execution, call, applied, deaths, told>>

ExecuteWorkflow(e) ==
  \/ \E i \in Inputs : ClaimExecution(e, i)
  \/ ReplayExecution(e) \/ Verify(e) \/ Authorize(e) \/ Act(e) \/ FinishExecution(e)

WorkflowNext ==
  SourceSteps \/ \E e \in Engines : ExecuteWorkflow(e) \/ Die(e)

WorkflowSpec == WorkflowInit /\ [][WorkflowNext]_workflowVars
-----------------------------------------------------------------------------
\* Types; a process has an outcome exactly while it is about to record it,
\* and works on the input that the execution was claimed with.
WorkflowTypeOK ==
  /\ settled \in Claims \cup {None}
  /\ signed \subseteq (validatorIds \ Faulty) \X Claims
  /\ execution \in [input : Inputs, status : ExecutionStatus] \cup {None}
  /\ expired \in BOOLEAN
  /\ step \in [Engines -> {"idle", "verify", "authorize", "act", "finish"}]
  /\ input \in [Engines -> Inputs \cup {None}]
  /\ proven \in [Engines -> BOOLEAN]
  /\ disguised \in [Engines -> BOOLEAN]
  /\ reported \in [Engines -> ActionOutcome \cup {"NONE"}]
  /\ applied \subseteq [claims : Claims, disguised : BOOLEAN]
  /\ deaths \in 0..MaxDeaths
  /\ told \subseteq ExecutionStatus
  /\ \A e \in Engines :
       /\ step[e] = "finish" <=> reported[e] # "NONE"
       /\ step[e] = "idle" <=> input[e] = None
       /\ step[e] # "idle" => execution # None /\ execution.input = input[e]

\* "Phase 23 evidence has no ambient mutation authority.  Only a separately
\* registered, enabled workflow ... can cause an action" (ADR 0025): the
\* action is applied only for claims that an enabled workflow asks for and
\* that the execution was claimed with; and, when an honest validator's
\* signature counted or every id in the list is its signer's, as in the lists
\* that the attestation service issues, only for claims that the source
\* network has settled on, however often an entry is repeated.
AppliedIsFinal ==
  \A a \in applied :
    /\ a.disguised \/ settled = a.claims
    /\ execution.input.claims = a.claims
    /\ execution.input.workflow.enabled
    /\ a.claims \in execution.input.workflow.claimEquals

\* The same for every list.  It fails: the id that keeps an entry from being
\* counted twice is not bound to the key that verifies it.
AppliedIsSettled == \A a \in applied : settled = a.claims

\* "Ambiguous effects require manual review" (ADR 0025): processes that
\* resumed one claim may come back with different results, and yet all
\* callers are told the same, and COMPLETED only of an action that was
\* applied.
ToldTheSame ==
  /\ \A a, b \in told : a = b
  /\ "COMPLETED" \in told => applied # {}
=============================================================================
