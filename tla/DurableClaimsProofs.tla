------------------------- MODULE DurableClaimsProofs -------------------------
(***************************************************************************)
(* The services that claim an id before they act, for any number of        *)
(* processes, contents and crashes: same-network settlement, the workflow  *)
(* engine and the idempotency store; and the supply ledger, whose writers  *)
(* claim an asset.                                                         *)
(*                                                                         *)
(* A claim names one content for good, so that whoever works under the id  *)
(* works on that content; and what is recorded ends once.                  *)
(***************************************************************************)
EXTENDS SameNetworkSettlement, WorkflowEngine, Idempotency, SupplyLedger,
        FiniteSetTheorems, TLAPS

-----------------------------------------------------------------------------
\* Same-network settlement.  Whoever is at work has the claimed content.
WorkIsClaimed == \A w \in Workers : pc[w] # "idle" => mine[w] = record.request

\* A worker that reports a commit has seen one.
ReportIsTrue ==
  \A w \in Workers :
    result[w] \in {"COMMITTED", "ALREADY_COMMITTED"} => committed # {}

\* Callers have been told how the settlement ended.
ToldHowItEnded == \A a \in returned : ended /\ a = record.status

SettlementInv ==
  /\ TypeOK
  /\ WorkIsClaimed
  /\ ReportIsTrue
  /\ CommittedAsClaimed
  /\ ToldHowItEnded

\* A worker that stops leaves the others as they are.
LEMMA SettlementStop ==
  ASSUME SettlementInv, NEW w \in Workers, Stop(w),
         UNCHANGED <<record, committed, now, returned>>, crashes' \in 0..MaxCrashes
  PROVE  SettlementInv'
<1> USE SettlementConstants
<1>1. TypeOK'
  BY DEF SettlementInv, TypeOK, Stop
<1>2. WorkIsClaimed' /\ ReportIsTrue'
  BY DEF SettlementInv, TypeOK, Stop, WorkIsClaimed, ReportIsTrue
<1>3. CommittedAsClaimed' /\ ToldHowItEnded'
  BY DEF SettlementInv, CommittedAsClaimed, ToldHowItEnded, ended
<1> QED
  BY <1>1, <1>2, <1>3 DEF SettlementInv

\* store.claim.
LEMMA SettlementClaim ==
  ASSUME SettlementInv, NEW w \in Workers, NEW r \in Requests, Claim(w, r)
  PROVE  SettlementInv'
<1> USE SettlementConstants
<1>1. /\ pc[w] = "idle" /\ pc' = [pc EXCEPT ![w] = "claimed"]
      /\ mine' = [mine EXCEPT ![w] = r]
      /\ UNCHANGED <<committed, now, crashes, result, returned>>
  BY DEF Claim
<1>2. CASE record = Unclaimed /\ record' = [request |-> r, status |-> "IN_PROGRESS",
                                            outcome |-> "NONE"]
  <2>1. TypeOK'
    BY <1>1, <1>2 DEF SettlementInv, TypeOK, Status, Outcome
  <2>2. \A v \in Workers : pc[v] = "idle"
    BY <1>2 DEF SettlementInv, WorkIsClaimed, TypeOK, Unclaimed
  <2>3. WorkIsClaimed'
    BY <1>1, <1>2, <2>2 DEF SettlementInv, TypeOK, WorkIsClaimed
  <2>4. committed = {} /\ returned = {}
    BY <1>2 DEF SettlementInv, TypeOK, CommittedAsClaimed, ToldHowItEnded, ended,
                Unclaimed, Status
  <2>5. ReportIsTrue' /\ CommittedAsClaimed' /\ ToldHowItEnded'
    BY <1>1, <1>2, <2>4
       DEF SettlementInv, ReportIsTrue, CommittedAsClaimed, ToldHowItEnded
  <2> QED
    BY <2>1, <2>3, <2>5 DEF SettlementInv
<1>3. CASE record.request = r /\ UNCHANGED record
  <2>1. TypeOK'
    BY <1>1, <1>3 DEF SettlementInv, TypeOK
  <2>2. WorkIsClaimed'
    BY <1>1, <1>3 DEF SettlementInv, TypeOK, WorkIsClaimed
  <2>3. ReportIsTrue' /\ CommittedAsClaimed' /\ ToldHowItEnded'
    BY <1>1, <1>3
       DEF SettlementInv, ReportIsTrue, CommittedAsClaimed, ToldHowItEnded, ended
  <2> QED
    BY <2>1, <2>2, <2>3 DEF SettlementInv
<1> QED
  BY <1>2, <1>3 DEF Claim, claimAdmits

\* A replay, and the test of the clock.
LEMMA SettlementCheck ==
  ASSUME SettlementInv, NEW w \in Workers,
         (\E r \in Requests : Replay(w, r)) \/ CheckExpiry(w)
  PROVE  SettlementInv'
<1> USE SettlementConstants
<1>1. CASE \E r \in Requests : Replay(w, r)
  <2>1. /\ ended /\ returned' = returned \cup {record.status}
        /\ UNCHANGED <<record, committed, now, crashes, worker>>
    BY <1>1 DEF Replay
  <2>2. TypeOK'
    BY <2>1 DEF SettlementInv, TypeOK, ended, worker
  <2>3. ToldHowItEnded' /\ WorkIsClaimed' /\ ReportIsTrue' /\ CommittedAsClaimed'
    BY <2>1 DEF SettlementInv, ToldHowItEnded, WorkIsClaimed, ReportIsTrue,
                CommittedAsClaimed, ended, worker
  <2> QED
    BY <2>2, <2>3 DEF SettlementInv
<1>2. CASE CheckExpiry(w)
  <2>1. /\ pc[w] = "claimed" /\ UNCHANGED <<record, committed, now, crashes, mine,
                                           returned>>
        /\ \/ /\ result' = [result EXCEPT ![w] = "REJECTED"]
              /\ pc' = [pc EXCEPT ![w] = "finish"]
           \/ pc' = [pc EXCEPT ![w] = "call"] /\ UNCHANGED result
    BY <1>2 DEF CheckExpiry
  <2>2. TypeOK'
    BY <2>1 DEF SettlementInv, TypeOK, Outcome
  <2>3. WorkIsClaimed' /\ ReportIsTrue'
    BY <2>1 DEF SettlementInv, TypeOK, WorkIsClaimed, ReportIsTrue
  <2>4. ToldHowItEnded' /\ CommittedAsClaimed'
    BY <2>1 DEF SettlementInv, ToldHowItEnded, CommittedAsClaimed, ended
  <2> QED
    BY <2>2, <2>3, <2>4 DEF SettlementInv
<1> QED
  BY <1>1, <1>2

\* The native call: only the claimed content can be committed.
LEMMA SettlementCommit ==
  ASSUME SettlementInv, NEW w \in Workers, ExecuteAtomically(w)
  PROVE  SettlementInv'
<1>1. /\ pc[w] = "call" /\ mine[w] = record.request /\ mine[w] \in Requests
      /\ pc' = [pc EXCEPT ![w] = "finish"]
      /\ committed' \in {committed, IF committed = {} THEN {mine[w]} ELSE committed}
      /\ UNCHANGED <<record, now, crashes, mine, returned>>
  BY DEF ExecuteAtomically, SettlementInv, WorkIsClaimed, TypeOK
<1>2. PICK outcome \in Outcome :
        /\ mayAnswer(outcome, committed, committed')
        /\ result' = [result EXCEPT ![w] = outcome]
  BY DEF ExecuteAtomically
<1>3. /\ committed' \subseteq {record.request} /\ committed' \subseteq Requests
      /\ committed # {} => committed' # {}
  BY <1>1 DEF SettlementInv, TypeOK, CommittedAsClaimed
<1>4. outcome \in {"COMMITTED", "ALREADY_COMMITTED"} => committed' # {}
  BY <1>2 DEF mayAnswer
<1>5. TypeOK'
  BY <1>1, <1>2, <1>3 DEF SettlementInv, TypeOK, Outcome
<1>6. WorkIsClaimed'
  BY <1>1 DEF SettlementInv, TypeOK, WorkIsClaimed
<1>7. ReportIsTrue'
  BY <1>2, <1>3, <1>4 DEF SettlementInv, TypeOK, ReportIsTrue
<1>8. CommittedAsClaimed' /\ ToldHowItEnded'
  BY <1>1, <1>3 DEF SettlementInv, CommittedAsClaimed, ToldHowItEnded, ended
<1> QED
  BY <1>5, <1>6, <1>7, <1>8 DEF SettlementInv

\* store.finish: the first end is final.
LEMMA SettlementFinish ==
  ASSUME SettlementInv, NEW w \in Workers, Finish(w)
  PROVE  SettlementInv'
<1>1. /\ pc[w] = "finish" /\ record.request = mine[w] /\ mine[w] \in Requests
      /\ result[w] \in Outcome /\ record.status \in Status
      /\ Stop(w) /\ UNCHANGED <<committed, now, crashes>>
  BY DEF Finish, SettlementInv, WorkIsClaimed, TypeOK
<1>2. /\ record' = IF ended THEN record
                            ELSE [record EXCEPT !.status = statusOf(result[w]),
                                                !.outcome = result[w]]
      /\ returned' \in {returned, returned \cup {record'.status}}
  BY <1>1 DEF Finish
<1>3. statusOf(result[w]) \in Status \ {"IN_PROGRESS"}
  BY DEF statusOf, Status
<1>4. /\ record' \in [request : Requests \cup {None}, status : Status \cup {"NONE"},
                      outcome : Outcome \cup {"NONE"}]
      /\ record'.request = record.request
      /\ record'.status \in Status \ {"IN_PROGRESS"}
      /\ ended => record' = record
  BY <1>1, <1>2, <1>3 DEF SettlementInv, TypeOK, ended
<1>5. record'.status = "COMPLETED" => committed # {}
  <2>1. CASE ended
    BY <1>4, <2>1 DEF SettlementInv, CommittedAsClaimed
  <2>2. CASE ~ended
    <3>1. record'.status = statusOf(result[w])
      BY <1>2, <2>2 DEF SettlementInv, TypeOK
    <3>2. statusOf(result[w]) = "COMPLETED" =>
            result[w] \in {"COMMITTED", "ALREADY_COMMITTED"}
      BY DEF statusOf
    <3> QED
      BY <3>1, <3>2 DEF SettlementInv, ReportIsTrue
  <2> QED
    BY <2>1, <2>2
<1>6. TypeOK'
  <2>1. returned' \subseteq Status
    BY <1>2, <1>4 DEF SettlementInv, TypeOK
  <2>2. record'.request = None <=> record'.status = "NONE"
    BY <1>1, <1>4, SettlementConstants DEF Status
  <2> QED
    BY <1>1, <1>4, <2>1, <2>2, SettlementConstants DEF SettlementInv, TypeOK, Stop
<1>7. WorkIsClaimed' /\ ReportIsTrue'
  BY <1>1, <1>4 DEF SettlementInv, TypeOK, Stop, WorkIsClaimed, ReportIsTrue
<1>8. CommittedAsClaimed'
  BY <1>1, <1>4, <1>5 DEF SettlementInv, CommittedAsClaimed
<1>9. ToldHowItEnded'
  BY <1>2, <1>4 DEF SettlementInv, ToldHowItEnded, ended
<1> QED
  BY <1>6, <1>7, <1>8, <1>9 DEF SettlementInv

LEMMA SettlementInvariance == Spec => []SettlementInv
<1> USE SettlementConstants
<1>1. Init => SettlementInv
  BY DEF Init, SettlementInv, TypeOK, WorkIsClaimed, ReportIsTrue,
         CommittedAsClaimed, ToldHowItEnded, Unclaimed
<1>2. SettlementInv /\ [Next]_vars => SettlementInv'
  <2> SUFFICES ASSUME SettlementInv, [Next]_vars PROVE SettlementInv'
    OBVIOUS
  <2>1. ASSUME NEW w \in Workers, Execute(w) PROVE SettlementInv'
    BY <2>1, SettlementClaim, SettlementCheck, SettlementCommit, SettlementFinish
       DEF Execute
  <2>2. ASSUME NEW w \in Workers, Crash(w) PROVE SettlementInv'
    <3>1. crashes' \in 0..MaxCrashes
      BY <2>2 DEF Crash, SettlementInv, TypeOK
    <3> QED
      BY <2>2, <3>1, SettlementStop DEF Crash
  <2>3. CASE Tick \/ UNCHANGED vars
    BY <2>3 DEF Tick, vars, worker, SettlementInv, TypeOK, WorkIsClaimed,
                ReportIsTrue, CommittedAsClaimed, ToldHowItEnded, ended
  <2> QED
    BY <2>1, <2>2, <2>3 DEF Next
<1> QED
  BY <1>1, <1>2, PTL DEF Spec

\* What the ledger executes is the content that was claimed first, and
\* COMPLETED is recorded only for what it executed.
THEOREM ClaimCorrect == Spec => []CommittedAsClaimed
<1>1. SettlementInv => CommittedAsClaimed
  BY DEF SettlementInv
<1> QED
  BY <1>1, SettlementInvariance, PTL

\* All callers of a settlement are told the same.
THEOREM AnswerCorrect == Spec => []OneAnswer
<1>1. SettlementInv => OneAnswer
  BY DEF SettlementInv, ToldHowItEnded, OneAnswer
<1> QED
  BY <1>1, SettlementInvariance, PTL
-----------------------------------------------------------------------------
\* The workflow engine.  Honest validators have signed only what the source
\* network has settled on.
SignedIsSettled == \A s \in signed : s[2] = settled

\* So a proven attestation whose signatures are not disguised is about what
\* is settled.
ProofIsSettled ==
  \A e \in Engines :
    proven[e] => /\ step[e] # "idle"
                 /\ disguised[e] \/ settled = input[e].claims

\* Only an admitted input comes as far as the handler.
WorkIsAdmitted ==
  \A e \in Engines : step[e] \in {"authorize", "act"} =>
    /\ proven[e]
    /\ input[e].workflow.enabled
    /\ input[e].claims \in input[e].workflow.claimEquals

\* What is applied was claimed, and an outcome that says so is true.
AppliedIsClaimed ==
  /\ execution = None => applied = {}
  /\ \A e \in Engines :
       reported[e] \in {"APPLIED", "ALREADY_APPLIED"} => applied # {}
  /\ executed /\ execution.status = "COMPLETED" => applied # {}

ToldAsRecorded == \A a \in told : executed /\ a = execution.status

WorkflowInv ==
  /\ WorkflowTypeOK
  /\ SignedIsSettled
  /\ ProofIsSettled
  /\ WorkIsAdmitted
  /\ AppliedIsFinal
  /\ AppliedIsClaimed
  /\ ToldAsRecorded

\* The entries that count have different ids.  When they are all signed by
\* faulty validators under their own ids there are fewer than the threshold;
\* so, without a disguise, one of the signers is honest.
LEMMA OneSignerIsHonest ==
  ASSUME NEW n \in Nat, NEW signatures \in [1..n -> Signature],
         verifies(signatures), ~disguise(signatures)
  PROVE  \E i \in DOMAIN signatures : signatures[i].signer \in validatorIds \ Faulty
<1> DEFINE entries == counted(signatures)
           signerOf == [i \in entries |-> signatures[i].signer]
<1>1. IsFiniteSet(Faulty) /\ Cardinality(Faulty) \in Nat
  BY SourceConstants, FS_Subset, FS_CardinalityType
<1>2. /\ entries \subseteq 1..n /\ entries \subseteq DOMAIN signatures
      /\ \A i \in entries : signatures[i].signer \in validatorIds
  BY DEF counted, Signature
<1>3. SUFFICES ASSUME \A i \in entries : signatures[i].signer \in Faulty
               PROVE  FALSE
  BY <1>2
<1>4. \A i \in entries : signatures[i].validatorId = signatures[i].signer
  BY <1>3 DEF disguise
<1>5. \A i, j \in entries :
        signatures[i].validatorId = signatures[j].validatorId => i = j
  <2> SUFFICES ASSUME NEW i \in entries, NEW j \in entries, i < j
               PROVE  signatures[i].validatorId # signatures[j].validatorId
    BY <1>2
  <2>1. i \in 1..(j - 1)
    BY <1>2
  <2> QED
    BY <2>1 DEF counted
<1>6. signerOf \in Injection(entries, Faulty)
  BY <1>3, <1>4, <1>5 DEF Injection, IsInjective
<1>7. IsFiniteSet(entries) /\ Cardinality(entries) =< Cardinality(Faulty)
  BY <1>1, <1>6, FS_Injection
<1>8. Cardinality(entries) \in Nat /\ Cardinality(entries) >= Threshold
  BY <1>7, FS_CardinalityType DEF verifies
<1> QED
  BY <1>1, <1>7, <1>8, SourceConstants

\* store.claim.
LEMMA WorkflowClaim ==
  ASSUME WorkflowInv, NEW e \in Engines, NEW i \in Inputs, ClaimExecution(e, i)
  PROVE  WorkflowInv'
<1> USE WorkflowConstants
<1>0. PICK n \in 0..MaxSignatures : \E signatures \in [1..n -> Signature] :
        /\ presentable(i.claims, signatures)
        /\ proven' = [proven EXCEPT ![e] = verifies(signatures)]
        /\ disguised' = [disguised EXCEPT ![e] = disguise(signatures)]
  BY DEF ClaimExecution
<1> PICK signatures \in [1..n -> Signature] :
        /\ presentable(i.claims, signatures)
        /\ proven' = [proven EXCEPT ![e] = verifies(signatures)]
        /\ disguised' = [disguised EXCEPT ![e] = disguise(signatures)]
  BY <1>0
<1>1. /\ step[e] = "idle" /\ step' = [step EXCEPT ![e] = "verify"]
      /\ input' = [input EXCEPT ![e] = i]
      /\ proven' = [proven EXCEPT ![e] = verifies(signatures)]
      /\ disguised' = [disguised EXCEPT ![e] = disguise(signatures)]
      /\ execution \in {None, [input |-> i, status |-> "IN_PROGRESS"]}
      /\ execution' = [input |-> i, status |-> "IN_PROGRESS"]
      /\ UNCHANGED <<settled, signed, expired, reported, applied, deaths, told>>
  BY DEF ClaimExecution, sourceVars
<1>2. verifies(signatures) \in BOOLEAN /\ disguise(signatures) \in BOOLEAN
  BY DEF verifies, disguise
<1>3. execution' \in [input : Inputs, status : ExecutionStatus] /\ execution' # None
  BY <1>1 DEF ExecutionStatus
<1>4. \A f \in Engines : step[f] # "idle" => input[f] = i
  BY <1>1, <1>3 DEF WorkflowInv, WorkflowTypeOK
<1>5. WorkflowTypeOK'
  BY <1>1, <1>2, <1>3, <1>4 DEF WorkflowInv, WorkflowTypeOK
<1>6. SignedIsSettled'
  BY <1>1 DEF WorkflowInv, SignedIsSettled
<1>7. verifies(signatures) => disguise(signatures) \/ settled = i.claims
  <2>1. SUFFICES ASSUME verifies(signatures), ~disguise(signatures)
                 PROVE  settled = i.claims
    OBVIOUS
  <2>2. n \in Nat
    OBVIOUS
  <2>3. PICK k \in DOMAIN signatures : signatures[k].signer \in validatorIds \ Faulty
    BY <2>1, <2>2, OneSignerIsHonest
  <2>4. <<signatures[k].signer, i.claims>> \in signed
    BY <2>3 DEF presentable
  <2> QED
    BY <2>4 DEF WorkflowInv, SignedIsSettled
<1>8. ProofIsSettled'
  BY <1>1, <1>7 DEF WorkflowInv, WorkflowTypeOK, ProofIsSettled
<1>9. WorkIsAdmitted'
  BY <1>1 DEF WorkflowInv, WorkflowTypeOK, WorkIsAdmitted
<1>10. AppliedIsFinal'
  BY <1>1 DEF WorkflowInv, AppliedIsFinal, AppliedIsClaimed
<1>11. AppliedIsClaimed' /\ ToldAsRecorded'
  BY <1>1, <1>3 DEF WorkflowInv, AppliedIsClaimed, ToldAsRecorded, executed
<1> QED
  BY <1>5, <1>6, <1>8, <1>9, <1>10, <1>11 DEF WorkflowInv

\* The process goes on: to the handler only with an admitted input.
LEMMA WorkflowContinue ==
  ASSUME WorkflowInv, NEW e \in Engines, step[e] # "idle",
         NEW s \in {"authorize", "act", "finish"},
         NEW r \in ActionOutcome \cup {"NONE"}, Continue(e, s, r),
         s = "finish" <=> r # "NONE",
         s # "finish" => /\ proven[e]
                         /\ input[e].workflow.enabled
                         /\ input[e].claims \in input[e].workflow.claimEquals
  PROVE  /\ step' \in [Engines -> {"idle", "verify", "authorize", "act", "finish"}]
         /\ input' \in [Engines -> Inputs \cup {None}]
         /\ proven' \in [Engines -> BOOLEAN]
         /\ disguised' \in [Engines -> BOOLEAN]
         /\ reported' \in [Engines -> ActionOutcome \cup {"NONE"}]
         /\ \A f \in Engines :
              /\ step'[f] = "finish" <=> reported'[f] # "NONE"
              /\ step'[f] = "idle" <=> input'[f] = None
              /\ step'[f] # "idle" => execution # None /\ execution.input = input'[f]
         /\ \A f \in Engines : step[f] # "idle" => step'[f] # "idle"
         /\ UNCHANGED <<input, proven, disguised>>
         /\ WorkIsAdmitted'
<1>1. /\ step' = [step EXCEPT ![e] = s]
      /\ reported' = [reported EXCEPT ![e] = r]
      /\ UNCHANGED <<input, proven, disguised>>
  BY DEF Continue
<1>2. WorkIsAdmitted'
  BY <1>1 DEF WorkflowInv, WorkflowTypeOK, WorkIsAdmitted
<1> QED
  BY <1>1, <1>2 DEF WorkflowInv, WorkflowTypeOK

\* The checks, and the policy.
LEMMA WorkflowCheck ==
  ASSUME WorkflowInv, NEW e \in Engines, Verify(e) \/ Authorize(e)
  PROVE  WorkflowInv'
<1>1. /\ step[e] # "idle"
      /\ UNCHANGED <<settled, signed, execution, expired, applied, deaths, told>>
  BY DEF Verify, Authorize, sourceVars
<1>2. PICK s \in {"authorize", "act", "finish"}, r \in {"NONE", "REJECTED"} :
        /\ Continue(e, s, r)
        /\ s = "finish" <=> r # "NONE"
        /\ s # "finish" => /\ proven[e]
                           /\ input[e].workflow.enabled
                           /\ input[e].claims \in input[e].workflow.claimEquals
  <2>1. CASE Verify(e)
    BY <2>1 DEF Verify, admits
  <2>2. CASE Authorize(e)
    BY <2>2 DEF Authorize, WorkflowInv, WorkIsAdmitted
  <2> QED
    BY <2>1, <2>2
<1>3. r \in ActionOutcome \cup {"NONE"}
  BY DEF ActionOutcome
<1>4. /\ WorkflowTypeOK' /\ WorkIsAdmitted' /\ UNCHANGED <<input, proven, disguised>>
      /\ \A f \in Engines : step[f] # "idle" => step'[f] # "idle"
  BY <1>1, <1>2, <1>3, WorkflowContinue DEF WorkflowInv, WorkflowTypeOK
<1>5. reported' = [reported EXCEPT ![e] = r]
  BY <1>2 DEF Continue
<1>6. AppliedIsClaimed'
  BY <1>1, <1>2, <1>5 DEF WorkflowInv, WorkflowTypeOK, AppliedIsClaimed, executed
<1> QED
  BY <1>1, <1>4, <1>6 DEF WorkflowInv, SignedIsSettled, ProofIsSettled,
                          AppliedIsFinal, ToldAsRecorded, executed

\* handler.execute: applied for the claimed input, which is admitted.
LEMMA WorkflowAct ==
  ASSUME WorkflowInv, NEW e \in Engines, Act(e)
  PROVE  WorkflowInv'
<1>1. /\ step[e] = "act"
      /\ \/ UNCHANGED applied
         \/ /\ applied = {}
            /\ applied' = {[claims |-> input[e].claims, disguised |-> disguised[e]]}
      /\ UNCHANGED <<settled, signed, execution, expired, deaths, told>>
  BY DEF Act, sourceVars
<1>2. PICK outcome \in ActionOutcome :
        mayReport(outcome, applied, applied') /\ Continue(e, "finish", outcome)
  BY DEF Act
<1>3. outcome \in ActionOutcome \cup {"NONE"} /\ outcome # "NONE"
  BY DEF ActionOutcome
<1>4. /\ proven[e] /\ input[e].workflow.enabled
      /\ input[e].claims \in input[e].workflow.claimEquals
      /\ input[e] \in Inputs /\ disguised[e] \in BOOLEAN
      /\ disguised[e] \/ settled = input[e].claims
      /\ execution # None /\ execution.input = input[e]
  BY <1>1 DEF WorkflowInv, WorkflowTypeOK, WorkIsAdmitted, ProofIsSettled
<1>5. /\ applied' \subseteq [claims : Claims, disguised : BOOLEAN]
      /\ applied \subseteq applied'
  BY <1>1, <1>4 DEF WorkflowInv, WorkflowTypeOK, Inputs
<1>6. /\ WorkflowTypeOK' /\ WorkIsAdmitted' /\ UNCHANGED <<input, proven, disguised>>
      /\ \A f \in Engines : step[f] # "idle" => step'[f] # "idle"
  BY <1>1, <1>2, <1>3, <1>5, WorkflowContinue DEF WorkflowInv, WorkflowTypeOK
<1>7. AppliedIsFinal'
  BY <1>1, <1>4 DEF WorkflowInv, AppliedIsFinal
<1>8. outcome \in {"APPLIED", "ALREADY_APPLIED"} => applied' # {}
  BY <1>2 DEF mayReport
<1>9. reported' = [reported EXCEPT ![e] = outcome]
  BY <1>2 DEF Continue
<1>10. AppliedIsClaimed'
  BY <1>1, <1>4, <1>5, <1>8, <1>9
     DEF WorkflowInv, WorkflowTypeOK, AppliedIsClaimed, executed
<1> QED
  BY <1>1, <1>6, <1>7, <1>10 DEF WorkflowInv, SignedIsSettled, ProofIsSettled,
                                 ToldAsRecorded, executed

\* A process that leaves leaves the others as they are.
LEMMA WorkflowLeave ==
  ASSUME WorkflowInv, NEW e \in Engines, Leave(e),
         UNCHANGED <<settled, signed, expired, applied>>,
         execution' \in [input : Inputs, status : ExecutionStatus] \cup {None},
         execution # None => execution' # None /\ execution'.input = execution.input,
         execution = None => execution' = None,
         executed' /\ execution'.status = "COMPLETED" => applied # {},
         told' \subseteq ExecutionStatus, deaths' \in 0..MaxDeaths,
         ToldAsRecorded'
  PROVE  WorkflowInv'
<1> USE WorkflowConstants
<1>1. /\ step' = [step EXCEPT ![e] = "idle"]
      /\ input' = [input EXCEPT ![e] = None]
      /\ proven' = [proven EXCEPT ![e] = FALSE]
      /\ disguised' = [disguised EXCEPT ![e] = FALSE]
      /\ reported' = [reported EXCEPT ![e] = "NONE"]
  BY DEF Leave
<1>2. WorkflowTypeOK'
  BY <1>1 DEF WorkflowInv, WorkflowTypeOK
<1>3. SignedIsSettled' /\ ProofIsSettled'
  BY <1>1 DEF WorkflowInv, WorkflowTypeOK, SignedIsSettled, ProofIsSettled
<1>4. WorkIsAdmitted'
  BY <1>1 DEF WorkflowInv, WorkflowTypeOK, WorkIsAdmitted
<1>5. AppliedIsFinal'
  BY DEF WorkflowInv, AppliedIsFinal, AppliedIsClaimed
<1>6. AppliedIsClaimed'
  BY <1>1 DEF WorkflowInv, WorkflowTypeOK, AppliedIsClaimed
<1> QED
  BY <1>2, <1>3, <1>4, <1>5, <1>6 DEF WorkflowInv

\* store.finish: an execution that has ended stays as it is.
LEMMA WorkflowFinish ==
  ASSUME WorkflowInv, NEW e \in Engines, FinishExecution(e)
  PROVE  WorkflowInv'
<1> USE WorkflowConstants
<1>1. /\ step[e] = "finish" /\ execution # None
      /\ execution \in [input : Inputs, status : ExecutionStatus]
      /\ reported[e] \in ActionOutcome
  BY DEF FinishExecution, WorkflowInv, WorkflowTypeOK
<1>2. /\ execution' = finished(e)
      /\ told' \in {told, told \cup {execution'.status}}
      /\ Leave(e) /\ UNCHANGED <<settled, signed, expired, applied, deaths>>
  BY DEF FinishExecution, sourceVars
<1>3. executionStatusOf(reported[e]) \in ExecutionStatus \ {"IN_PROGRESS"}
  BY <1>1 DEF executionStatusOf, ActionOutcome, ExecutionStatus
<1>4. /\ execution' \in [input : Inputs, status : ExecutionStatus]
      /\ execution'.input = execution.input
      /\ execution'.status # "IN_PROGRESS"
      /\ executed => execution' = execution
      /\ ~executed => execution'.status = executionStatusOf(reported[e])
  BY <1>1, <1>2, <1>3 DEF finished, executed
<1>5. execution'.status = "COMPLETED" => applied # {}
  <2>1. CASE executed
    BY <1>4, <2>1 DEF WorkflowInv, AppliedIsClaimed
  <2>2. CASE ~executed
    <3>1. executionStatusOf(reported[e]) = "COMPLETED" =>
            reported[e] \in {"APPLIED", "ALREADY_APPLIED"}
      BY <1>1 DEF executionStatusOf, ActionOutcome
    <3> QED
      BY <1>4, <2>2, <3>1 DEF WorkflowInv, AppliedIsClaimed
  <2> QED
    BY <2>1, <2>2
<1>6. ToldAsRecorded'
  BY <1>2, <1>4 DEF WorkflowInv, ToldAsRecorded, executed
<1>7. told' \subseteq ExecutionStatus /\ deaths' \in 0..MaxDeaths
  BY <1>2, <1>4 DEF WorkflowInv, WorkflowTypeOK
<1> QED
  BY <1>1, <1>2, <1>4, <1>5, <1>6, <1>7, WorkflowLeave

\* The source network settles once, and its validators sign that.
LEMMA WorkflowSource ==
  ASSUME WorkflowInv, SourceSteps
  PROVE  WorkflowInv'
<1> USE SourceConstants
<1>1. /\ UNCHANGED <<execution, step, input, proven, disguised, reported, applied,
                   deaths, told>>
      /\ expired' \in BOOLEAN
  BY DEF SourceSteps, call, WorkflowInv, WorkflowTypeOK
<1>2. /\ settled' \in Claims \cup {None}
      /\ signed' \subseteq (validatorIds \ Faulty) \X Claims
      /\ SignedIsSettled'
      /\ settled # None => settled' = settled
  <2>1. CASE UNCHANGED sourceVars
    BY <2>1 DEF sourceVars, WorkflowInv, WorkflowTypeOK, SignedIsSettled
  <2>2. ASSUME NEW c \in Claims, Settle(c)
        PROVE  <1>2!1 /\ <1>2!2 /\ <1>2!3 /\ <1>2!4
    <3>1. signed = {}
      BY <2>2 DEF Settle, WorkflowInv, WorkflowTypeOK, SignedIsSettled
    <3> QED
      BY <2>2, <3>1 DEF Settle, WorkflowInv, WorkflowTypeOK, SignedIsSettled
  <2>3. ASSUME NEW c \in Claims, NEW honest \in SUBSET (validatorIds \ Faulty),
               Attest(honest, c)
        PROVE  <1>2!1 /\ <1>2!2 /\ <1>2!3 /\ <1>2!4
    BY <2>3 DEF Attest, WorkflowInv, WorkflowTypeOK, SignedIsSettled
  <2> QED
    BY <2>1, <2>2, <2>3 DEF SourceSteps, SourceNext
<1>3. WorkflowTypeOK'
  BY <1>1, <1>2 DEF WorkflowInv, WorkflowTypeOK
<1>4. \A e \in Engines : proven[e] => disguised[e] \/ settled # None
  BY DEF WorkflowInv, WorkflowTypeOK, ProofIsSettled, Inputs
<1>5. ProofIsSettled' /\ WorkIsAdmitted'
  BY <1>1, <1>2, <1>4 DEF WorkflowInv, WorkflowTypeOK, ProofIsSettled, WorkIsAdmitted
<1>6. AppliedIsFinal' /\ AppliedIsClaimed' /\ ToldAsRecorded'
  BY <1>1, <1>2 DEF WorkflowInv, WorkflowTypeOK, AppliedIsFinal, AppliedIsClaimed,
                    ToldAsRecorded, executed
<1> QED
  BY <1>2, <1>3, <1>5, <1>6 DEF WorkflowInv

LEMMA WorkflowInvariance == WorkflowSpec => []WorkflowInv
<1> USE WorkflowConstants, SourceConstants
<1>1. WorkflowInit => WorkflowInv
  <2> SUFFICES ASSUME WorkflowInit PROVE WorkflowInv
    OBVIOUS
  <2>1. WorkflowTypeOK
    <3>1. /\ settled \in Claims \cup {None}
          /\ signed \subseteq (validatorIds \ Faulty) \X Claims
          /\ execution \in [input : Inputs, status : ExecutionStatus] \cup {None}
          /\ applied = {} /\ told \subseteq ExecutionStatus
          /\ expired \in BOOLEAN /\ deaths = 0
      BY Zenon DEF WorkflowInit, SourceInit
    <3>2. deaths \in 0..MaxDeaths
      BY <3>1
    <3>3. /\ step \in [Engines -> {"idle", "verify", "authorize", "act", "finish"}]
          /\ input \in [Engines -> Inputs \cup {None}]
          /\ proven \in [Engines -> BOOLEAN]
          /\ disguised \in [Engines -> BOOLEAN]
          /\ reported \in [Engines -> ActionOutcome \cup {"NONE"}]
          /\ \A e \in Engines : step[e] = "idle" /\ input[e] = None /\ reported[e] = "NONE"
      BY DEF WorkflowInit
    <3> QED
      BY <3>1, <3>2, <3>3 DEF WorkflowTypeOK
  <2> QED
    BY <2>1 DEF WorkflowInit, SourceInit, WorkflowInv, SignedIsSettled, ProofIsSettled,
         WorkIsAdmitted, AppliedIsFinal, AppliedIsClaimed, ToldAsRecorded, executed
<1>2. WorkflowInv /\ [WorkflowNext]_workflowVars => WorkflowInv'
  <2> SUFFICES ASSUME WorkflowInv, [WorkflowNext]_workflowVars PROVE WorkflowInv'
    OBVIOUS
  <2>1. ASSUME NEW e \in Engines, ReplayExecution(e) PROVE WorkflowInv'
    BY <2>1 DEF ReplayExecution, call, sourceVars, executed, WorkflowInv,
                WorkflowTypeOK, SignedIsSettled, ProofIsSettled, WorkIsAdmitted,
                AppliedIsFinal, AppliedIsClaimed, ToldAsRecorded
  <2>2. ASSUME NEW e \in Engines, Die(e) PROVE WorkflowInv'
    <3>1. /\ Leave(e) /\ UNCHANGED <<settled, signed, execution, expired, applied, told>>
          /\ deaths' \in 0..MaxDeaths
      BY <2>2 DEF Die, sourceVars, WorkflowInv, WorkflowTypeOK
    <3>2. ToldAsRecorded'
      BY <3>1 DEF WorkflowInv, ToldAsRecorded, executed
    <3> QED
      BY <3>1, <3>2, WorkflowLeave DEF WorkflowInv, WorkflowTypeOK, AppliedIsClaimed,
                                       executed
  <2>3. CASE UNCHANGED workflowVars
    BY <2>3 DEF workflowVars, call, sourceVars, executed, WorkflowInv,
                WorkflowTypeOK, SignedIsSettled, ProofIsSettled, WorkIsAdmitted,
                AppliedIsFinal, AppliedIsClaimed, ToldAsRecorded
  <2>4. ASSUME NEW e \in Engines, ExecuteWorkflow(e) PROVE WorkflowInv'
    BY <2>1, <2>4, WorkflowClaim, WorkflowCheck, WorkflowAct, WorkflowFinish
       DEF ExecuteWorkflow
  <2> QED
    BY <2>2, <2>3, <2>4, WorkflowSource DEF WorkflowNext
<1> QED
  BY <1>1, <1>2, PTL DEF WorkflowSpec

\* Whoever calls execute, the action is applied only for claims that an
\* enabled workflow asks for; and only for settled ones, when an honest
\* validator's signature counted or all ids are those of the signers.
THEOREM ActionCorrect == WorkflowSpec => []AppliedIsFinal
<1>1. WorkflowInv => AppliedIsFinal
  BY DEF WorkflowInv
<1> QED
  BY <1>1, WorkflowInvariance, PTL

\* All callers of an execution are told the same, and COMPLETED only of an
\* action that was applied.
THEOREM ExecutionAnswerCorrect == WorkflowSpec => []ToldTheSame
<1>1. WorkflowInv => ToldTheSame
  BY DEF WorkflowInv, ToldAsRecorded, AppliedIsClaimed, ToldTheSame
<1> QED
  BY <1>1, WorkflowInvariance, PTL
-----------------------------------------------------------------------------
\* The idempotency store.  A client works for the request that the row was
\* claimed with, a row that was claimed has a request, and a completed row
\* has a response.
KeyInv ==
  /\ KeyTypeOK
  /\ AnswersAgree
  /\ \A c \in Clients : claim[c] # None => claim[c] = row.request
  /\ row.status = "COMPLETED" => row.response # None
  /\ row.request = None => row = Unused

\* begin: only an unused row, or a failed one of the same request, is claimed.
LEMMA KeyBegin ==
  ASSUME KeyInv, NEW c \in Clients, NEW r \in Fingerprints, Begin(c, r)
  PROVE  KeyInv'
<1> USE IdempotencyConstants
<1>1. /\ row' = [request |-> r, status |-> "IN_PROGRESS", response |-> None]
      /\ phase' = [phase EXCEPT ![c] = "working"]
      /\ claim' = [claim EXCEPT ![c] = r]
      /\ phase[c] = "idle"
      /\ UNCHANGED <<report, answers, resends>>
  BY DEF Begin, Claimed
<1>2. row.status # "COMPLETED" /\ row.request \in {None, r}
  BY DEF Begin, beginAdmits, Unused
<1>3. answers' = {}
  BY <1>1, <1>2 DEF KeyInv, AnswersAgree
<1>4. KeyTypeOK'
  BY <1>1 DEF KeyInv, KeyTypeOK
<1>5. \A d \in Clients : claim'[d] # None => claim'[d] = row'.request
  BY <1>1, <1>2 DEF KeyInv, KeyTypeOK
<1> QED
  BY <1>1, <1>3, <1>4, <1>5 DEF KeyInv, AnswersAgree

\* complete and fail: a completed row stays as it is.
LEMMA KeyFinish ==
  ASSUME KeyInv, NEW r \in Fingerprints, r = row.request,
         NEW outcome \in Responses \cup {"FAILED"}, FinishKey(r, outcome)
  PROVE  /\ row' \in [ request : Fingerprints \cup {None},
                       status : {"NONE", "IN_PROGRESS", "COMPLETED", "FAILED"},
                       response : Responses \cup {None} ]
         /\ row'.request = r
         /\ row'.status = "COMPLETED" => row'.response # None
         /\ answers' \subseteq Fingerprints \X Responses
         /\ AnswersAgree'
<1> USE IdempotencyConstants
<1>1. CASE row.status = "COMPLETED"
  <2>1. row' = row
    BY <1>1 DEF FinishKey, finishAdmits
  <2>2. answers' = answers \cup {<<r, row.response>>}
    BY <1>1, <2>1 DEF FinishKey
  <2> QED
    BY <1>1, <2>1, <2>2 DEF KeyInv, KeyTypeOK, AnswersAgree
<1>2. CASE row.status # "COMPLETED"
  <2>1. answers = {}
    BY <1>2 DEF KeyInv, AnswersAgree
  <2>2. CASE outcome = "FAILED"
    <3>1. row' = [row EXCEPT !.status = "FAILED", !.response = row.response]
      BY <1>2, <2>2 DEF FinishKey, finishAdmits
    <3>2. answers' = {}
      BY <2>1, <3>1 DEF FinishKey, KeyInv, KeyTypeOK
    <3> QED
      BY <3>1, <3>2 DEF KeyInv, KeyTypeOK, AnswersAgree
  <2>3. CASE outcome # "FAILED"
    <3>1. row' = [row EXCEPT !.status = "COMPLETED", !.response = outcome]
      BY <1>2, <2>3 DEF FinishKey, finishAdmits
    <3>2. outcome \in Responses
      BY <2>3
    <3>3. /\ row'.request = r /\ row'.status = "COMPLETED" /\ row'.response = outcome
          /\ row' \in [ request : Fingerprints \cup {None},
                       status : {"NONE", "IN_PROGRESS", "COMPLETED", "FAILED"},
                       response : Responses \cup {None} ]
      BY <3>1, <3>2 DEF KeyInv, KeyTypeOK
    <3>4. answers' = {<<r, outcome>>}
      BY <2>1, <3>3 DEF FinishKey
    <3> QED
      BY <3>2, <3>3, <3>4 DEF AnswersAgree
  <2> QED
    BY <2>2, <2>3
<1> QED
  BY <1>1, <1>2

\* A report, whether it is the first or sent again.
LEMMA KeyReport ==
  ASSUME KeyInv, NEW c \in Clients,
         (\E outcome \in Responses \cup {"FAILED"} : Report(c, outcome)) \/ Resend(c)
  PROVE  KeyInv'
<1> USE IdempotencyConstants
<1>1. /\ claim[c] \in Fingerprints /\ claim[c] = row.request
      /\ UNCHANGED claim
      /\ report[c] # None => report[c] \in Responses \cup {"FAILED"}
  BY DEF Report, Resend, KeyInv, KeyTypeOK
<1>2. PICK outcome \in Responses \cup {"FAILED"} :
        /\ FinishKey(claim[c], outcome)
        /\ \/ /\ phase[c] = "working" /\ phase' = [phase EXCEPT ![c] = "done"]
              /\ report' = [report EXCEPT ![c] = outcome] /\ UNCHANGED resends
           \/ /\ resends' \in 0..MaxResends /\ UNCHANGED <<phase, report>>
  <2>1. CASE Resend(c)
    <3>1. report[c] \in Responses \cup {"FAILED"} /\ resends' \in 0..MaxResends
      BY <2>1 DEF Resend, KeyInv, KeyTypeOK
    <3> QED
      BY <2>1, <3>1 DEF Resend
  <2> QED
    BY <2>1 DEF Report
<1>3. /\ row' \in [ request : Fingerprints \cup {None},
                   status : {"NONE", "IN_PROGRESS", "COMPLETED", "FAILED"},
                   response : Responses \cup {None} ]
      /\ row'.request = claim[c]
      /\ row'.status = "COMPLETED" => row'.response # None
      /\ answers' \subseteq Fingerprints \X Responses
      /\ AnswersAgree'
  BY <1>1, <1>2, KeyFinish
<1>4. KeyTypeOK'
  BY <1>1, <1>2, <1>3 DEF KeyInv, KeyTypeOK
<1> QED
  BY <1>1, <1>3, <1>4 DEF KeyInv

LEMMA KeyInvariance == KeySpec => []KeyInv
<1> USE IdempotencyConstants
<1>1. KeyInit => KeyInv
  BY DEF KeyInit, KeyInv, KeyTypeOK, AnswersAgree, Unused
<1>2. KeyInv /\ [KeyNext]_keyVars => KeyInv'
  <2> SUFFICES ASSUME KeyInv, [KeyNext]_keyVars PROVE KeyInv'
    OBVIOUS
  <2>1. ASSUME NEW c \in Clients, NEW r \in Fingerprints, ReplayResponse(c, r)
        PROVE  KeyInv'
    BY <2>1 DEF ReplayResponse, KeyInv, KeyTypeOK, AnswersAgree
  <2>2. ASSUME NEW c \in Clients, LeaveKey(c) PROVE KeyInv'
    <3>1. KeyTypeOK'
      BY <2>2 DEF LeaveKey, KeyInv, KeyTypeOK
    <3>2. \A d \in Clients : claim'[d] # None => claim'[d] = row'.request
      BY <2>2 DEF LeaveKey, KeyInv, KeyTypeOK
    <3> QED
      BY <2>2, <3>1, <3>2 DEF LeaveKey, KeyInv, AnswersAgree
  <2>3. CASE UNCHANGED keyVars
    BY <2>3 DEF keyVars, KeyInv, KeyTypeOK, AnswersAgree
  <2> QED
    BY <2>1, <2>2, <2>3, KeyBegin, KeyReport DEF KeyNext
<1> QED
  BY <1>1, <1>2, PTL DEF KeySpec

\* Every response a caller was ever given is the stored one, of its request.
THEOREM ResponseCorrect == KeySpec => []AnswersAgree
<1>1. KeyInv => AnswersAgree
  BY DEF KeyInv
<1> QED
  BY <1>1, KeyInvariance, PTL
-----------------------------------------------------------------------------
\* The supply ledger, for any number of writers, operations and assets and for
\* any amounts.  The totals are left opaque: what the proof needs is that the
\* records a writer assesses are, thanks to the advisory lock, still the
\* records of the asset when it inserts.

\* A writer that has read an asset holds its lock, and what it read is what
\* the table holds now.
LockedSelection ==
  \A w \in Writers : offered[w] # None =>
    lock[offered[w].asset] = w /\ selected[w] = of(offered[w].asset)

\* The effects of every asset pass the assessment as they stand.
AssessedRows == \A r \in rows : assess(of(r.asset))

LedgerInv ==
  /\ LedgerTypeOK
  /\ LockedSelection
  /\ AssessedRows
  /\ OneEffectPerOperation
  /\ AcceptedIsStored

\* A transaction that ends without an insert releases its own lock only.
LEMMA TransactionEnds ==
  ASSUME LedgerInv, NEW w \in Writers, offered[w] # None, EndTransaction(w), UNCHANGED rows,
         accepted' \subseteq rows, refused' \in BOOLEAN
  PROVE  LedgerInv'
<1> USE SupplyConstants
<1>1. offered[w] \in SupplyEffectRecord /\ offered[w].asset \in Assets
  BY DEF LedgerInv, LedgerTypeOK, SupplyEffectRecord
<1>2. LedgerTypeOK'
  BY <1>1 DEF LedgerInv, LedgerTypeOK, EndTransaction
<1>3. LockedSelection'
  <2> SUFFICES ASSUME NEW v \in Writers, offered'[v] # None
               PROVE  /\ lock'[offered'[v].asset] = v
                      /\ selected'[v] = {x \in rows' : x.asset = offered'[v].asset}
    BY DEF LockedSelection, of
  <2>1. v # w /\ offered'[v] = offered[v] /\ selected'[v] = selected[v]
    BY DEF LedgerInv, LedgerTypeOK, EndTransaction
  <2>2. lock[offered[v].asset] = v /\ lock[offered[w].asset] = w
    BY <2>1 DEF LedgerInv, LockedSelection
  <2>3. lock'[offered[v].asset] = lock[offered[v].asset]
    BY <1>1, <2>1, <2>2 DEF LedgerInv, LedgerTypeOK, EndTransaction, SupplyEffectRecord
  <2>4. selected[v] = of(offered[v].asset)
    BY <2>1 DEF LedgerInv, LockedSelection
  <2> QED
    BY <2>1, <2>2, <2>3, <2>4 DEF of
<1>4. AssessedRows' /\ OneEffectPerOperation' /\ AcceptedIsStored'
  BY DEF LedgerInv, AssessedRows, OneEffectPerOperation, AcceptedIsStored, of
<1> QED
  BY <1>2, <1>3, <1>4 DEF LedgerInv

\* The invariant is inductive.
LEMMA LedgerInduction ==
  ASSUME LedgerInv, [LedgerNext]_ledgerVars
  PROVE  LedgerInv'
<1> USE SupplyConstants
<1>1. ASSUME NEW w \in Writers, NEW r \in SupplyEffectRecord, Select(w, r)
      PROVE  LedgerInv'
  <2>1. r.asset \in Assets /\ of(r.asset) \subseteq SupplyEffectRecord
    BY DEF LedgerInv, LedgerTypeOK, SupplyEffectRecord, of
  <2>2. LedgerTypeOK'
    BY <1>1, <2>1 DEF LedgerInv, LedgerTypeOK, Select
  <2>3. LockedSelection'
    <3> SUFFICES ASSUME NEW v \in Writers, offered'[v] # None
                 PROVE  /\ lock'[offered'[v].asset] = v
                        /\ selected'[v] = {x \in rows' : x.asset = offered'[v].asset}
      BY DEF LockedSelection, of
    <3>1. CASE v = w
      <4>1. offered'[v] = r /\ lock'[r.asset] = w /\ selected'[v] = of(r.asset)
              /\ rows' = rows
        BY <1>1, <2>1, <3>1 DEF LedgerInv, LedgerTypeOK, Select
      <4> QED
        BY <3>1, <4>1 DEF of
    <3>2. CASE v # w
      <4>1. offered'[v] = offered[v] /\ selected'[v] = selected[v] /\ rows' = rows
        BY <1>1, <3>2 DEF LedgerInv, LedgerTypeOK, Select
      <4>2. lock[offered[v].asset] = v /\ selected[v] = of(offered[v].asset)
        BY <4>1 DEF LedgerInv, LockedSelection
      <4>3. lock[r.asset] = None
        BY <1>1 DEF Select, lockIsFree
      <4>4. lock'[offered[v].asset] = v
        BY <1>1, <4>1, <4>2, <4>3 DEF LedgerInv, LedgerTypeOK, Select
      <4> QED
        BY <4>1, <4>2, <4>4 DEF of
    <3> QED
      BY <3>1, <3>2
  <2>4. AssessedRows' /\ OneEffectPerOperation' /\ AcceptedIsStored'
    BY <1>1
       DEF Select, LedgerInv, AssessedRows, OneEffectPerOperation, AcceptedIsStored, of
  <2> QED
    BY <2>2, <2>3, <2>4 DEF LedgerInv
<1>2. ASSUME NEW w \in Writers, NEW l \in Layouts, AnswerPrior(w, l)
      PROVE  LedgerInv'
  <2>1. PICK s \in selected[w] :
          /\ sameKey(s, offered[w])
          /\ IF identical(s, offered[w], l)
               THEN accepted' = accepted \cup {offered[w]} /\ UNCHANGED refused
               ELSE refused' = (refused \/ s = offered[w]) /\ UNCHANGED accepted
    BY <1>2 DEF AnswerPrior
  <2>2. offered[w] # None /\ EndTransaction(w) /\ UNCHANGED rows
    BY <1>2 DEF AnswerPrior
  <2>3. s \in rows
    BY <2>1, <2>2 DEF LedgerInv, LockedSelection, of
  <2>4. accepted' \subseteq rows /\ refused' \in BOOLEAN
    BY <2>1, <2>3 DEF LedgerInv, LedgerTypeOK, AcceptedIsStored, identical
  <2> QED
    BY <2>2, <2>4, TransactionEnds
<1>3. ASSUME NEW w \in Writers, Insert(w),
             assess(selected[w] \cup {offered[w]}) /\ insertAdmits(offered[w])
      PROVE  LedgerInv'
  <2> DEFINE r == offered[w]
             a == offered[w].asset
  <2>1. /\ r \in SupplyEffectRecord /\ a \in Assets /\ r # None
        /\ rows' = rows \cup {r} /\ accepted' = accepted \cup {r}
        /\ refused' = refused /\ EndTransaction(w)
    BY <1>3 DEF Insert, LedgerInv, LedgerTypeOK, SupplyEffectRecord
  <2>2. LedgerTypeOK'
    BY <2>1 DEF LedgerInv, LedgerTypeOK, EndTransaction
  <2>3. selected[w] = of(a) /\ lock[a] = w
    BY <2>1 DEF LedgerInv, LockedSelection
  <2>4. {x \in rows' : x.asset = a} = of(a) \cup {r}
    BY <2>1 DEF of
  <2>5. \A b : b # a => {x \in rows' : x.asset = b} = of(b)
    BY <2>1 DEF of
  <2>6. LockedSelection'
    <3> SUFFICES ASSUME NEW v \in Writers, offered'[v] # None
                 PROVE  /\ lock'[offered'[v].asset] = v
                        /\ selected'[v] = {x \in rows' : x.asset = offered'[v].asset}
      BY DEF LockedSelection, of
    <3>1. v # w /\ offered'[v] = offered[v] /\ selected'[v] = selected[v]
      BY <2>1 DEF LedgerInv, LedgerTypeOK, EndTransaction
    <3>2. lock[offered[v].asset] = v /\ selected[v] = of(offered[v].asset)
      BY <3>1 DEF LedgerInv, LockedSelection
    <3>3. offered[v].asset # a
      BY <2>3, <3>1, <3>2
    <3>4. lock'[offered[v].asset] = lock[offered[v].asset]
      BY <2>1, <3>1, <3>3 DEF LedgerInv, LedgerTypeOK, EndTransaction, SupplyEffectRecord
    <3> QED
      BY <2>5, <3>1, <3>2, <3>3, <3>4
  <2>7. AssessedRows'
    <3> SUFFICES ASSUME NEW x \in rows'
                 PROVE  assess({y \in rows' : y.asset = x.asset})
      BY DEF AssessedRows, of
    <3>1. CASE x.asset = a
      BY <1>3, <2>3, <2>4, <3>1
    <3>2. CASE x.asset # a
      <4>1. x \in rows
        BY <2>1, <3>2
      <4>2. assess(of(x.asset))
        BY <4>1 DEF LedgerInv, AssessedRows
      <4> QED
        BY <2>5, <3>2, <4>2
    <3> QED
      BY <3>1, <3>2
  <2>8. OneEffectPerOperation'
    BY <1>3, <2>1 DEF LedgerInv, OneEffectPerOperation, insertAdmits, sameKey
  <2>9. AcceptedIsStored'
    BY <2>1 DEF LedgerInv, AcceptedIsStored
  <2> QED
    BY <2>2, <2>6, <2>7, <2>8, <2>9 DEF LedgerInv
<1>4. ASSUME NEW w \in Writers, Insert(w),
             ~(assess(selected[w] \cup {offered[w]}) /\ insertAdmits(offered[w]))
      PROVE  LedgerInv'
  <2>1. offered[w] # None /\ EndTransaction(w) /\ UNCHANGED <<rows, accepted, refused>>
    BY <1>4 DEF Insert
  <2>2. accepted' \subseteq rows /\ refused' \in BOOLEAN
    BY <2>1 DEF LedgerInv, LedgerTypeOK, AcceptedIsStored
  <2> QED
    BY <2>1, <2>2, TransactionEnds
<1>5. ASSUME NEW w \in Writers, WriterCrash(w)
      PROVE  LedgerInv'
  <2>1. offered[w] # None /\ EndTransaction(w) /\ UNCHANGED <<rows, accepted, refused>>
    BY <1>5 DEF WriterCrash
  <2>2. accepted' \subseteq rows /\ refused' \in BOOLEAN
    BY <2>1 DEF LedgerInv, LedgerTypeOK, AcceptedIsStored
  <2> QED
    BY <2>1, <2>2, TransactionEnds
<1>6. CASE UNCHANGED ledgerVars
  BY <1>6 DEF ledgerVars, LedgerInv, LedgerTypeOK, LockedSelection, AssessedRows,
              OneEffectPerOperation, AcceptedIsStored, of
<1> QED
  BY <1>1, <1>2, <1>3, <1>4, <1>5, <1>6 DEF LedgerNext

LEMMA LedgerInvariance == LedgerSpec => []LedgerInv
<1>1. LedgerInit => LedgerInv
  BY SupplyConstants DEF LedgerInit, LedgerInv, LedgerTypeOK, LockedSelection, AssessedRows,
     OneEffectPerOperation, AcceptedIsStored
<1> QED
  BY <1>1, LedgerInduction, PTL DEF LedgerSpec
-----------------------------------------------------------------------------
\* Types of the table and of the transactions in flight.
THEOREM LedgerCorrect == LedgerSpec => []LedgerTypeOK
<1>1. LedgerInv => LedgerTypeOK
  BY DEF LedgerInv
<1> QED
  BY <1>1, LedgerInvariance, PTL

\* The advisory lock is enough: no interleaving of writers takes the ledger
\* of an asset out of the backing invariants.
THEOREM SupplyCorrect == LedgerSpec => []SupplyIsBacked
<1>1. LedgerInv => SupplyIsBacked
  BY DEF LedgerInv, AssessedRows, SupplyIsBacked, assess
<1> QED
  BY <1>1, LedgerInvariance, PTL

\* The primary key is enough: no operation has an effect twice, also not on
\* two assets, whose writers take different locks.
THEOREM EffectsCorrect == LedgerSpec => []OneEffectPerOperation
<1>1. LedgerInv => OneEffectPerOperation
  BY DEF LedgerInv
<1> QED
  BY <1>1, LedgerInvariance, PTL

\* Accepted effects are in the ledger for ever.
THEOREM AcceptanceCorrect == LedgerSpec => []AcceptedIsStored
<1>1. LedgerInv => AcceptedIsStored
  BY DEF LedgerInv
<1> QED
  BY <1>1, LedgerInvariance, PTL
=============================================================================
