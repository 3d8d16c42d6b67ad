---------------------------- MODULE KeyManagement ----------------------------
(***************************************************************************)
(* SigningCoordinator over PostgresSigningStore                            *)
(* (packages/core/src/key-management.ts), for one request id: submit,      *)
(* approve and execute, whose queries and whose call of the signer are     *)
(* separate steps.                                                         *)
(*                                                                         *)
(* The signer (HSM, MPC) is external: it signs every time it is asked to,  *)
(* and no two signatures are the same.  The parts of validate that never   *)
(* change are left out: a request that they refuse is never stored.        *)
(***************************************************************************)
EXTENDS Undefined, Naturals, FiniteSets

CONSTANTS
  Executors,          \* concurrent callers of execute
  Approvers,          \* administrators
  requiredApprovals,  \* of the signing policy
  MaxClock,           \* bound of the clock
  MaxSignings         \* bound of the number of signatures

ASSUME SigningConstants ==
  /\ requiredApprovals \in Nat /\ MaxClock \in Nat /\ MaxSignings \in Nat
  /\ IsFiniteSet(Approvers)
  /\ None \notin {"APPROVE", "REJECT"} /\ None \notin 1..MaxSignings

VARIABLES
  request,    \* signing_requests: is its purpose privileged, and its expiry
  decision,   \* signing_approvals, by approver
  result,     \* signing_results: the number of the stored signature
  executing,  \* where each executor stands, and the signature it holds
  signings,   \* external: how often the signer signed
  clock,      \* the time
  returned    \* history: the signatures returned to callers

signingVars == <<request, decision, result, executing, signings, clock, returned>>

SigningInit ==
  /\ request = None
  /\ decision = [p \in Approvers |-> None]
  /\ result = None
  /\ executing = [x \in Executors |-> [at |-> "idle", signature |-> 0]]
  /\ signings = 0
  /\ clock = 0
  /\ returned = {}

goTo(x, place, signature) ==
  executing' = [executing EXCEPT ![x] = [at |-> place, signature |-> signature]]
-----------------------------------------------------------------------------
\* submit with an expiry in the future; the request is immutable.
SubmitRequest(privileged, e) ==
  /\ request = None
  /\ clock < e
  /\ request' = [privileged |-> privileged, expiresAt |-> e]
  /\ UNCHANGED <<decision, result, executing, signings, clock, returned>>

\* The unique key of signing_approvals: an approver decides once.
addApprovalAdmits(p) == decision[p] = None

\* approve, at any time after the request was stored.
Approve(p, d) ==
  /\ request # None
  /\ addApprovalAdmits(p)
  /\ decision' = [decision EXCEPT ![p] = d]
  /\ UNCHANGED <<request, result, executing, signings, clock, returned>>

\* execute returns a result that is there.
GetResult(x) ==
  /\ executing[x].at = "idle"
  /\ request # None
  /\ IF result # None
       THEN returned' = returned \cup {result} /\ UNCHANGED executing
       ELSE goTo(x, "approvals", 0) /\ UNCHANGED returned
  /\ UNCHANGED <<request, decision, result, signings, clock>>

\* No rejection, and as many approvals as a privileged purpose requires.
approved ==
  /\ \A p \in Approvers : decision[p] # "REJECT"
  /\ request.privileged =>
       Cardinality({p \in Approvers : decision[p] = "APPROVE"}) >= requiredApprovals

\* execute reads and validates the request, and reads the approvals.  The
\* checks end the call or lead to the signer.
ReadApprovals(x) ==
  /\ executing[x].at = "approvals"
  /\ IF clock < request.expiresAt /\ approved
       THEN goTo(x, "sign", 0) ELSE goTo(x, "idle", 0)
  /\ UNCHANGED <<request, decision, result, signings, clock, returned>>

\* External: the signer signs, or fails.
Sign(x) ==
  /\ executing[x].at = "sign"
  /\ \/ /\ signings < MaxSignings
        /\ signings' = signings + 1
        /\ goTo(x, "save", signings + 1)
     \/ goTo(x, "idle", 0) /\ UNCHANGED signings
  /\ UNCHANGED <<request, decision, result, clock, returned>>

\* Mutant: the signature of the slower call replaces the stored one.
SaveResultAgain(x) ==
  /\ executing[x].at = "save"
  /\ result' = executing[x].signature
  /\ returned' = returned \cup {executing[x].signature}
  /\ goTo(x, "idle", 0)
  /\ UNCHANGED <<request, decision, signings, clock>>

\* saveResult; ON CONFLICT the call throws, and its signature is lost.
SaveResult(x) ==
  /\ executing[x].at = "save"
  /\ IF result = None
       THEN /\ result' = executing[x].signature
            /\ returned' = returned \cup {executing[x].signature}
       ELSE UNCHANGED <<result, returned>>
  /\ goTo(x, "idle", 0)
  /\ UNCHANGED <<request, decision, signings, clock>>

ClockTick ==
  /\ clock < MaxClock
  /\ clock' = clock + 1
  /\ UNCHANGED <<request, decision, result, executing, signings, returned>>

SigningNext ==
  \/ \E privileged \in BOOLEAN, e \in 0..MaxClock : SubmitRequest(privileged, e)
  \/ \E p \in Approvers, d \in {"APPROVE", "REJECT"} : Approve(p, d)
  \/ \E x \in Executors :
       GetResult(x) \/ ReadApprovals(x) \/ Sign(x) \/ SaveResult(x)
  \/ ClockTick

SigningSpec == SigningInit /\ [][SigningNext]_signingVars
-----------------------------------------------------------------------------
\* "Privileged administration ... requires the configured number of distinct
\* approvals" (ADR 0030): whoever signed and whatever was decided while the
\* signer was called, the approvals behind a signature are still there.
SignedAsApproved ==
  signings > 0 /\ request.privileged =>
    Cardinality({p \in Approvers : decision[p] = "APPROVE"}) >= requiredApprovals

\* "Request, approval, and result records are immutable and replay-safe" (ADR
\* 0030): calls that sign at the same time give their callers one signature.
OneSignatureReturned == returned \subseteq {result}

\* Both: what the signing coordinator hands out is approved and unique.
SignaturesAreSound == SignedAsApproved /\ OneSignatureReturned
=============================================================================
