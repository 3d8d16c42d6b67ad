----------------------------- MODULE Idempotency -----------------------------
(***************************************************************************)
(* IdempotentWriteCoordinator over PostgresIdempotencyStore                *)
(* (packages/core/src/idempotency.ts): the row of one scope and key.       *)
(* Clients claim the key, do the work, and report its outcome; a report    *)
(* may be sent again when its answer was lost, and a client may die with   *)
(* the claim.  Every store operation is one transaction on the locked row. *)
(***************************************************************************)
EXTENDS Undefined, Naturals

CONSTANTS
  Clients,      \* callers that use the key
  Fingerprints, \* pairs of a request fingerprint and an operation id
  Responses,    \* what the work may produce
  MaxResends    \* bound of the number of repeated reports

ASSUME IdempotencyConstants ==
  /\ MaxResends \in Nat
  /\ None \notin Fingerprints \cup Responses \cup {"FAILED"}

VARIABLES
  row,       \* the row: request, status, response
  phase,     \* idle, working on the claim, or done with it
  claim,     \* the request a client claimed
  report,    \* what a client reported: FAILED, or its response
  answers,   \* history: the responses given to callers, with their request
  resends    \* how often a report was sent again

keyVars == <<row, phase, claim, report, answers, resends>>

Unused == [request |-> None, status |-> "NONE", response |-> None]

KeyInit ==
  /\ row = Unused
  /\ phase = [c \in Clients |-> "idle"]
  /\ claim = [c \in Clients |-> None]
  /\ report = [c \in Clients |-> None]
  /\ answers = {}
  /\ resends = 0

Claimed(c, r) ==
  /\ phase' = [phase EXCEPT ![c] = "working"]
  /\ claim' = [claim EXCEPT ![c] = r]
  /\ UNCHANGED <<report, answers, resends>>
-----------------------------------------------------------------------------
\* The key is new, or its last attempt failed and the request is the same.
beginAdmits(r) ==
  row = Unused \/ (row.request = r /\ row.status = "FAILED")

\* begin, outcome CLAIMED.
Begin(c, r) ==
  /\ phase[c] = "idle"
  /\ beginAdmits(r)
  /\ row' = [request |-> r, status |-> "IN_PROGRESS", response |-> None]
  /\ Claimed(c, r)

\* begin, outcome REPLAY.  IN_PROGRESS and CONFLICT leave no trace.
ReplayResponse(c, r) ==
  /\ phase[c] = "idle"
  /\ row.request = r
  /\ row.status = "COMPLETED"
  /\ answers' = answers \cup {<<r, row.response>>}
  /\ UNCHANGED <<row, phase, claim, report, resends>>

\* Mutant: a completed row is overwritten.
finishAdmitsCompleted(r) == row.request = r

\* #finish changes the row of the same request unless it is COMPLETED.
finishAdmits(r) == row.request = r /\ row.status # "COMPLETED"

\* complete and fail: the row is returned as it is afterwards.
FinishKey(r, outcome) ==
  /\ row' =
       IF finishAdmits(r)
         THEN [row EXCEPT
                 !.status = IF outcome = "FAILED" THEN "FAILED" ELSE "COMPLETED",
                 !.response = IF outcome = "FAILED" THEN @ ELSE outcome]
         ELSE row
  /\ answers' = IF row'.status = "COMPLETED"
                  THEN answers \cup {<<r, row'.response>>}
                  ELSE answers

Report(c, outcome) ==
  /\ phase[c] = "working"
  /\ FinishKey(claim[c], outcome)
  /\ phase' = [phase EXCEPT ![c] = "done"]
  /\ report' = [report EXCEPT ![c] = outcome]
  /\ UNCHANGED <<claim, resends>>

\* The answer to the report was lost, and the client sends it again.
Resend(c) ==
  /\ phase[c] = "done"
  /\ resends < MaxResends
  /\ resends' = resends + 1
  /\ FinishKey(claim[c], report[c])
  /\ UNCHANGED <<phase, claim, report>>

\* The client is satisfied with the answer; or it dies, and when it was
\* still working the key stays IN_PROGRESS for good: nothing reclaims it.
LeaveKey(c) ==
  /\ phase[c] # "idle"
  /\ phase' = [phase EXCEPT ![c] = "idle"]
  /\ claim' = [claim EXCEPT ![c] = None]
  /\ report' = [report EXCEPT ![c] = None]
  /\ UNCHANGED <<row, answers, resends>>

KeyNext ==
  \E c \in Clients :
    \/ \E r \in Fingerprints : Begin(c, r) \/ ReplayResponse(c, r)
    \/ \E outcome \in Responses \cup {"FAILED"} : Report(c, outcome)
    \/ Resend(c)
    \/ LeaveKey(c)

KeySpec == KeyInit /\ [][KeyNext]_keyVars
-----------------------------------------------------------------------------
\* Types; a client has a report exactly when it is done.
KeyTypeOK ==
  /\ row \in [ request : Fingerprints \cup {None},
                  status : {"NONE", "IN_PROGRESS", "COMPLETED", "FAILED"},
                  response : Responses \cup {None} ]
  /\ phase \in [Clients -> {"idle", "working", "done"}]
  /\ claim \in [Clients -> Fingerprints \cup {None}]
  /\ report \in [Clients -> Responses \cup {"FAILED", None}]
  /\ answers \subseteq Fingerprints \X Responses
  /\ resends \in 0..MaxResends
  /\ \A c \in Clients : /\ phase[c] = "idle" <=> claim[c] = None
                        /\ phase[c] = "done" <=> report[c] # None

\* Same-payload retries return the prior completed response: every response
\* that was ever given to a caller, by complete or by a replay, is the one
\* that is stored, and belongs to the caller's own request, also when two
\* clients worked on the key at once and a failure was reported late.
AnswersAgree ==
  \A a \in answers :
    row.status = "COMPLETED" /\ a = <<row.request, row.response>>

\* "Concurrent requests report in-progress" (ADR 0010): one client at a
\* time works on the key.
OneClaimant ==
  \A c, d \in Clients : phase[c] = "working" /\ phase[d] = "working" => c = d
=============================================================================
