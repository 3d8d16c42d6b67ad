------------------------- MODULE MCOperatorServices -------------------------
(***************************************************************************)
(* The services around the bridge: the event indexer, webhooks, the        *)
(* independent reconciliation, emergency controls, signing requests and    *)
(* the audit trail.  They share no state, so that TLC explores the         *)
(* behaviours of one of them while the others rest: service never changes. *)
(***************************************************************************)
EXTENDS EventIndexer, WebhookService, Reconciliation, EmergencyControls,
        KeyManagement, AuditService, TLC

CONSTANTS w1, w2, k1, k2, s1, s2, x1, x2, c1, c2, i1, a1, a2, e1, p1, p2, p3, b1,
          v1, g1, g2, r1, r2, t1, t2, d1, d2, d3

\* A stream with a removal, and with an event that is not decoded.
MCItems ==
  << [key |-> k1, observation |-> "CANONICAL"],
     [key |-> None, observation |-> "CANONICAL"],
     [key |-> k1, observation |-> "REMOVED"],
     [key |-> k2, observation |-> "CANONICAL"] >>

\* One asset moves; the other is there for a check with the wrong asset.
MCSupply == a1 :> 1 @@ a2 :> 0

VARIABLE service

serviceVars ==
  << service, vars, webhookVars, reconciliationVars, emergencyVars, signingVars,
     auditVars >>

ServicesInit ==
  /\ service \in {"INDEXER", "WEBHOOK", "RECONCILIATION", "EMERGENCY", "SIGNING",
                  "AUDIT"}
  /\ Init /\ WebhookInit /\ ReconciliationInit /\ EmergencyInit /\ SigningInit
  /\ AuditInit

\* A step of one service; the others rest.
Indexer(step) ==
  /\ service = "INDEXER" /\ step
  /\ UNCHANGED <<service, webhookVars, reconciliationVars, emergencyVars, signingVars,
                 auditVars>>

Webhook(step) ==
  /\ service = "WEBHOOK" /\ step
  /\ UNCHANGED <<service, vars, reconciliationVars, emergencyVars, signingVars,
                 auditVars>>

Reconciler(step) ==
  /\ service = "RECONCILIATION" /\ step
  /\ UNCHANGED <<service, vars, webhookVars, emergencyVars, signingVars, auditVars>>

Emergency(step) ==
  /\ service = "EMERGENCY" /\ step
  /\ UNCHANGED <<service, vars, webhookVars, reconciliationVars, signingVars,
                 auditVars>>

Signing(step) ==
  /\ service = "SIGNING" /\ step
  /\ UNCHANGED <<service, vars, webhookVars, reconciliationVars, emergencyVars,
                 auditVars>>

Auditing(step) ==
  /\ service = "AUDIT" /\ step
  /\ UNCHANGED <<service, vars, webhookVars, reconciliationVars, emergencyVars,
                 signingVars>>

ServicesNext ==
  \/ Indexer(Next) \/ Webhook(WebhookNext) \/ Reconciler(ReconciliationNext)
  \/ Emergency(EmergencyNext) \/ Signing(SigningNext) \/ Auditing(AuditNext)

\* The indexer runs again and again, a check is repeated, a delivery is
\* retried even though others publish its event again, and a call that is not
\* killed goes on.
FairServices ==
  /\ ServicesInit /\ [][ServicesNext]_serviceVars
  /\ \A w \in Workers : WF_serviceVars(Indexer(Process(w)))
  /\ \A s \in Senders :
       WF_serviceVars(Webhook(Send(s))) /\ SF_serviceVars(Webhook(Retry(s)))
  /\ \A c \in Reconcilers : WF_serviceVars(Reconciler(RunCheck(c)))
  /\ \A s \in Submitters : WF_serviceVars(Emergency(SubmitOperation(s)))

\* What the services owe, however the calls interleave and die: the indexer
\* catches up with the ledger, an event is delivered or given up, a stored
\* mismatch degrades its asset and raises the alert, and a pause takes hold.
DutiesAreDone ==
  /\ service = "INDEXER" => EventuallyIndexed
  /\ service = "WEBHOOK" => (webhookEvent # None ~> delivered)
  /\ service = "RECONCILIATION" => \A i \in CheckIds : []<>acted(i)
  /\ service = "EMERGENCY" => PauseTakesHold
=============================================================================
