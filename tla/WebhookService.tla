--------------------------- MODULE WebhookService ---------------------------
(***************************************************************************)
(* WebhookService.publish and retry over PostgresWebhookStore              *)
(* (packages/core/src/webhook-service.ts), for one event id and one        *)
(* endpoint.  A sender reads the log of deliveries, posts and appends to   *)
(* the log, without a lock around the three; the log has one row for each  *)
(* attempt.                                                                *)
(*                                                                         *)
(* The receiver is external: a post succeeds or fails, and a failed one    *)
(* may have arrived.  Signatures and the delay before the next attempt are *)
(* left out: no code waits for it.                                         *)
(***************************************************************************)
EXTENDS Undefined, Naturals, Sequences

CONSTANTS
  Senders,      \* concurrent callers of publish and retry
  Contents,     \* contents that are published under the event's id
  maxAttempts,  \* of the endpoint
  MaxLosses     \* bound of the number of senders that die

ASSUME WebhookConstants ==
  /\ maxAttempts \in Nat \ {0} /\ MaxLosses \in Nat
  /\ None \notin Contents

VARIABLES
  webhookEvent,  \* webhook_events: the content stored under the event's id
  enabled,       \* the endpoint is enabled
  deliveries,    \* webhook_deliveries: attempt and status, in insertion order
  sending,       \* where each sender stands, and with which content
  received,      \* external: the contents that reached the endpoint
  losses         \* how many senders died

webhookVars == <<webhookEvent, enabled, deliveries, sending, received, losses>>

WebhookInit ==
  /\ webhookEvent = None
  /\ enabled = TRUE
  /\ deliveries = <<>>
  /\ sending = [s \in Senders |-> None]
  /\ received = {}
  /\ losses = 0

rows == {deliveries[n] : n \in DOMAIN deliveries}
delivered == \E r \in rows : r.status \in {"SUCCEEDED", "DEAD_LETTER"}
at(s, place) == sending[s] # None /\ sending[s].at = place
leave(s) == sending' = [sending EXCEPT ![s] = None]
-----------------------------------------------------------------------------
\* External: an administrator enables or disables the endpoint.
SetEnabled ==
  /\ enabled' = ~enabled
  /\ UNCHANGED <<webhookEvent, deliveries, sending, received, losses>>

\* saveEvent inserts the event or finds it with the same hash.
saveEventAdmits(x) == webhookEvent \in {None, x}

\* publish stores the event; with another content under the id it throws.
PublishEvent(s, x) ==
  /\ sending[s] = None
  /\ saveEventAdmits(x)
  /\ webhookEvent' = IF webhookEvent = None THEN x ELSE webhookEvent
  /\ sending' = [sending EXCEPT ![s] =
       [at |-> "endpoints", content |-> x, attempt |-> 0, status |-> None]]
  /\ UNCHANGED <<enabled, deliveries, received, losses>>

\* endpointsFor gives the endpoint if it is enabled.
EndpointsFor(s) ==
  /\ at(s, "endpoints")
  /\ IF enabled THEN sending' = [sending EXCEPT ![s].at = "history"] ELSE leave(s)
  /\ UNCHANGED <<webhookEvent, enabled, deliveries, received, losses>>

\* retry loads the event; it is given the endpoint, enabled or not.
Retry(s) ==
  /\ sending[s] = None
  /\ webhookEvent # None
  /\ sending' = [sending EXCEPT ![s] =
       [at |-> "history", content |-> webhookEvent, attempt |-> 0, status |-> None]]
  /\ UNCHANGED <<webhookEvent, enabled, deliveries, received, losses>>

\* The log decides whether there is an attempt to make, and its number.
History(s) ==
  /\ at(s, "history")
  /\ IF delivered
       THEN leave(s)
       ELSE sending' = [sending EXCEPT ![s].at = "post",
                                       ![s].attempt = Len(deliveries) + 1]
  /\ UNCHANGED <<webhookEvent, enabled, deliveries, received, losses>>

statusOfAttempt(success, attempt) ==
  IF success THEN "SUCCEEDED"
  ELSE IF attempt >= maxAttempts THEN "DEAD_LETTER" ELSE "RETRY_SCHEDULED"

\* attempt: the post, which arrives when it succeeds.
Post(s) ==
  /\ at(s, "post")
  /\ \E success, arrives \in BOOLEAN :
       /\ success => arrives
       /\ received' = IF arrives THEN received \cup {sending[s].content} ELSE received
       /\ sending' = [sending EXCEPT ![s].at = "save",
            ![s].status = statusOfAttempt(success, sending[s].attempt)]
  /\ UNCHANGED <<webhookEvent, enabled, deliveries, losses>>

\* Mutant: every delivery is logged.
saveAdmitsAll(s) == TRUE

\* The log has no row of the attempt.
saveDeliveryAdmits(s) == \A r \in rows : r.attempt # sending[s].attempt

\* saveDelivery; ON CONFLICT the call throws, whatever came of its post.
SaveDelivery(s) ==
  /\ at(s, "save")
  /\ deliveries' = IF saveDeliveryAdmits(s)
       THEN Append(deliveries, [attempt |-> sending[s].attempt,
                                status |-> sending[s].status])
       ELSE deliveries
  /\ leave(s)
  /\ UNCHANGED <<webhookEvent, enabled, received, losses>>

DieSending(s) ==
  /\ sending[s] # None
  /\ losses < MaxLosses
  /\ losses' = losses + 1
  /\ leave(s)
  /\ UNCHANGED <<webhookEvent, enabled, deliveries, received>>

\* A sender goes on.
Send(s) == EndpointsFor(s) \/ History(s) \/ Post(s) \/ SaveDelivery(s)

WebhookNext ==
  \/ SetEnabled
  \/ \E s \in Senders :
       \/ \E x \in Contents : PublishEvent(s, x)
       \/ Retry(s) \/ Send(s) \/ DieSending(s)

WebhookSpec == WebhookInit /\ [][WebhookNext]_webhookVars
-----------------------------------------------------------------------------
\* "Attempts are immutable; non-2xx/network failures use bounded exponential
\* retry and become dead letters after the endpoint limit" (ADR 0028): the
\* log numbers its attempts one by one up to the limit, and nothing follows a
\* delivery that succeeded or was given up, although senders read the log,
\* post and write it in separate steps.
LogIsConclusive ==
  /\ Len(deliveries) <= maxAttempts
  /\ \A n \in DOMAIN deliveries :
       /\ deliveries[n].attempt = n
       /\ n < Len(deliveries) => deliveries[n].status = "RETRY_SCHEDULED"
       /\ deliveries[n].status = "DEAD_LETTER" => n = maxAttempts

\* Receivers "deduplicate by event ID" (ADR 0028), so whatever arrives under
\* an id has one content, the stored one.
ReceivedIsStored == received \subseteq {webhookEvent}

\* Both: the log and the receiver agree with what was published.
DeliveriesAreSound == LogIsConclusive /\ ReceivedIsStored
=============================================================================
