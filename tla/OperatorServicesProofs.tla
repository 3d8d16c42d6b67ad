----------------------- MODULE OperatorServicesProofs -----------------------
(***************************************************************************)
(* The services around the bridge, for any number of concurrent calls,     *)
(* any stream of events and any number of crashes: the event indexer,      *)
(* webhooks, the independent reconciliation, emergency controls, signing   *)
(* requests and the audit trail.                                           *)
(*                                                                         *)
(* They all read, then act, then write, without a lock around the three:   *)
(* what a call has read stays true enough until it writes.                 *)
(***************************************************************************)
EXTENDS EventIndexer, WebhookService, Reconciliation, EmergencyControls,
        KeyManagement, AuditService, Integers, FiniteSetTheorems, TLAPS

-----------------------------------------------------------------------------
\* The event indexer.  The item with sequence n is in the store, if it is to
\* be there.
stored(n) == items[n].key # None => events[items[n].key] # None

\* A worker has stored everything before the item it is at, that item too
\* once it is about to save, and everything up to the checkpoint it holds.
WorkerIsBehind(w) ==
  /\ pc[w] # "idle" =>
       /\ \A n \in 1..held[w] : stored(n)
       /\ \A n \in 1..(position[w] - 1) : stored(n)
  /\ pc[w] \in {"save", "upsert"} => position[w] =< batch[w] /\ stored(position[w])

IndexerInv ==
  /\ TypeOK
  /\ NothingSkipped
  /\ \A w \in Workers : WorkerIsBehind(w)

\* An element of a sequence is of the sequence's type.
LEMMA ElementType ==
  ASSUME NEW S, NEW s \in Seq(S), NEW n \in 1..Len(s) PROVE s[n] \in S
OBVIOUS

LEMMA ItemType ==
  \A n \in 1..Len(items) :
    items[n] \in [key : Keys \cup {None}, observation : Observation]
BY ElementType, IndexerConstants

\* What is stored stays stored, so that a worker that does nothing stays
\* where it is.
LEMMA IndexerRests ==
  ASSUME IndexerInv, NEW v \in Workers, \A n \in 1..Len(items) : stored(n) => stored(n)',
         pc'[v] = pc[v], held'[v] = held[v], position'[v] = position[v],
         batch'[v] = batch[v]
  PROVE  WorkerIsBehind(v)'
<1>1. PICK L \in Nat : L = Len(items)
  BY IndexerConstants
<1>2. /\ held[v] \in 0..L /\ position[v] \in 0..(L + 1) /\ batch[v] \in 0..L
      /\ pc[v] # "idle" => position[v] \in 1..(batch[v] + 1)
  BY <1>1 DEF IndexerInv, TypeOK
<1>3. WorkerIsBehind(v)
  BY DEF IndexerInv
<1> QED
  BY <1>1, <1>2, <1>3 DEF WorkerIsBehind

\* process() ends.
LEMMA IndexerStop ==
  ASSUME IndexerInv, NEW w \in Workers, Stop(w),
         UNCHANGED <<published, events, checkpoint, highest>>,
         crashes' \in 0..MaxCrashes
  PROVE  IndexerInv'
<1>1. PICK L \in Nat : L = Len(items)
  BY IndexerConstants
<1>2. TypeOK'
  BY <1>1 DEF IndexerInv, TypeOK, Stop
<1>3. NothingSkipped'
  BY DEF IndexerInv, NothingSkipped
<1>4. WorkerIsBehind(w)'
  BY DEF IndexerInv, TypeOK, Stop, WorkerIsBehind
<1>5. ASSUME NEW v \in Workers \ {w} PROVE WorkerIsBehind(v)'
  <2>1. /\ pc'[v] = pc[v] /\ held'[v] = held[v] /\ position'[v] = position[v]
        /\ batch'[v] = batch[v] /\ \A n \in 1..Len(items) : stored(n) => stored(n)'
    BY <1>5 DEF IndexerInv, TypeOK, Stop, stored
  <2> QED
    BY <2>1, IndexerRests
<1> QED
  BY <1>2, <1>3, <1>4, <1>5 DEF IndexerInv

\* load: everything up to the checkpoint is stored.
LEMMA IndexerLoad ==
  ASSUME IndexerInv, NEW w \in Workers, Load(w)
  PROVE  IndexerInv'
<1>1. PICK L \in Nat : L = Len(items)
  BY IndexerConstants
<1>2. TypeOK'
  BY <1>1 DEF IndexerInv, TypeOK, Load
<1>3. NothingSkipped' /\ \A n \in 1..Len(items) : stored(n) => stored(n)'
  BY DEF IndexerInv, NothingSkipped, Load, stored
<1>4. WorkerIsBehind(w)'
  <2>1. /\ pc'[w] = "loop" /\ held'[w] = checkpoint /\ position'[w] = 1
        /\ UNCHANGED events
    BY DEF IndexerInv, TypeOK, Load
  <2> QED
    BY <2>1 DEF IndexerInv, NothingSkipped, WorkerIsBehind, stored
<1>5. ASSUME NEW v \in Workers \ {w} PROVE WorkerIsBehind(v)'
  <2>1. /\ pc'[v] = pc[v] /\ held'[v] = held[v] /\ position'[v] = position[v]
        /\ batch'[v] = batch[v]
    BY <1>5 DEF IndexerInv, TypeOK, Load
  <2> QED
    BY <2>1, <1>3, IndexerRests
<1> QED
  BY <1>2, <1>3, <1>4, <1>5 DEF IndexerInv

\* An item below the held checkpoint is passed over: it is stored.
LEMMA IndexerSkip ==
  ASSUME IndexerInv, NEW w \in Workers, Skip(w)
  PROVE  IndexerInv'
<1>1. PICK L \in Nat : L = Len(items)
  BY IndexerConstants
<1>2. TypeOK'
  <2>1. /\ position \in [Workers -> 0..(L + 1)] /\ batch \in [Workers -> 0..L]
        /\ position[w] \in 1..(batch[w] + 1) /\ position[w] =< batch[w]
        /\ position' = [position EXCEPT ![w] = @ + 1]
        /\ UNCHANGED <<published, events, checkpoint, pc, batch, held, crashes, highest>>
    BY <1>1 DEF IndexerInv, TypeOK, Skip
  <2>2. position[w] + 1 \in 0..(L + 1) /\ position[w] + 1 \in 1..(batch[w] + 1)
    BY <2>1
  <2>3. position' \in [Workers -> 0..(L + 1)]
    BY <2>1, <2>2
  <2>4. \A v \in Workers : pc'[v] # "idle" => position'[v] \in 1..(batch'[v] + 1)
    BY <2>1, <2>2 DEF IndexerInv, TypeOK
  <2> QED
    BY <1>1, <2>1, <2>3, <2>4 DEF IndexerInv, TypeOK
<1>3. NothingSkipped' /\ \A n \in 1..Len(items) : stored(n) => stored(n)'
  BY DEF IndexerInv, NothingSkipped, Skip, stored
<1>4. WorkerIsBehind(w)'
  <2>1. /\ pc[w] = "loop" /\ pc'[w] = "loop" /\ held'[w] = held[w]
        /\ position'[w] = position[w] + 1 /\ position[w] =< held[w]
        /\ position[w] \in 1..(L + 1) /\ held[w] \in 0..L /\ UNCHANGED events
    BY <1>1 DEF IndexerInv, TypeOK, Skip
  <2>2. \A n \in 1..held[w] : stored(n)
    BY <2>1 DEF IndexerInv, WorkerIsBehind
  <2> QED
    BY <2>1, <2>2 DEF WorkerIsBehind, stored
<1>5. ASSUME NEW v \in Workers \ {w} PROVE WorkerIsBehind(v)'
  <2>1. /\ pc'[v] = pc[v] /\ held'[v] = held[v] /\ position'[v] = position[v]
        /\ batch'[v] = batch[v]
    BY <1>5 DEF IndexerInv, TypeOK, Skip
  <2> QED
    BY <2>1, <1>3, IndexerRests
<1> QED
  BY <1>2, <1>3, <1>4, <1>5 DEF IndexerInv

\* ingest, before the checkpoint is saved.
LEMMA IndexerIngest ==
  ASSUME IndexerInv, NEW w \in Workers, Ingest(w)
  PROVE  IndexerInv'
<1>1. PICK L \in Nat : L = Len(items)
  BY IndexerConstants
<1>2. /\ pc[w] = "loop" /\ position[w] =< batch[w] /\ position[w] > held[w]
      /\ position[w] \in 1..L /\ batch[w] \in 0..L /\ held[w] \in 0..L
      /\ pc' = [pc EXCEPT ![w] = "save"]
      /\ UNCHANGED <<published, checkpoint, batch, position, held, crashes, highest>>
  BY <1>1 DEF IndexerInv, TypeOK, Ingest
<1> DEFINE item == items[position[w]]
<1>3. item \in [key : Keys \cup {None}, observation : Observation]
  BY <1>1, <1>2, ItemType
<1>4. events' = IF item.key # None /\ events[item.key] = None
                  THEN [events EXCEPT ![item.key] = item.observation] ELSE events
  BY DEF Ingest
<1>5. None \notin Observation
  BY IndexerConstants
<1> HIDE DEF item
<1>6. /\ events' \in [Keys -> Observation \cup {None}]
      /\ \A k \in Keys : events[k] # None => events'[k] # None
      /\ item.key # None => events'[item.key] # None
  BY <1>3, <1>4, <1>5 DEF IndexerInv, TypeOK
<1>7. \A n \in 1..Len(items) : stored(n) => stored(n)'
  BY <1>6, ItemType DEF stored
<1>8. stored(position[w])'
  BY <1>2, <1>6 DEF stored, item
<1>9. TypeOK'
  BY <1>1, <1>2, <1>6 DEF IndexerInv, TypeOK
<1>10. NothingSkipped'
  BY <1>1, <1>2, <1>7 DEF IndexerInv, TypeOK, NothingSkipped, stored
<1>11. WorkerIsBehind(w)'
  <2>1. WorkerIsBehind(w) /\ pc'[w] = "save"
    BY <1>2 DEF IndexerInv, TypeOK
  <2> QED
    BY <1>1, <1>2, <1>7, <1>8, <2>1 DEF WorkerIsBehind
<1>12. ASSUME NEW v \in Workers \ {w} PROVE WorkerIsBehind(v)'
  <2>1. /\ pc'[v] = pc[v] /\ held'[v] = held[v] /\ position'[v] = position[v]
        /\ batch'[v] = batch[v]
    BY <1>2, <1>12 DEF IndexerInv, TypeOK
  <2> QED
    BY <2>1, <1>7, IndexerRests
<1> QED
  BY <1>9, <1>10, <1>11, <1>12 DEF IndexerInv

\* The checkpoint moves to an item up to which everything is stored.
LEMMA IndexerSaved ==
  ASSUME IndexerInv, NEW w \in Workers, pc[w] \in {"save", "upsert"}, Saved(w)
  PROVE  IndexerInv'
<1>1. PICK L \in Nat : L = Len(items)
  BY IndexerConstants
<1>2. /\ position[w] \in 1..L /\ batch[w] \in 0..L /\ position[w] =< batch[w]
      /\ \A n \in 1..position[w] : stored(n)
  BY <1>1 DEF IndexerInv, TypeOK, WorkerIsBehind
<1>3. /\ checkpoint' = position[w]
      /\ highest' \in {position[w], highest}
      /\ held' = [held EXCEPT ![w] = position[w]]
      /\ position' = [position EXCEPT ![w] = position[w] + 1]
      /\ pc' = [pc EXCEPT ![w] = "loop"]
      /\ UNCHANGED <<published, events, batch, crashes>>
  BY DEF Saved
<1>4. TypeOK'
  BY <1>1, <1>2, <1>3 DEF IndexerInv, TypeOK
<1>5. NothingSkipped' /\ \A n \in 1..Len(items) : stored(n) => stored(n)'
  BY <1>2, <1>3 DEF NothingSkipped, stored
<1>6. WorkerIsBehind(w)'
  <2>1. pc'[w] = "loop" /\ held'[w] = position[w] /\ position'[w] = position[w] + 1
    BY <1>3 DEF IndexerInv, TypeOK
  <2> QED
    BY <1>2, <1>3, <2>1 DEF WorkerIsBehind, stored
<1>7. ASSUME NEW v \in Workers \ {w} PROVE WorkerIsBehind(v)'
  <2>1. /\ pc'[v] = pc[v] /\ held'[v] = held[v] /\ position'[v] = position[v]
        /\ batch'[v] = batch[v]
    BY <1>3, <1>7 DEF IndexerInv, TypeOK
  <2> QED
    BY <2>1, <1>5, IndexerRests
<1> QED
  BY <1>4, <1>5, <1>6, <1>7 DEF IndexerInv

\* saveCheckpoint, with and without a row.
LEMMA IndexerSave ==
  ASSUME IndexerInv, NEW w \in Workers,
         Save(w) \/ SaveSelect(w) \/ SaveUpsert(w)
  PROVE  IndexerInv'
<1>1. CASE Save(w) \/ SaveUpsert(w)
  <2>1. crashes \in 0..MaxCrashes
    BY DEF IndexerInv, TypeOK
  <2> QED
    BY <1>1, <2>1, IndexerSaved, IndexerStop DEF Save, SaveUpsert
<1>2. CASE SaveSelect(w)
  <2>1. /\ pc[w] = "save" /\ pc' = [pc EXCEPT ![w] = "upsert"]
        /\ UNCHANGED <<published, events, checkpoint, batch, position, held, crashes,
                       highest>>
    BY <1>2 DEF SaveSelect
  <2>2. TypeOK'
    BY <2>1 DEF IndexerInv, TypeOK
  <2>3. NothingSkipped' /\ \A n \in 1..Len(items) : stored(n) => stored(n)'
    BY <2>1 DEF IndexerInv, NothingSkipped, stored
  <2>4. ASSUME NEW v \in Workers PROVE WorkerIsBehind(v)'
    BY <2>1, <2>4 DEF IndexerInv, TypeOK, WorkerIsBehind, stored
  <2> QED
    BY <2>2, <2>3, <2>4 DEF IndexerInv
<1> QED
  BY <1>1, <1>2

LEMMA IndexerInvariance == Spec => []IndexerInv
<1> USE IndexerConstants
<1>1. Init => IndexerInv
  <2> SUFFICES ASSUME Init PROVE IndexerInv
    OBVIOUS
  <2>1. Len(items) \in Nat
    OBVIOUS
  <2>2. TypeOK
    BY <2>1 DEF Init, TypeOK
  <2> QED
    BY <2>2 DEF Init, IndexerInv, NothingSkipped, WorkerIsBehind
<1>2. IndexerInv /\ [Next]_vars => IndexerInv'
  <2> SUFFICES ASSUME IndexerInv, [Next]_vars PROVE IndexerInv'
    OBVIOUS
  <2>1. CASE Publish \/ UNCHANGED vars
    <3>1. UNCHANGED <<events, checkpoint, worker, crashes, highest>>
      BY <2>1 DEF Publish, vars
    <3>2. published' \in 0..Len(items)
      BY <2>1 DEF Publish, vars, IndexerInv, TypeOK
    <3> QED
      BY <3>1, <3>2 DEF worker, IndexerInv, TypeOK, NothingSkipped, WorkerIsBehind,
                        stored
  <2>2. ASSUME NEW w \in Workers, Return(w) \/ Crash(w) PROVE IndexerInv'
    <3>1. Stop(w) /\ UNCHANGED <<published, events, checkpoint, highest>>
      BY <2>2 DEF Return, Crash
    <3>2. crashes' \in 0..MaxCrashes
      BY <2>2 DEF Return, Crash, IndexerInv, TypeOK
    <3> QED
      BY <3>1, <3>2, IndexerStop
  <2> QED
    BY <2>1, <2>2, IndexerLoad, IndexerSkip, IndexerIngest, IndexerSave
       DEF Next, Process
<1> QED
  BY <1>1, <1>2, PTL DEF Spec

\* Whatever the processes do, no decodable event at or below the checkpoint is
\* missing from the store.
THEOREM IndexerCorrect == Spec => []NothingSkipped
<1>1. IndexerInv => NothingSkipped
  BY DEF IndexerInv
<1> QED
  BY <1>1, IndexerInvariance, PTL
-----------------------------------------------------------------------------
\* Webhooks.
DeliveryStatus == {"SUCCEEDED", "DEAD_LETTER", "RETRY_SCHEDULED"}

DeliveryRow == [attempt : Nat, status : DeliveryStatus]

SendingCall ==
  [ at : {"endpoints", "history", "post", "save"}, content : Contents,
    attempt : Nat, status : DeliveryStatus \cup {None} ]

WebhookTypes ==
  /\ webhookEvent \in Contents \cup {None}
  /\ deliveries \in Seq(DeliveryRow)
  /\ sending \in [Senders -> SendingCall \cup {None}]
  /\ received \subseteq Contents

\* Every attempt in log d could be followed by another.
isOpen(d) == \A n \in 1..Len(d) : d[n].status = "RETRY_SCHEDULED"

\* The rows of log d are numbered; one that is not the last, or is before the
\* limit, is no dead letter, and the one at the limit is no retry.
isConclusive(d) ==
  /\ Len(d) =< maxAttempts
  /\ \A n \in 1..Len(d) :
       /\ d[n].attempt = n
       /\ n < Len(d) => d[n].status = "RETRY_SCHEDULED"
       /\ d[n].status = "DEAD_LETTER" => n = maxAttempts
       /\ d[n].status = "RETRY_SCHEDULED" => n < maxAttempts

\* Call c sends stored event e.  What it read of log d may be outdated, but
\* not when its attempt is still the next one.
callIsSound(c, d, e) ==
  /\ c.content = e
  /\ c.at \in {"post", "save"} =>
       /\ 1 =< c.attempt /\ c.attempt =< Len(d) + 1
       /\ c.attempt = Len(d) + 1 => isOpen(d)
  /\ c.at = "save" =>
       /\ c.status \in DeliveryStatus
       /\ c.status = "DEAD_LETTER" => c.attempt >= maxAttempts
       /\ c.status = "RETRY_SCHEDULED" => c.attempt < maxAttempts

WebhookInv ==
  /\ WebhookTypes
  /\ isConclusive(deliveries)
  /\ ReceivedIsStored
  /\ \A s \in Senders :
       sending[s] # None => callIsSound(sending[s], deliveries, webhookEvent)

\* The parts of a log, for the provers.
LEMMA LogParts ==
  ASSUME NEW d \in Seq(DeliveryRow)
  PROVE  /\ Len(d) \in Nat /\ DOMAIN d = 1..Len(d)
         /\ \A n \in 1..Len(d) : d[n] \in DeliveryRow
BY ElementType

\* Log d with the outcome of call c.
grown(d, c) == Append(d, [attempt |-> c.attempt, status |-> c.status])

\* A conclusive log stays conclusive with the outcome of the next attempt, if
\* it is open; and what other calls know stays true of it.
LEMMA LogGrows ==
  ASSUME NEW d \in Seq(DeliveryRow), isConclusive(d), isOpen(d),
         NEW c \in SendingCall, NEW e, callIsSound(c, d, e), c.at = "save",
         c.attempt = Len(d) + 1
  PROVE  /\ grown(d, c) \in Seq(DeliveryRow) /\ isConclusive(grown(d, c))
         /\ \A b \in SendingCall :
              callIsSound(b, d, e) => callIsSound(b, grown(d, c), e)
<1> DEFINE f == grown(d, c)
<1>1. PICK L \in Nat : L = Len(d) /\ DOMAIN d = 1..L
  BY LogParts
<1>2. [attempt |-> c.attempt, status |-> c.status] \in DeliveryRow
  BY DEF callIsSound, DeliveryRow, SendingCall
<1>3. /\ f \in Seq(DeliveryRow) /\ Len(f) = L + 1
      /\ \A n \in 1..L : f[n] = d[n]
      /\ f[L + 1] = [attempt |-> c.attempt, status |-> c.status]
  BY <1>1, <1>2 DEF grown
<1> HIDE DEF f
<1>4. L + 1 =< maxAttempts
  BY <1>1, WebhookConstants DEF isConclusive, isOpen
<1>5. isConclusive(f)
  <2>1. ASSUME NEW n \in 1..(L + 1)
        PROVE  /\ f[n].attempt = n
               /\ n < L + 1 => f[n].status = "RETRY_SCHEDULED"
               /\ f[n].status = "DEAD_LETTER" => n = maxAttempts
               /\ f[n].status = "RETRY_SCHEDULED" => n < maxAttempts
    <3>1. CASE n \in 1..L
      BY <1>1, <1>3, <3>1 DEF isConclusive, isOpen
    <3>2. CASE n = L + 1
      BY <1>1, <1>3, <1>4, <3>2, WebhookConstants DEF callIsSound
    <3>3. n \in 1..L \/ n = L + 1
      OBVIOUS
    <3> QED
      BY <3>1, <3>2, <3>3
  <2> QED
    BY <1>3, <1>4, <2>1 DEF isConclusive
<1>6. ASSUME NEW b \in SendingCall, callIsSound(b, d, e) PROVE callIsSound(b, f, e)
  BY <1>1, <1>3, <1>6 DEF callIsSound, SendingCall
<1> QED
  BY <1>3, <1>5, <1>6 DEF f

\* The log decides: a log without a delivery is open.
LEMMA LogIsOpen ==
  ASSUME WebhookInv, ~delivered
  PROVE  isOpen(deliveries)
<1>1. \A n \in 1..Len(deliveries) : deliveries[n] \in DeliveryRow /\ deliveries[n] \in rows
  BY LogParts DEF WebhookInv, WebhookTypes, rows
<1> QED
  BY <1>1 DEF delivered, isOpen, DeliveryRow, DeliveryStatus

\* A sender goes on, or leaves, and leaves the log and the event as they are.
LEMMA WebhookMoves ==
  ASSUME WebhookInv, NEW s \in Senders,
         NEW c \in SendingCall \cup {None}, sending' = [sending EXCEPT ![s] = c],
         c # None => callIsSound(c, deliveries, webhookEvent),
         UNCHANGED <<webhookEvent, deliveries>>,
         received' \subseteq received \cup {webhookEvent}, received' \subseteq Contents
  PROVE  WebhookInv'
<1>1. WebhookTypes'
  BY DEF WebhookInv, WebhookTypes
<1>2. ReceivedIsStored'
  BY DEF WebhookInv, ReceivedIsStored
<1>3. \A t \in Senders :
        sending'[t] # None => callIsSound(sending'[t], deliveries', webhookEvent')
  BY DEF WebhookInv, WebhookTypes
<1> QED
  BY <1>1, <1>2, <1>3 DEF WebhookInv

\* publish and retry.
LEMMA WebhookBegins ==
  ASSUME WebhookInv, NEW s \in Senders,
         (\E x \in Contents : PublishEvent(s, x)) \/ Retry(s)
  PROVE  WebhookInv'
<1> USE WebhookConstants
<1>1. CASE Retry(s)
  <2> DEFINE c == [at |-> "history", content |-> webhookEvent, attempt |-> 0,
                   status |-> None]
  <2>1. /\ c \in SendingCall /\ sending' = [sending EXCEPT ![s] = c]
        /\ UNCHANGED <<webhookEvent, deliveries, received>>
        /\ callIsSound(c, deliveries, webhookEvent)
    BY <1>1 DEF Retry, WebhookInv, WebhookTypes, SendingCall, callIsSound
  <2> QED
    BY <2>1, WebhookMoves DEF WebhookInv, WebhookTypes
<1>2. ASSUME NEW x \in Contents, PublishEvent(s, x) PROVE WebhookInv'
  <2> DEFINE c == [at |-> "endpoints", content |-> x, attempt |-> 0, status |-> None]
  <2>1. /\ c \in SendingCall /\ sending' = [sending EXCEPT ![s] = c]
        /\ UNCHANGED <<deliveries, received>> /\ webhookEvent' = x
        /\ webhookEvent \in {None, x}
        /\ callIsSound(c, deliveries, x)
    BY <1>2 DEF PublishEvent, saveEventAdmits, SendingCall, callIsSound
  <2>2. CASE webhookEvent = x
    BY <2>1, <2>2, WebhookMoves DEF WebhookInv, WebhookTypes
  <2>3. CASE webhookEvent = None
    <3>1. received = {}
      BY <2>3 DEF WebhookInv, WebhookTypes, ReceivedIsStored
    <3>2. \A t \in Senders : sending[t] = None
      BY <2>3 DEF WebhookInv, WebhookTypes, callIsSound, SendingCall
    <3> HIDE DEF c
    <3>3. WebhookTypes'
      BY <2>1 DEF WebhookInv, WebhookTypes
    <3>4. ReceivedIsStored'
      BY <2>1, <3>1 DEF ReceivedIsStored
    <3>5. \A t \in Senders :
            sending'[t] # None => callIsSound(sending'[t], deliveries', webhookEvent')
      BY <2>1, <3>2 DEF WebhookInv, WebhookTypes
    <3> QED
      BY <2>1, <3>3, <3>4, <3>5 DEF WebhookInv
  <2> QED
    BY <2>1, <2>2, <2>3
<1> QED
  BY <1>1, <1>2

\* The endpoints, the log and the post.
LEMMA WebhookSends ==
  ASSUME WebhookInv, NEW s \in Senders,
         EndpointsFor(s) \/ History(s) \/ Post(s) \/ DieSending(s)
  PROVE  WebhookInv'
<1>1. sending[s] # None /\ UNCHANGED <<webhookEvent, deliveries>>
  BY DEF EndpointsFor, History, Post, DieSending, at
<1>2. sending[s] \in SendingCall /\ callIsSound(sending[s], deliveries, webhookEvent)
  BY <1>1 DEF WebhookInv, WebhookTypes
<1>3. Len(deliveries) \in Nat /\ received \subseteq Contents
  BY LogParts DEF WebhookInv, WebhookTypes
<1>4. CASE leave(s) /\ UNCHANGED received
  BY <1>1, <1>3, <1>4, WebhookMoves DEF leave
<1>5. CASE EndpointsFor(s)
  <2> DEFINE c == [sending[s] EXCEPT !.at = "history"]
  <2>1. c \in SendingCall /\ callIsSound(c, deliveries, webhookEvent)
    BY <1>2 DEF SendingCall, callIsSound
  <2>2. UNCHANGED received /\ (sending' = [sending EXCEPT ![s] = c] \/ leave(s))
    BY <1>5 DEF EndpointsFor
  <2> QED
    BY <1>1, <1>3, <1>4, <2>1, <2>2, WebhookMoves
<1>6. CASE History(s)
  <2> DEFINE L == Len(deliveries)
             c == [[sending[s] EXCEPT !.at = "post"] EXCEPT !.attempt = L + 1]
  <2>1. /\ UNCHANGED received
        /\ (~delivered /\ sending' = [sending EXCEPT ![s] = c]) \/ leave(s)
    BY <1>6, <1>2 DEF History, WebhookInv, WebhookTypes
  <2>2. /\ c \in SendingCall /\ c.content = sending[s].content /\ c.at = "post"
        /\ c.attempt = L + 1
    <3>1. L + 1 \in Nat
      BY <1>3
    <3> HIDE DEF L
    <3> QED
      BY <1>2, <3>1 DEF SendingCall
  <2> HIDE DEF c
  <2>3. ~delivered => callIsSound(c, deliveries, webhookEvent)
    BY <1>2, <1>3, <2>2, LogIsOpen DEF callIsSound
  <2> QED
    BY <1>1, <1>3, <1>4, <2>1, <2>2, <2>3, WebhookMoves
<1>7. CASE Post(s)
  <2>1. PICK success, arrives \in BOOLEAN :
          /\ received' = IF arrives THEN received \cup {sending[s].content} ELSE received
          /\ sending' = [sending EXCEPT ![s].at = "save",
               ![s].status = statusOfAttempt(success, sending[s].attempt)]
    BY <1>7 DEF Post
  <2> DEFINE t == statusOfAttempt(success, sending[s].attempt)
             c == [[sending[s] EXCEPT !.at = "save"] EXCEPT !.status = t]
  <2>2. /\ t \in DeliveryStatus
        /\ t = "DEAD_LETTER" => sending[s].attempt >= maxAttempts
        /\ t = "RETRY_SCHEDULED" => ~(sending[s].attempt >= maxAttempts)
    BY DEF statusOfAttempt, DeliveryStatus
  <2> HIDE DEF t
  <2>3. sending[s].at = "post"
    BY <1>7 DEF Post, at
  <2>4. c \in SendingCall /\ callIsSound(c, deliveries, webhookEvent)
    <3>1. /\ c \in SendingCall /\ c.content = sending[s].content /\ c.at = "save"
          /\ c.attempt = sending[s].attempt /\ c.attempt \in Nat /\ c.status = t
      BY <1>2, <2>2 DEF SendingCall
    <3> HIDE DEF c
    <3> QED
      BY <1>2, <2>2, <2>3, <3>1, WebhookConstants DEF callIsSound
  <2>5. sending' = [sending EXCEPT ![s] = c]
    BY <1>2, <2>1 DEF WebhookInv, WebhookTypes, t
  <2>6. /\ received' \subseteq received \cup {webhookEvent}
        /\ received' \subseteq Contents
    BY <1>2, <1>3, <2>1 DEF SendingCall, callIsSound
  <2> QED
    BY <1>1, <2>4, <2>5, <2>6, WebhookMoves
<1> QED
  BY <1>4, <1>5, <1>6, <1>7 DEF DieSending

\* saveDelivery: an outdated attempt has a row.
LEMMA WebhookSaves ==
  ASSUME WebhookInv, NEW s \in Senders, SaveDelivery(s)
  PROVE  WebhookInv'
<1>1. /\ sending[s] # None /\ sending[s].at = "save" /\ leave(s)
      /\ UNCHANGED <<webhookEvent, received>>
  BY DEF SaveDelivery, at
<1>2. sending[s] \in SendingCall /\ callIsSound(sending[s], deliveries, webhookEvent)
  BY <1>1 DEF WebhookInv, WebhookTypes
<1>3. PICK L \in Nat : L = Len(deliveries) /\ DOMAIN deliveries = 1..L
  BY LogParts DEF WebhookInv, WebhookTypes
<1>4. CASE ~saveDeliveryAdmits(s)
  BY <1>1, <1>4, WebhookMoves DEF SaveDelivery, leave, WebhookInv, WebhookTypes
<1>5. CASE saveDeliveryAdmits(s)
  <2>1. sending[s].attempt = L + 1
    <3>1. \A n \in 1..L : deliveries[n].attempt = n /\ deliveries[n] \in rows
      BY <1>3 DEF WebhookInv, isConclusive, rows
    <3>2. sending[s].attempt \in 1..(L + 1)
      BY <1>1, <1>2, <1>3 DEF callIsSound, SendingCall
    <3> QED
      BY <1>5, <3>1, <3>2 DEF saveDeliveryAdmits
  <2>2. isOpen(deliveries)
    BY <1>1, <1>2, <1>3, <2>1 DEF callIsSound
  <2>3. /\ deliveries' \in Seq(DeliveryRow) /\ isConclusive(deliveries')
        /\ \A b \in SendingCall : callIsSound(b, deliveries, webhookEvent)
             => callIsSound(b, deliveries', webhookEvent)
    <3>1. deliveries' = grown(deliveries, sending[s])
      BY <1>5 DEF SaveDelivery, grown
    <3>2. deliveries \in Seq(DeliveryRow) /\ isConclusive(deliveries)
      BY DEF WebhookInv, WebhookTypes
    <3>3. sending[s].attempt = Len(deliveries) + 1
      BY <1>3, <2>1
    <3> QED
      BY <1>1, <1>2, <2>2, <3>1, <3>2, <3>3, LogGrows
  <2>4. sending' = [sending EXCEPT ![s] = None]
    BY <1>1 DEF leave
  <2>5. WebhookTypes' /\ ReceivedIsStored'
    BY <1>1, <2>3, <2>4 DEF WebhookInv, WebhookTypes, ReceivedIsStored
  <2>6. \A t \in Senders :
          sending'[t] # None => callIsSound(sending'[t], deliveries', webhookEvent')
    BY <1>1, <2>3, <2>4 DEF WebhookInv, WebhookTypes
  <2> QED
    BY <2>3, <2>5, <2>6 DEF WebhookInv
<1> QED
  BY <1>4, <1>5

LEMMA WebhookInvariance == WebhookSpec => []WebhookInv
<1>1. WebhookInit => WebhookInv
  BY WebhookConstants DEF WebhookInit, WebhookInv, WebhookTypes, isConclusive,
                          ReceivedIsStored
<1>2. WebhookInv /\ [WebhookNext]_webhookVars => WebhookInv'
  <2> SUFFICES ASSUME WebhookInv, [WebhookNext]_webhookVars PROVE WebhookInv'
    OBVIOUS
  <2>1. CASE SetEnabled \/ UNCHANGED webhookVars
    BY <2>1 DEF SetEnabled, webhookVars, WebhookInv, WebhookTypes, ReceivedIsStored
  <2> QED
    BY <2>1, WebhookBegins, WebhookSends, WebhookSaves DEF WebhookNext, Send
<1> QED
  BY <1>1, <1>2, PTL DEF WebhookSpec

\* The log of deliveries is conclusive and what arrives is what was stored,
\* however many senders read, post and write at the same time.
THEOREM DeliveriesCorrect == WebhookSpec => []DeliveriesAreSound
<1>1. WebhookInv => DeliveriesAreSound
  BY LogParts DEF WebhookInv, WebhookTypes, DeliveriesAreSound, LogIsConclusive,
                  isConclusive
<1> QED
  BY <1>1, WebhookInvariance, PTL
-----------------------------------------------------------------------------
\* Reconciliation.
CheckRecord ==
  [assetId : AssetIds, outcome : {"MATCH", "MISMATCH"}, begunAfterStray : BOOLEAN]

SourceSnapshot ==
  [canonical : Int, circulating : Int, locked : Int, pendingLocks : Int]

ReconcilingCall ==
  [ at : {"source", "destination", "save", "degrade", "block", "alert"},
    id : CheckIds, assetId : AssetIds, blockIssuance : BOOLEAN,
    begunAfterStray : BOOLEAN, source : SourceSnapshot \cup {None},
    record : CheckRecord \cup {None} ]

ReconciliationTypes ==
  /\ ledger \in [AssetIds -> [REQUESTED..RELEASED -> Nat]]
  /\ stray \in [AssetIds -> Nat]
  /\ checks \in [CheckIds -> CheckRecord \cup {None}]
  /\ reconciling \in [Reconcilers -> ReconcilingCall \cup {None}]
  /\ degraded \cup blocked \cup alerted \subseteq AssetIds \X CheckIds

\* Record r says MISMATCH when it began after a stray mint.
recordIsSound(r) == r.begunAfterStray => r.outcome = "MISMATCH"

\* Check i is stored among k, and is a mismatch of asset a.
evident(k, i, a) == k[i] # None /\ k[i].assetId = a /\ k[i].outcome = "MISMATCH"

\* A stray unit does not go away while a call reads the ledgers, and a call
\* that takes measures has the evidence; n are the stray units, k the checks.
callHasEvidence(call, n, k) ==
  /\ call.begunAfterStray => n[call.assetId] # 0
  /\ call.at = "save" => /\ call.record \in CheckRecord /\ recordIsSound(call.record)
                         /\ call.record.assetId = call.assetId
  /\ call.at \in {"degrade", "block", "alert"} => evident(k, call.id, call.assetId)

ReconciliationInv ==
  /\ ReconciliationTypes
  /\ StrayMintIsRecorded
  /\ MeasuresHaveEvidence
  /\ \A c \in Reconcilers :
       reconciling[c] # None => callHasEvidence(reconciling[c], stray, checks)

\* The destination's supply is what operations account for only when there
\* is no stray unit.
LEMMA StrayIsFound ==
  ASSUME ReconciliationTypes, NEW a \in AssetIds, NEW s, stray[a] # 0
  PROVE  ~noMismatch(s, destinationSnapshot(a))
<1>1. PICK m \in Nat : m = ledger[a][MINTED]
  BY DEF ReconciliationTypes, REQUESTED, RELEASED, MINTED
<1>2. PICK b \in Nat : b = ledger[a][BURNED]
  BY DEF ReconciliationTypes, REQUESTED, RELEASED, BURNED
<1>3. stray[a] \in Nat
  BY DEF ReconciliationTypes
<1>4. /\ destinationSnapshot(a).destination = (m + stray[a]) - b
      /\ destinationSnapshot(a).minted = m /\ destinationSnapshot(a).burned = b
  BY <1>1, <1>2 DEF destinationSnapshot
<1>5. (m + stray[a]) - b # m - b
  BY <1>3
<1> QED
  BY <1>4, <1>5 DEF noMismatch

\* A call begins, goes on or ends, and stores no check.
LEMMA ReconcilerMoves ==
  ASSUME ReconciliationInv, NEW c \in Reconcilers,
         NEW d \in ReconcilingCall \cup {None},
         reconciling' = [reconciling EXCEPT ![c] = d],
         d # None => callHasEvidence(d, stray, checks),
         UNCHANGED <<ledger, stray, checks>>,
         \A e \in degraded' \cup blocked' \cup alerted' :
           \/ e \in degraded \cup blocked \cup alerted
           \/ e \in AssetIds \X CheckIds /\ evident(checks, e[2], e[1])
  PROVE  ReconciliationInv'
<1>1. ReconciliationTypes'
  BY DEF ReconciliationInv, ReconciliationTypes
<1>2. StrayMintIsRecorded'
  BY DEF ReconciliationInv, StrayMintIsRecorded
<1>3. MeasuresHaveEvidence'
  BY DEF ReconciliationInv, MeasuresHaveEvidence, evident
<1>4. \A b \in Reconcilers :
        reconciling'[b] # None => callHasEvidence(reconciling'[b], stray', checks')
  BY DEF ReconciliationInv, ReconciliationTypes
<1> QED
  BY <1>1, <1>2, <1>3, <1>4 DEF ReconciliationInv

LEMMA ReconcileBegins ==
  ASSUME ReconciliationInv, NEW c \in Reconcilers, NEW i \in CheckIds,
         NEW a \in AssetIds, NEW b \in BOOLEAN, Reconcile(c, i, a, b)
  PROVE  ReconciliationInv'
<1> DEFINE place == IF checks[i] = None THEN "source" ELSE "degrade"
           after == stray[a] # 0
           d == [ at |-> place, id |-> i, assetId |-> a, blockIssuance |-> b,
                  begunAfterStray |-> after, source |-> None, record |-> None ]
<1>1. /\ reconciling' = [reconciling EXCEPT ![c] = d]
      /\ UNCHANGED <<ledger, stray, checks, degraded, blocked, alerted>>
  BY DEF Reconcile, ledgers, measures
<1>2. /\ place \in {"source", "degrade"} /\ after \in BOOLEAN
      /\ after => stray[a] # 0
      /\ place = "degrade" => evident(checks, i, a)
  BY DEF Reconcile, evident
<1> HIDE DEF place, after
<1>3. d \in ReconcilingCall
  BY <1>2 DEF ReconcilingCall
<1>4. callHasEvidence(d, stray, checks)
  BY <1>2 DEF callHasEvidence
<1> HIDE DEF d
<1> QED
  BY <1>1, <1>3, <1>4, ReconcilerMoves

\* The two reads.
LEMMA ReconcilerReads ==
  ASSUME ReconciliationInv, NEW c \in Reconcilers, ReadSource(c) \/ ReadDestination(c)
  PROVE  ReconciliationInv'
<1> DEFINE call == reconciling[c]
<1>1. /\ call \in ReconcilingCall /\ callHasEvidence(call, stray, checks)
      /\ UNCHANGED <<ledger, stray, checks, degraded, blocked, alerted>>
  BY DEF ReadSource, ReadDestination, ledgers, measures, ReconciliationInv,
         ReconciliationTypes
<1>2. call.assetId \in AssetIds /\ call.begunAfterStray \in BOOLEAN
  BY <1>1 DEF ReconcilingCall
<1>3. CASE ReadSource(c)
  <2> DEFINE snapshot == sourceSnapshot(call.assetId)
             d == [[call EXCEPT !.source = snapshot] EXCEPT !.at = "destination"]
  <2>1. reconciling' = [reconciling EXCEPT ![c] = d]
    BY <1>3 DEF ReadSource, ReconciliationInv, ReconciliationTypes
  <2>2. snapshot \in SourceSnapshot
    <3>1. /\ supply[call.assetId] \in Nat
          /\ ledger[call.assetId][REQUESTED] \in Nat
          /\ ledger[call.assetId][LOCKED] \in Nat
          /\ ledger[call.assetId][RELEASED] \in Nat
      BY <1>2, ReconciliationConstants
         DEF ReconciliationInv, ReconciliationTypes, REQUESTED, LOCKED, RELEASED
    <3> HIDE DEF call
    <3> QED
      BY <3>1 DEF sourceSnapshot, SourceSnapshot
  <2> HIDE DEF snapshot, call
  <2>3. /\ d \in ReconcilingCall /\ d.at = "destination"
        /\ d.begunAfterStray = call.begunAfterStray /\ d.assetId = call.assetId
    BY <1>1, <2>2 DEF ReconcilingCall
  <2> HIDE DEF d
  <2>4. callHasEvidence(d, stray, checks)
    BY <1>1, <2>3 DEF callHasEvidence
  <2> QED
    BY <1>1, <2>1, <2>3, <2>4, ReconcilerMoves
<1>4. CASE ReadDestination(c)
  <2> DEFINE found == IF noMismatch(call.source, destinationSnapshot(call.assetId))
                        THEN "MATCH" ELSE "MISMATCH"
             record == [ assetId |-> call.assetId, outcome |-> found,
                         begunAfterStray |-> call.begunAfterStray ]
             d == [[[call EXCEPT !.at = "save"] EXCEPT !.source = None]
                     EXCEPT !.record = record]
  <2>1. reconciling' = [reconciling EXCEPT ![c] = d]
    BY <1>4 DEF ReadDestination, ReconciliationInv, ReconciliationTypes
  <2>2. found \in {"MATCH", "MISMATCH"} /\ (call.begunAfterStray => found = "MISMATCH")
    BY <1>1, <1>2, StrayIsFound DEF callHasEvidence, ReconciliationInv
  <2> HIDE DEF found, call
  <2>3. record \in CheckRecord /\ recordIsSound(record) /\ record.assetId = call.assetId
    BY <1>2, <2>2 DEF CheckRecord, recordIsSound
  <2> HIDE DEF record
  <2>4. /\ d \in ReconcilingCall /\ d.at = "save" /\ d.record = record
        /\ d.begunAfterStray = call.begunAfterStray /\ d.assetId = call.assetId
    BY <1>1, <2>3 DEF ReconcilingCall
  <2> HIDE DEF d
  <2>5. callHasEvidence(d, stray, checks)
    BY <1>1, <2>3, <2>4 DEF callHasEvidence
  <2> QED
    BY <1>1, <2>1, <2>4, <2>5, ReconcilerMoves
<1> QED
  BY <1>3, <1>4

\* store.save: the record is stored before a measure is taken.
LEMMA ReconcilerSaves ==
  ASSUME ReconciliationInv, NEW c \in Reconcilers, SaveCheck(c)
  PROVE  ReconciliationInv'
<1> DEFINE call == reconciling[c]
<1>1. /\ call \in ReconcilingCall /\ callHasEvidence(call, stray, checks)
      /\ call.at = "save" /\ call.id \in CheckIds
      /\ UNCHANGED <<ledger, stray, degraded, blocked, alerted>>
  BY DEF SaveCheck, ledgers, measures, ReconciliationInv, ReconciliationTypes,
         ReconcilingCall
<1>2. CASE UNCHANGED checks /\ return(c)
  BY <1>1, <1>2, ReconcilerMoves DEF return
<1>3. CASE /\ checks[call.id] = None
           /\ checks' = [checks EXCEPT ![call.id] = call.record]
           /\ applySafety(c, call.record)
  <2>1. /\ call.record \in CheckRecord /\ recordIsSound(call.record)
        /\ call.record.assetId = call.assetId /\ call.record # None
    BY <1>1, ReconciliationConstants DEF callHasEvidence, CheckRecord
  <2>2. \A i \in CheckIds : checks[i] # None => checks'[i] = checks[i]
    BY <1>3 DEF ReconciliationInv, ReconciliationTypes
  <2>3. checks' \in [CheckIds -> CheckRecord \cup {None}] /\ checks'[call.id] = call.record
    BY <1>1, <1>3, <2>1 DEF ReconciliationInv, ReconciliationTypes
  <2>4. StrayMintIsRecorded'
    BY <1>1, <1>3, <2>1, <2>3
       DEF ReconciliationInv, ReconciliationTypes, StrayMintIsRecorded, recordIsSound
  <2>5. MeasuresHaveEvidence'
    BY <1>1, <2>2 DEF ReconciliationInv, ReconciliationTypes, MeasuresHaveEvidence
  <2> DEFINE d == [call EXCEPT !.at = "degrade"]
  <2>6. \/ reconciling' = [reconciling EXCEPT ![c] = None]
        \/ /\ reconciling' = [reconciling EXCEPT ![c] = d]
           /\ call.record.outcome = "MISMATCH"
    BY <1>3 DEF applySafety, return
  <2>7. /\ d \in ReconcilingCall /\ d.at = "degrade" /\ d.id = call.id
        /\ d.begunAfterStray = call.begunAfterStray /\ d.assetId = call.assetId
    BY <1>1 DEF ReconcilingCall
  <2> HIDE DEF d
  <2>8. call.record.outcome = "MISMATCH" => callHasEvidence(d, stray', checks')
    BY <1>1, <2>1, <2>3, <2>7 DEF callHasEvidence, evident
  <2>9. \A b \in ReconcilingCall :
          callHasEvidence(b, stray, checks) => callHasEvidence(b, stray', checks')
    BY <1>1, <2>2 DEF callHasEvidence, evident, ReconcilingCall
  <2> HIDE DEF call
  <2>10. reconciling' \in [Reconcilers -> ReconcilingCall \cup {None}]
    BY <2>6, <2>7 DEF ReconciliationInv, ReconciliationTypes
  <2>11. ReconciliationTypes'
    BY <1>1, <2>3, <2>10 DEF ReconciliationInv, ReconciliationTypes
  <2>12. ASSUME NEW b \in Reconcilers, reconciling'[b] # None
         PROVE  callHasEvidence(reconciling'[b], stray', checks')
    <3>1. \/ reconciling'[b] = d /\ call.record.outcome = "MISMATCH"
          \/ reconciling'[b] = reconciling[b] /\ reconciling[b] # None
      BY <2>6, <2>12 DEF ReconciliationInv, ReconciliationTypes
    <3> QED
      BY <2>8, <2>9, <3>1 DEF ReconciliationInv, ReconciliationTypes
  <2> QED
    BY <2>4, <2>5, <2>11, <2>12 DEF ReconciliationInv
<1> QED
  BY <1>2, <1>3 DEF SaveCheck

\* The measures, each with the evidence.
LEMMA ReconcilerActs ==
  ASSUME ReconciliationInv, NEW c \in Reconcilers,
         Degrade(c) \/ BlockBridgeIssuance(c) \/ Alert(c) \/ DieReconciling(c)
  PROVE  ReconciliationInv'
<1> DEFINE call == reconciling[c]
<1>1. /\ call \in ReconcilingCall /\ callHasEvidence(call, stray, checks)
      /\ UNCHANGED <<ledger, stray, checks>>
  BY DEF Degrade, BlockBridgeIssuance, Alert, DieReconciling, ledgers,
         ReconciliationInv, ReconciliationTypes
<1>2. CASE DieReconciling(c)
  BY <1>1, <1>2, ReconcilerMoves DEF DieReconciling, return, measures
<1>3. CASE Degrade(c) \/ BlockBridgeIssuance(c) \/ Alert(c)
  <2>1. /\ evident(checks, call.id, call.assetId)
        /\ evidence(c) \in AssetIds \X CheckIds
        /\ evidence(c)[2] = call.id /\ evidence(c)[1] = call.assetId
    BY <1>1, <1>3 DEF Degrade, BlockBridgeIssuance, Alert, callHasEvidence,
                      evidence, ReconcilingCall
  <2>2. \A e \in degraded' \cup blocked' \cup alerted' :
          e \in degraded \cup blocked \cup alerted \/ e = evidence(c)
    BY <1>3 DEF Degrade, BlockBridgeIssuance, Alert
  <2>3. CASE return(c)
    BY <1>1, <2>1, <2>2, <2>3, ReconcilerMoves DEF return
  <2>4. ASSUME NEW place \in {"block", "alert"}, goOn(c, place)
        PROVE  ReconciliationInv'
    <3> DEFINE d == [call EXCEPT !.at = place]
    <3>1. /\ d \in ReconcilingCall /\ d.at = place /\ d.id = call.id
          /\ d.begunAfterStray = call.begunAfterStray /\ d.assetId = call.assetId
      BY <1>1 DEF ReconcilingCall
    <3>2. reconciling' = [reconciling EXCEPT ![c] = d]
      BY <2>4 DEF goOn
    <3> HIDE DEF d
    <3>3. callHasEvidence(d, stray, checks)
      BY <1>1, <2>1, <3>1 DEF callHasEvidence
    <3> QED
      BY <1>1, <2>1, <2>2, <3>1, <3>2, <3>3, ReconcilerMoves
  <2> QED
    BY <1>3, <2>3, <2>4 DEF Degrade, BlockBridgeIssuance, Alert
<1> QED
  BY <1>2, <1>3

\* The ledgers move on.
LEMMA LedgersMove ==
  ASSUME ReconciliationInv, NEW a \in AssetIds,
         StrayMint(a) \/ \E s \in REQUESTED..RELEASED : Advance(a, s)
  PROVE  ReconciliationInv'
<1>1. UNCHANGED <<checks, degraded, blocked, alerted, reconciling>>
  BY DEF StrayMint, Advance, measures
<1>2. /\ ledger' \in [AssetIds -> [REQUESTED..RELEASED -> Nat]]
      /\ stray' \in [AssetIds -> Nat]
      /\ \A b \in AssetIds : stray[b] # 0 => stray'[b] # 0
  <2>1. CASE StrayMint(a)
    BY <2>1 DEF StrayMint, ReconciliationInv, ReconciliationTypes
  <2>2. ASSUME NEW s \in REQUESTED..RELEASED, Advance(a, s)
        PROVE  ledger' \in [AssetIds -> [REQUESTED..RELEASED -> Nat]] /\ UNCHANGED stray
    <3> DEFINE passed == [ledger[a] EXCEPT ![s] = ledger[a][s] + 1]
    <3>1. passed \in [REQUESTED..RELEASED -> Nat]
      <4>1. ledger[a] \in [REQUESTED..RELEASED -> Nat] /\ ledger[a][s] \in Nat
        BY DEF ReconciliationInv, ReconciliationTypes
      <4>2. ledger[a][s] + 1 \in Nat
        BY <4>1
      <4> QED
        BY <4>1, <4>2
    <3>2. ledger' = [ledger EXCEPT ![a] = passed] /\ UNCHANGED stray
      BY <2>2 DEF Advance
    <3> QED
      BY <3>1, <3>2 DEF ReconciliationInv, ReconciliationTypes
  <2> QED
    BY <2>1, <2>2 DEF ReconciliationInv, ReconciliationTypes
<1>3. \A d \in ReconcilingCall :
        callHasEvidence(d, stray, checks) => callHasEvidence(d, stray', checks')
  BY <1>1, <1>2 DEF callHasEvidence, ReconcilingCall
<1> QED
  BY <1>1, <1>2, <1>3 DEF ReconciliationInv, ReconciliationTypes,
                          StrayMintIsRecorded, MeasuresHaveEvidence

LEMMA ReconciliationInvariance == ReconciliationSpec => []ReconciliationInv
<1>1. ReconciliationInit => ReconciliationInv
  <2> SUFFICES ASSUME ReconciliationInit PROVE ReconciliationInv
    OBVIOUS
  <2>1. ReconciliationTypes
    BY DEF ReconciliationInit, ReconciliationTypes
  <2> QED
    BY <2>1 DEF ReconciliationInit, ReconciliationInv, StrayMintIsRecorded,
                MeasuresHaveEvidence
<1>2. ReconciliationInv /\ [ReconciliationNext]_reconciliationVars
        => ReconciliationInv'
  <2> SUFFICES ASSUME ReconciliationInv, [ReconciliationNext]_reconciliationVars
               PROVE  ReconciliationInv'
    OBVIOUS
  <2>1. CASE UNCHANGED reconciliationVars
    BY <2>1 DEF reconciliationVars, ledgers, measures, ReconciliationInv,
                ReconciliationTypes, StrayMintIsRecorded, MeasuresHaveEvidence
  <2> QED
    BY <2>1, LedgersMove, ReconcileBegins, ReconcilerReads, ReconcilerSaves,
       ReconcilerActs
       DEF ReconciliationNext, RunCheck
<1> QED
  BY <1>1, <1>2, PTL DEF ReconciliationSpec

\* Every check that begins after a stray mint records a mismatch, for any
\* supply and any number of units on their way between the two reads.
THEOREM StrayMintFound == ReconciliationSpec => []StrayMintIsRecorded
<1>1. ReconciliationInv => StrayMintIsRecorded
  BY DEF ReconciliationInv
<1> QED
  BY <1>1, ReconciliationInvariance, PTL

\* Measures are taken only with a stored mismatch of the asset as evidence.
THEOREM EvidenceCorrect == ReconciliationSpec => []MeasuresHaveEvidence
<1>1. ReconciliationInv => MeasuresHaveEvidence
  BY DEF ReconciliationInv
<1> QED
  BY <1>1, ReconciliationInvariance, PTL
-----------------------------------------------------------------------------
\* Signing requests.
SigningTypes ==
  /\ decision \in [Approvers -> {"APPROVE", "REJECT", None}]
  /\ executing \in [Executors -> [at : {"idle", "approvals", "sign", "save"},
                                  signature : 0..MaxSignings]]
  /\ signings \in 0..MaxSignings
  /\ result \in 1..MaxSignings \cup {None}

\* The approvals that a privileged request needs are there.
enoughApprovals ==
  request.privileged =>
    Cardinality({p \in Approvers : decision[p] = "APPROVE"}) >= requiredApprovals

\* Nobody executes a request that is not stored; whoever is at the signer or
\* has been there found enough approvals; and callers were given the result.
SigningInv ==
  /\ SigningTypes
  /\ request = None => signings = 0 /\ \A x \in Executors : executing[x].at = "idle"
  /\ \A x \in Executors : executing[x].at = "sign" => enoughApprovals
  /\ \A x \in Executors : executing[x].at = "save" => executing[x].signature # 0
  /\ signings > 0 => enoughApprovals
  /\ returned # {} => result # None
  /\ OneSignatureReturned

\* Decisions are added, and none is taken back.
LEMMA ApprovalsStay ==
  ASSUME SigningTypes, NEW p \in Approvers, NEW d \in {"APPROVE", "REJECT"},
         Approve(p, d), enoughApprovals
  PROVE  enoughApprovals'
<1> DEFINE before == {q \in Approvers : decision[q] = "APPROVE"}
           after == {q \in Approvers : decision'[q] = "APPROVE"}
<1>1. before \subseteq after
  BY SigningConstants DEF Approve, addApprovalAdmits, SigningTypes
<1>2. IsFiniteSet(after) /\ Cardinality(before) =< Cardinality(after)
  BY <1>1, SigningConstants, FS_Subset
<1>3. Cardinality(before) \in Nat /\ Cardinality(after) \in Nat
  BY <1>1, <1>2, FS_Subset, FS_CardinalityType
<1>4. request' = request
  BY DEF Approve
<1> QED
  BY <1>2, <1>3, <1>4, SigningConstants DEF enoughApprovals

\* An executor goes on and neither signs nor stores a result.
LEMMA ExecutorMoves ==
  ASSUME SigningInv, NEW x \in Executors, request # None,
         NEW place \in {"idle", "approvals", "sign"}, goTo(x, place, 0),
         place = "sign" => enoughApprovals,
         UNCHANGED <<request, decision, result, signings, returned>>
  PROVE  SigningInv'
<1>1. executing' = [executing EXCEPT ![x] = [at |-> place, signature |-> 0]]
  BY DEF goTo
<1>2. SigningTypes'
  BY <1>1, SigningConstants DEF SigningInv, SigningTypes
<1>3. enoughApprovals' <=> enoughApprovals
  BY DEF enoughApprovals
<1>4. \A y \in Executors :
        /\ executing'[y].at = "sign" => enoughApprovals
        /\ executing'[y].at = "save" => executing'[y].signature # 0
  BY <1>1 DEF SigningInv, SigningTypes
<1> QED
  BY <1>2, <1>3, <1>4 DEF SigningInv, OneSignatureReturned

\* submit and approve.
LEMMA SigningDecides ==
  ASSUME SigningInv,
         \/ \E privileged \in BOOLEAN, e \in 0..MaxClock : SubmitRequest(privileged, e)
         \/ \E p \in Approvers, d \in {"APPROVE", "REJECT"} : Approve(p, d)
  PROVE  SigningInv'
<1> USE SigningConstants
<1>1. ASSUME NEW privileged \in BOOLEAN, NEW e \in 0..MaxClock,
             SubmitRequest(privileged, e)
      PROVE  SigningInv'
  BY <1>1 DEF SubmitRequest, SigningInv, SigningTypes, OneSignatureReturned
<1>2. ASSUME NEW p \in Approvers, NEW d \in {"APPROVE", "REJECT"}, Approve(p, d)
      PROVE  SigningInv'
  <2>1. /\ request # None /\ decision' = [decision EXCEPT ![p] = d]
        /\ UNCHANGED <<request, result, executing, signings, clock, returned>>
    BY <1>2 DEF Approve
  <2>2. SigningTypes' /\ (enoughApprovals => enoughApprovals')
    BY <1>2, <2>1, ApprovalsStay DEF SigningInv, SigningTypes
  <2> QED
    BY <2>1, <2>2 DEF SigningInv, OneSignatureReturned
<1> QED
  BY <1>1, <1>2

\* execute, up to the signer.
LEMMA SigningReads ==
  ASSUME SigningInv, NEW x \in Executors, GetResult(x) \/ ReadApprovals(x)
  PROVE  SigningInv'
<1>1. /\ request # None
      /\ UNCHANGED <<request, decision, result, signings>>
  BY DEF GetResult, ReadApprovals, SigningInv
<1>2. CASE GetResult(x)
  <2>1. CASE result # None
    BY <1>1, <1>2, <2>1 DEF GetResult, SigningInv, SigningTypes, OneSignatureReturned,
                            enoughApprovals
  <2>2. CASE result = None
    BY <1>1, <1>2, <2>2, ExecutorMoves DEF GetResult
  <2> QED
    BY <2>1, <2>2
<1>3. CASE ReadApprovals(x)
  <2>1. approved => enoughApprovals
    BY DEF approved, enoughApprovals
  <2> QED
    BY <1>1, <1>3, <2>1, ExecutorMoves DEF ReadApprovals
<1> QED
  BY <1>2, <1>3

\* The signer.
LEMMA SigningSigns ==
  ASSUME SigningInv, NEW x \in Executors, Sign(x)
  PROVE  SigningInv'
<1> USE SigningConstants
<1>1. /\ request # None /\ executing[x].at = "sign" /\ enoughApprovals
      /\ UNCHANGED <<request, decision, result, clock, returned>>
  BY DEF Sign, SigningInv
<1>2. CASE goTo(x, "idle", 0) /\ UNCHANGED signings
  BY <1>1, <1>2, ExecutorMoves
<1>3. CASE /\ signings < MaxSignings
           /\ signings' = signings + 1
           /\ goTo(x, "save", signings + 1)
  <2>1. /\ executing' = [executing EXCEPT ![x] = [at |-> "save", signature |-> signings']]
        /\ signings' \in 1..MaxSignings
    BY <1>3 DEF goTo, SigningInv, SigningTypes
  <2>2. SigningTypes'
    BY <1>1, <2>1 DEF SigningInv, SigningTypes
  <2>3. enoughApprovals'
    BY <1>1 DEF enoughApprovals
  <2>4. \A y \in Executors : executing'[y].at = "save" => executing'[y].signature # 0
    BY <2>1 DEF SigningInv, SigningTypes
  <2> QED
    BY <1>1, <2>2, <2>3, <2>4 DEF SigningInv, OneSignatureReturned
<1> QED
  BY <1>2, <1>3 DEF Sign

\* saveResult: the first signature is the result.
LEMMA SigningSaves ==
  ASSUME SigningInv, NEW x \in Executors, SaveResult(x)
  PROVE  SigningInv'
<1> USE SigningConstants
<1>1. /\ request # None /\ executing[x].at = "save" /\ goTo(x, "idle", 0)
      /\ executing[x].signature \in 1..MaxSignings
      /\ UNCHANGED <<request, decision, signings, clock>>
  BY DEF SaveResult, SigningInv, SigningTypes
<1>2. CASE result # None
  BY <1>1, <1>2, ExecutorMoves DEF SaveResult
<1>3. CASE result = None
  <2>1. result' = executing[x].signature /\ returned' = {executing[x].signature}
    BY <1>3 DEF SaveResult, SigningInv
  <2>2. executing' = [executing EXCEPT ![x] = [at |-> "idle", signature |-> 0]]
    BY <1>1 DEF goTo
  <2>3. SigningTypes'
    BY <1>1, <2>1, <2>2 DEF SigningInv, SigningTypes
  <2>4. enoughApprovals' <=> enoughApprovals
    BY <1>1 DEF enoughApprovals
  <2>5. \A y \in Executors :
          /\ executing'[y].at = "sign" => executing[y].at = "sign"
          /\ executing'[y].at = "save" => executing'[y].signature # 0
    BY <2>2 DEF SigningInv, SigningTypes
  <2>6. result' # None
    BY <1>1, <2>1
  <2> QED
    BY <1>1, <2>1, <2>3, <2>4, <2>5, <2>6 DEF SigningInv, OneSignatureReturned
<1> QED
  BY <1>2, <1>3

LEMMA SigningInvariance == SigningSpec => []SigningInv
<1>1. SigningInit => SigningInv
  BY SigningConstants DEF SigningInit, SigningInv, SigningTypes, OneSignatureReturned
<1>2. SigningInv /\ [SigningNext]_signingVars => SigningInv'
  <2> SUFFICES ASSUME SigningInv, [SigningNext]_signingVars PROVE SigningInv'
    OBVIOUS
  <2>1. CASE ClockTick \/ UNCHANGED signingVars
    BY <2>1 DEF ClockTick, signingVars, SigningInv, SigningTypes,
                OneSignatureReturned, enoughApprovals
  <2> QED
    BY <2>1, SigningDecides, SigningReads, SigningSigns, SigningSaves
       DEF SigningNext
<1> QED
  BY <1>1, <1>2, PTL DEF SigningSpec

\* Whatever is decided while the signer is called, a signature has its
\* approvals, and callers are given one signature.
THEOREM SigningCorrect == SigningSpec => []SignaturesAreSound
<1>1. SigningInv => SignaturesAreSound
  BY DEF SigningInv, SignaturesAreSound, SignedAsApproved, enoughApprovals
<1> QED
  BY <1>1, SigningInvariance, PTL
-----------------------------------------------------------------------------
\* Emergency controls.
EmergencyTypes ==
  /\ controls \in [ControlIds -> Control \cup {None}]
  /\ handling \in [Staff -> [doing : {"ACTIVATED", "lift", "LIFTED"},
                             id : ControlIds] \cup {None}]
  /\ trail \subseteq [controlId : ControlIds, actor : Staff,
                      action : {"ACTIVATED", "LIFTED"}]

\* Control i is stored in k, and says that p did this to it.
doneBy(k, i, p, action) ==
  /\ k[i] # None
  /\ action = "ACTIVATED" => k[i].activatedBy = p
  /\ action = "LIFTED" => k[i].status = "LIFTED" /\ k[i].liftedBy = p

\* The audit event was true of the control when it was stored, and a lifted
\* control does not change any more.
EmergencyInv ==
  /\ EmergencyTypes
  /\ \A e \in trail : doneBy(controls, e.controlId, e.actor, e.action)
  /\ \A p \in Staff :
       handling[p] # None => doneBy(controls, handling[p].id, p, handling[p].doing)

\* What was done to a control stays true: a control changes once, from
\* ACTIVE to LIFTED.
LEMMA DeedsLast ==
  ASSUME EmergencyInv, controls' \in [ControlIds -> Control \cup {None}],
         NEW i \in ControlIds,
         \A j \in ControlIds \ {i} : controls'[j] = controls[j],
         \/ controls[i] = None
         \/ /\ controls[i].status = "ACTIVE" /\ controls'[i] # None
            /\ controls'[i].activatedBy = controls[i].activatedBy,
         NEW j \in ControlIds, NEW p, NEW action, doneBy(controls, j, p, action)
  PROVE  doneBy(controls', j, p, action)
BY DEF doneBy

\* A principal's call goes on or ends; what it did is true.
LEMMA HandlingMoves ==
  ASSUME EmergencyInv, NEW p \in Staff,
         controls' \in [ControlIds -> Control \cup {None}],
         \A j \in ControlIds, q \in Staff, action \in {"ACTIVATED", "lift", "LIFTED"} :
           doneBy(controls, j, q, action) => doneBy(controls', j, q, action),
         NEW h \in [doing : {"ACTIVATED", "lift", "LIFTED"}, id : ControlIds] \cup {None},
         handling' = [handling EXCEPT ![p] = h],
         h # None => doneBy(controls', h.id, p, h.doing),
         UNCHANGED trail
  PROVE  EmergencyInv'
<1>1. EmergencyTypes'
  BY DEF EmergencyInv, EmergencyTypes
<1>2. \A e \in trail : doneBy(controls', e.controlId, e.actor, e.action)
  BY DEF EmergencyInv, EmergencyTypes
<1>3. \A q \in Staff :
        handling'[q] # None => doneBy(controls', handling'[q].id, q, handling'[q].doing)
  BY DEF EmergencyInv, EmergencyTypes
<1> QED
  BY <1>1, <1>2, <1>3 DEF EmergencyInv

LEMMA EmergencyActivates ==
  ASSUME EmergencyInv, NEW p \in Staff, NEW i \in ControlIds, NEW k \in Kinds,
         NEW selector \in selectors(k), Activate(p, i, k, selector)
  PROVE  EmergencyInv'
<1> DEFINE c == [kind |-> k, selector |-> selector, status |-> "ACTIVE",
                 activatedBy |-> p, liftedBy |-> None]
           h == [doing |-> "ACTIVATED", id |-> i]
<1>1. c \in Control /\ c # None /\ c.activatedBy = p
  BY EmergencyConstants DEF Control, selectors
<1>2. /\ controls[i] = None /\ controls' = [controls EXCEPT ![i] = c]
      /\ handling' = [handling EXCEPT ![p] = h] /\ UNCHANGED trail
  BY DEF Activate, handle
<1> HIDE DEF c
<1>3. controls' \in [ControlIds -> Control \cup {None}] /\ controls'[i] = c
  BY <1>1, <1>2 DEF EmergencyInv, EmergencyTypes
<1>4. \A j \in ControlIds \ {i} : controls'[j] = controls[j]
  BY <1>2 DEF EmergencyInv, EmergencyTypes
<1>5. \A j \in ControlIds, q \in Staff, action \in {"ACTIVATED", "lift", "LIFTED"} :
        doneBy(controls, j, q, action) => doneBy(controls', j, q, action)
  BY <1>2, <1>3, <1>4, DeedsLast
<1>6. doneBy(controls', h.id, p, h.doing)
  BY <1>1, <1>3 DEF doneBy
<1> QED
  BY <1>2, <1>3, <1>5, <1>6, HandlingMoves

\* lift: the list, and the update under its condition.
LEMMA EmergencyLifts ==
  ASSUME EmergencyInv, NEW p \in Staff,
         (\E i \in ControlIds : ListForLift(p, i)) \/ UpdateControl(p)
  PROVE  EmergencyInv'
<1>1. ASSUME NEW i \in ControlIds, ListForLift(p, i) PROVE EmergencyInv'
  <2> DEFINE h == [doing |-> "lift", id |-> i]
  <2>1. /\ handling' = [handling EXCEPT ![p] = h] /\ UNCHANGED <<controls, trail>>
        /\ controls[i] # None
    BY <1>1 DEF ListForLift, handle, active
  <2>2. doneBy(controls', h.id, p, h.doing)
    BY <2>1 DEF doneBy
  <2> QED
    BY <2>1, <2>2, HandlingMoves DEF EmergencyInv, EmergencyTypes
<1>2. CASE UpdateControl(p)
  <2> DEFINE i == handling[p].id
  <2>1. /\ handling[p] # None /\ i \in ControlIds /\ UNCHANGED trail
    BY <1>2 DEF UpdateControl, EmergencyInv, EmergencyTypes
  <2>2. CASE handling' = [handling EXCEPT ![p] = None] /\ UNCHANGED controls
    BY <2>1, <2>2, HandlingMoves DEF EmergencyInv, EmergencyTypes
  <2>3. CASE /\ updateAdmits(i)
             /\ controls' = [controls EXCEPT ![i].status = "LIFTED", ![i].liftedBy = p]
             /\ handle(p, "LIFTED", i)
    <3> DEFINE c == [[controls[i] EXCEPT !.status = "LIFTED"] EXCEPT !.liftedBy = p]
               h == [doing |-> "LIFTED", id |-> i]
    <3>1. controls[i] \in Control /\ controls[i].status = "ACTIVE"
      BY <2>1, <2>3 DEF updateAdmits, active, EmergencyInv, EmergencyTypes
    <3>2. controls' = [controls EXCEPT ![i] = c]
      BY <2>1, <2>3 DEF EmergencyInv, EmergencyTypes
    <3> HIDE DEF i
    <3>3. /\ c \in Control /\ c.status = "LIFTED" /\ c.liftedBy = p /\ c # None
          /\ c.activatedBy = controls[i].activatedBy
      BY <3>1, EmergencyConstants DEF Control
    <3> HIDE DEF c
    <3>4. controls' \in [ControlIds -> Control \cup {None}] /\ controls'[i] = c
      BY <2>1, <3>2, <3>3 DEF EmergencyInv, EmergencyTypes
    <3>5. \A j \in ControlIds \ {i} : controls'[j] = controls[j]
      BY <2>1, <3>2 DEF EmergencyInv, EmergencyTypes
    <3>6. \A j \in ControlIds, q \in Staff, action \in {"ACTIVATED", "lift", "LIFTED"} :
            doneBy(controls, j, q, action) => doneBy(controls', j, q, action)
      BY <2>1, <3>1, <3>3, <3>4, <3>5, DeedsLast
    <3>7. doneBy(controls', h.id, p, h.doing)
      BY <3>3, <3>4 DEF doneBy
    <3>8. handling' = [handling EXCEPT ![p] = h]
      BY <2>3 DEF handle
    <3> QED
      BY <2>1, <3>4, <3>6, <3>7, <3>8, HandlingMoves
  <2> QED
    BY <1>2, <2>2, <2>3 DEF UpdateControl
<1> QED
  BY <1>1, <1>2

\* audit.record, or the call dies before it.
LEMMA EmergencyRecords ==
  ASSUME EmergencyInv, NEW p \in Staff, RecordEvent(p) \/ DieHandling(p)
  PROVE  EmergencyInv'
<1>1. /\ handling' = [handling EXCEPT ![p] = None] /\ UNCHANGED controls
      /\ handling[p] # None
  BY DEF RecordEvent, DieHandling
<1>2. CASE UNCHANGED trail
  BY <1>1, <1>2, HandlingMoves DEF EmergencyInv, EmergencyTypes
<1>3. CASE RecordEvent(p)
  <2> DEFINE e == [controlId |-> handling[p].id, actor |-> p,
                   action |-> handling[p].doing]
  <2>1. trail' = trail \cup {e} /\ e.action \in {"ACTIVATED", "LIFTED"}
    BY <1>3 DEF RecordEvent
  <2>2. doneBy(controls, e.controlId, e.actor, e.action)
    BY <1>1 DEF EmergencyInv
  <2>3. e \in [controlId : ControlIds, actor : Staff, action : {"ACTIVATED", "LIFTED"}]
    BY <1>1, <2>1 DEF EmergencyInv, EmergencyTypes
  <2> HIDE DEF e
  <2>4. EmergencyTypes'
    BY <1>1, <2>1, <2>3 DEF EmergencyInv, EmergencyTypes
  <2>5. \A f \in trail' : doneBy(controls', f.controlId, f.actor, f.action)
    BY <1>1, <2>1, <2>2 DEF EmergencyInv
  <2>6. \A q \in Staff :
          handling'[q] # None => doneBy(controls', handling'[q].id, q, handling'[q].doing)
    BY <1>1 DEF EmergencyInv, EmergencyTypes
  <2> QED
    BY <2>4, <2>5, <2>6 DEF EmergencyInv
<1> QED
  BY <1>2, <1>3 DEF DieHandling

LEMMA EmergencyInvariance == EmergencySpec => []EmergencyInv
<1>1. EmergencyInit => EmergencyInv
  BY DEF EmergencyInit, EmergencyInv, EmergencyTypes
<1>2. EmergencyInv /\ [EmergencyNext]_emergencyVars => EmergencyInv'
  <2> SUFFICES ASSUME EmergencyInv, [EmergencyNext]_emergencyVars PROVE EmergencyInv'
    OBVIOUS
  <2>1. ASSUME NEW s \in Submitters,
               SubmitOperation(s) \/ \E o : AssertAllowed(s, o)
        PROVE  EmergencyInv'
    BY <2>1 DEF SubmitOperation, AssertAllowed, EmergencyInv, EmergencyTypes
  <2>2. CASE UNCHANGED emergencyVars
    BY <2>2 DEF emergencyVars, EmergencyInv, EmergencyTypes
  <2> QED
    BY <2>1, <2>2, EmergencyActivates, EmergencyLifts, EmergencyRecords
       DEF EmergencyNext
<1> QED
  BY <1>1, <1>2, PTL DEF EmergencySpec

\* The audit events of a control name whoever did it, also when several
\* administrators lift it at once.
THEOREM TrailCorrect == EmergencySpec => []TrailIsTrue
<1>1. EmergencyInv => TrailIsTrue
  BY DEF EmergencyInv, doneBy, TrailIsTrue
<1> QED
  BY <1>1, EmergencyInvariance, PTL
-----------------------------------------------------------------------------
\* The audit trail.
Appending ==
  [ at : {"lock", "select", "insert"}, chain : Chains, id : AuditIds,
    last : AuditRecord \cup {None} ]

AuditTypes ==
  /\ audit \in [Chains -> Seq(AuditRecord)]
  /\ recording \in [Recorders -> Appending \cup {None}]

\* Transaction r holds the lock of its chain.
holdsLock(r) == recording[r] # None /\ recording[r].at # "lock"

\* The last record of a chain.
lastOf(chain) == IF chain = <<>> THEN None ELSE chain[Len(chain)]

\* The lock is held by one transaction, so that what it selected is still the
\* last record when it inserts.
AuditInv ==
  /\ AuditTypes
  /\ \A t \in Chains : verified(audit[t])
  /\ refused = {}
  /\ \A q, r \in Recorders :
       holdsLock(q) /\ holdsLock(r) /\ recording[q].chain = recording[r].chain => q = r
  /\ \A r \in Recorders :
       recording[r] # None /\ recording[r].at = "insert" =>
         recording[r].last = lastOf(audit[recording[r].chain])

\* The record that follows last has the next sequence, which the chain does
\* not have, and the chain stays verified with it.
LEMMA ChainGrows ==
  ASSUME NEW chain \in Seq(AuditRecord), verified(chain), NEW i \in AuditIds,
         NEW n,
         n = [ id |-> i,
               sequence |-> IF lastOf(chain) = None THEN 0
                            ELSE lastOf(chain).sequence + 1,
               previousHash |-> IF lastOf(chain) = None THEN None
                                ELSE lastOf(chain).id ]
  PROVE  /\ Append(chain, n) \in Seq(AuditRecord) /\ verified(Append(chain, n))
         /\ \A k \in DOMAIN chain : chain[k].sequence # n.sequence
<1>1. PICK L \in Nat : L = Len(chain) /\ DOMAIN chain = 1..L
  OBVIOUS
<1>2. \A k \in 1..L : chain[k] \in AuditRecord /\ chain[k] # None
  BY <1>1, ElementType, AuditConstants
<1>3. \A k \in 1..L : chain[k].sequence = k - 1
  BY <1>1 DEF verified
<1>4. /\ L = 0 => lastOf(chain) = None
      /\ L # 0 => lastOf(chain) = chain[L] /\ lastOf(chain) # None
  BY <1>1, <1>2 DEF lastOf
<1>5. /\ n.sequence = L /\ n.id = i
      /\ n.previousHash = IF L = 0 THEN None ELSE chain[L].id
  <2>1. CASE L = 0
    BY <1>4, <2>1
  <2>2. CASE L # 0
    BY <1>3, <1>4, <2>2
  <2> QED
    BY <2>1, <2>2
<1>6. n \in AuditRecord
  <2>1. n.previousHash \in AuditIds \cup {None}
    BY <1>2, <1>5 DEF AuditRecord
  <2>2. n = [id |-> i, sequence |-> L, previousHash |-> n.previousHash]
    BY <1>5
  <2> QED
    BY <2>1, <2>2 DEF AuditRecord
<1> DEFINE f == Append(chain, n)
<1>7. /\ f \in Seq(AuditRecord) /\ DOMAIN f = 1..(L + 1)
      /\ \A k \in 1..L : f[k] = chain[k]
      /\ f[L + 1] = n
  BY <1>1, <1>6
<1> HIDE DEF f
<1>8. verified(f)
  <2>1. ASSUME NEW k \in 1..(L + 1)
        PROVE  /\ f[k].sequence = k - 1
               /\ f[k].previousHash = IF k = 1 THEN None ELSE f[k - 1].id
    <3>1. CASE k \in 1..L
      <4>1. /\ chain[k].sequence = k - 1
            /\ chain[k].previousHash = IF k = 1 THEN None ELSE chain[k - 1].id
        BY <1>1, <3>1 DEF verified
      <4>2. f[k] = chain[k]
        BY <1>7, <3>1
      <4>3. CASE k = 1
        BY <4>1, <4>2, <4>3
      <4>4. CASE k # 1
        <5>1. k - 1 \in 1..L
          BY <3>1, <4>4
        <5>2. f[k - 1] = chain[k - 1]
          BY <1>7, <5>1
        <5> QED
          BY <4>1, <4>2, <4>4, <5>2
      <4> QED
        BY <4>3, <4>4
    <3>2. CASE k = L + 1
      BY <1>5, <1>7, <3>2
    <3>3. k \in 1..L \/ k = L + 1
      OBVIOUS
    <3> QED
      BY <3>1, <3>2, <3>3
  <2> QED
    BY <1>7, <2>1 DEF verified
<1>9. \A k \in DOMAIN chain : chain[k].sequence # n.sequence
  BY <1>1, <1>3, <1>5
<1> QED
  BY <1>7, <1>8, <1>9 DEF f

\* A transaction goes on or ends without an insert.
LEMMA RecorderMoves ==
  ASSUME AuditInv, NEW r \in Recorders, NEW d \in Appending \cup {None},
         recording' = [recording EXCEPT ![r] = d], UNCHANGED <<audit, refused>>,
         d # None /\ d.at # "lock" =>
           \A q \in Recorders \ {r} : holdsLock(q) => recording[q].chain # d.chain,
         d # None /\ d.at = "insert" => d.last = lastOf(audit[d.chain])
  PROVE  AuditInv'
<1>1. AuditTypes'
  BY DEF AuditInv, AuditTypes
<1>2. \A q \in Recorders : recording'[q] = IF q = r THEN d ELSE recording[q]
  BY DEF AuditInv, AuditTypes
<1>3. \A p, q \in Recorders :
        holdsLock(p)' /\ holdsLock(q)' /\ recording'[p].chain = recording'[q].chain
          => p = q
  BY <1>2 DEF AuditInv, holdsLock
<1>4. \A q \in Recorders :
        recording'[q] # None /\ recording'[q].at = "insert" =>
          recording'[q].last = lastOf(audit'[recording'[q].chain])
  BY <1>2 DEF AuditInv
<1> QED
  BY <1>1, <1>3, <1>4 DEF AuditInv

\* The transaction begins, gets the lock, and selects the last record; or it
\* is rolled back.
LEMMA AuditPrepares ==
  ASSUME AuditInv, NEW r \in Recorders,
         \/ \E t \in Chains, i \in AuditIds : BeginAppend(r, t, i)
         \/ Lock(r) \/ SelectLast(r) \/ RollBack(r)
  PROVE  AuditInv'
<1>1. UNCHANGED <<audit, refused>>
  BY DEF BeginAppend, Lock, SelectLast, RollBack
<1>2. ASSUME NEW t \in Chains, NEW i \in AuditIds, BeginAppend(r, t, i)
      PROVE  AuditInv'
  <2> DEFINE d == [at |-> "lock", chain |-> t, id |-> i, last |-> None]
  <2>1. d \in Appending /\ d.at = "lock" /\ recording' = [recording EXCEPT ![r] = d]
    BY <1>2 DEF BeginAppend, Appending
  <2> HIDE DEF d
  <2> QED
    BY <1>1, <2>1, RecorderMoves
<1>3. CASE Lock(r)
  <2> DEFINE d == [recording[r] EXCEPT !.at = "select"]
  <2>1. /\ recording[r] \in Appending /\ lockIsFree(r)
        /\ recording' = [recording EXCEPT ![r] = d]
    BY <1>3 DEF Lock, AuditInv, AuditTypes
  <2>2. d \in Appending /\ d.at = "select" /\ d.chain = recording[r].chain
    BY <2>1 DEF Appending
  <2> HIDE DEF d
  <2>3. \A q \in Recorders \ {r} : holdsLock(q) => recording[q].chain # d.chain
    BY <2>1, <2>2 DEF lockIsFree, holdsLock
  <2> QED
    BY <1>1, <2>1, <2>2, <2>3, RecorderMoves
<1>4. CASE SelectLast(r)
  <2> DEFINE last == lastOf(audit[recording[r].chain])
             d == [[recording[r] EXCEPT !.at = "insert"] EXCEPT !.last = last]
  <2>1. /\ recording[r] \in Appending /\ holdsLock(r)
        /\ recording' = [recording EXCEPT ![r] = d]
    BY <1>4 DEF SelectLast, AuditInv, AuditTypes, holdsLock, lastOf
  <2>2. last \in AuditRecord \cup {None}
    <3>1. audit[recording[r].chain] \in Seq(AuditRecord)
      BY <2>1 DEF AuditInv, AuditTypes, Appending
    <3>2. ASSUME NEW s \in Seq(AuditRecord) PROVE lastOf(s) \in AuditRecord \cup {None}
      BY ElementType DEF lastOf
    <3> QED
      BY <3>1, <3>2
  <2> HIDE DEF last
  <2>3. /\ d \in Appending /\ d.at = "insert" /\ d.chain = recording[r].chain
        /\ d.last = last
    BY <2>1, <2>2 DEF Appending
  <2> HIDE DEF d
  <2>4. \A q \in Recorders \ {r} : holdsLock(q) => recording[q].chain # d.chain
    BY <2>1, <2>3 DEF AuditInv
  <2>5. d.last = lastOf(audit[d.chain])
    BY <2>3 DEF last
  <2> QED
    BY <1>1, <2>1, <2>3, <2>4, <2>5, RecorderMoves
<1>5. CASE RollBack(r)
  BY <1>1, <1>5, RecorderMoves DEF RollBack, finish
<1> QED
  BY <1>2, <1>3, <1>4, <1>5

\* The insert: only an id that is used is refused.
LEMMA AuditInserts ==
  ASSUME AuditInv, NEW r \in Recorders, InsertRecord(r)
  PROVE  AuditInv'
<1> DEFINE t == recording[r].chain
           n == newRecord(r)
<1>1. /\ recording[r] \in Appending /\ holdsLock(r) /\ t \in Chains
      /\ recording[r].id \in AuditIds
      /\ audit[t] \in Seq(AuditRecord) /\ verified(audit[t])
      /\ recording[r].last = lastOf(audit[t])
      /\ recording' = [recording EXCEPT ![r] = None]
  BY DEF InsertRecord, AuditInv, AuditTypes, Appending, holdsLock, finish
<1>2. n = [ id |-> recording[r].id,
            sequence |-> IF lastOf(audit[t]) = None THEN 0
                         ELSE lastOf(audit[t]).sequence + 1,
            previousHash |-> IF lastOf(audit[t]) = None THEN None
                             ELSE lastOf(audit[t]).id ]
  BY <1>1 DEF newRecord
<1>3. /\ Append(audit[t], n) \in Seq(AuditRecord) /\ verified(Append(audit[t], n))
      /\ \A k \in DOMAIN audit[t] : audit[t][k].sequence # n.sequence
  <2> HIDE DEF n, t
  <2> QED
    BY <1>1, <1>2, ChainGrows
<1>4. CASE ~insertAdmitted(r)
  <2>1. idIsUsed(r)
    BY <1>3, <1>4 DEF insertAdmitted
  <2>2. UNCHANGED <<audit, refused>>
    BY <1>4, <2>1 DEF InsertRecord
  <2> QED
    BY <1>1, <2>2, RecorderMoves
<1>5. CASE insertAdmitted(r)
  <2>1. audit' = [audit EXCEPT ![t] = Append(audit[t], n)] /\ UNCHANGED refused
    BY <1>5 DEF InsertRecord
  <2> HIDE DEF n
  <2>2. AuditTypes'
    BY <1>1, <1>3, <2>1 DEF AuditInv, AuditTypes
  <2>3. \A s \in Chains : verified(audit'[s])
    BY <1>1, <1>3, <2>1 DEF AuditInv, AuditTypes
  <2>4. \A q \in Recorders : recording'[q] = IF q = r THEN None ELSE recording[q]
    BY <1>1 DEF AuditInv, AuditTypes
  <2>5. \A p, q \in Recorders :
          holdsLock(p)' /\ holdsLock(q)' /\ recording'[p].chain = recording'[q].chain
            => p = q
    BY <2>4 DEF AuditInv, holdsLock
  <2>6. ASSUME NEW q \in Recorders, recording'[q] # None, recording'[q].at = "insert"
        PROVE  recording'[q].last = lastOf(audit'[recording'[q].chain])
    <3>1. q # r /\ recording'[q] = recording[q] /\ recording[q] \in Appending
      BY <2>4, <2>6 DEF AuditInv, AuditTypes
    <3>2. recording[q].chain # t /\ recording[q].chain \in Chains
      BY <1>1, <2>6, <3>1 DEF AuditInv, holdsLock, Appending
    <3>3. audit'[recording[q].chain] = audit[recording[q].chain]
      BY <2>1, <3>2 DEF AuditInv, AuditTypes
    <3> QED
      BY <2>6, <3>1, <3>3 DEF AuditInv
  <2> QED
    BY <2>1, <2>2, <2>3, <2>5, <2>6 DEF AuditInv
<1> QED
  BY <1>4, <1>5

LEMMA AuditInvariance == AuditSpec => []AuditInv
<1>1. AuditInit => AuditInv
  <2> SUFFICES ASSUME AuditInit PROVE AuditInv
    OBVIOUS
  <2>1. AuditTypes
    BY DEF AuditInit, AuditTypes
  <2> QED
    BY <2>1 DEF AuditInit, AuditInv, verified, holdsLock
<1>2. AuditInv /\ [AuditNext]_auditVars => AuditInv'
  <2> SUFFICES ASSUME AuditInv, [AuditNext]_auditVars PROVE AuditInv'
    OBVIOUS
  <2>1. CASE UNCHANGED auditVars
    BY <2>1 DEF auditVars, AuditInv, AuditTypes, holdsLock
  <2> QED
    BY <2>1, AuditPrepares, AuditInserts DEF AuditNext
<1> QED
  BY <1>1, <1>2, PTL DEF AuditSpec

\* Every chain verifies at every moment, and no record is turned away because
\* another was appended at the same time.
THEOREM AuditCorrect == AuditSpec => []HistoryIsWhole
<1>1. AuditInv => HistoryIsWhole
  BY DEF AuditInv, HistoryIsWhole
<1> QED
  BY <1>1, AuditInvariance, PTL
=============================================================================
