---------------------------- MODULE EventIndexer ----------------------------
(***************************************************************************)
(* CheckpointedEventProcessor.process over PostgresDomainEventStore        *)
(* (packages/core/src/domain-events.ts): processes with one indexer id     *)
(* read the ledger's events, normalize and ingest them, and advance a      *)
(* shared checkpoint after each one.                                       *)
(*                                                                         *)
(* saveCheckpoint selects the row FOR UPDATE and then upserts it.  While   *)
(* the row does not exist the select locks nothing, so that the two        *)
(* statements are separate steps (SaveSelect, SaveUpsert); once it exists  *)
(* the lock makes them one.                                                *)
(***************************************************************************)
EXTENDS Undefined, Naturals, Sequences

CONSTANTS
  Workers,     \* processes with the one indexer id and network
  Keys,        \* source event keys
  items,       \* the ledger: items[n] is the event with sequence n
  MaxCrashes   \* bound of the number of crashes

Observation == {"CANONICAL", "REMOVED"}

\* An event the decoder does not know has the key None.
ASSUME IndexerConstants ==
  /\ items \in Seq([key : Keys \cup {None}, observation : Observation])
  /\ MaxCrashes \in Nat
  /\ None \notin Keys \cup Observation

VARIABLES
  published,   \* how many events the ledger has
  events,      \* normalized_events, by source event key
  checkpoint,  \* the stored sequence; 0 while there is no row
  pc,          \* where each worker's process() stands
  batch,       \* how many events the worker was given
  position,    \* the sequence of the item the worker is at
  held,        \* the checkpoint the worker holds in memory
  crashes,     \* how often a process died
  highest      \* history: the highest checkpoint that was ever stored

worker == <<pc, batch, position, held>>
vars == <<published, events, checkpoint, worker, crashes, highest>>

Init ==
  /\ published = 0
  /\ events = [k \in Keys |-> None]
  /\ checkpoint = 0
  /\ pc = [w \in Workers |-> "idle"]
  /\ batch = [w \in Workers |-> 0]
  /\ position = [w \in Workers |-> 0]
  /\ held = [w \in Workers |-> 0]
  /\ crashes = 0
  /\ highest = 0

\* process() ends, by returning or by throwing.
Stop(w) ==
  /\ pc' = [pc EXCEPT ![w] = "idle"]
  /\ batch' = [batch EXCEPT ![w] = 0]
  /\ position' = [position EXCEPT ![w] = 0]
  /\ held' = [held EXCEPT ![w] = 0]
-----------------------------------------------------------------------------
\* External: the ledger emits its next event.
Publish ==
  /\ published < Len(items)
  /\ published' = published + 1
  /\ UNCHANGED <<events, checkpoint, worker, crashes, highest>>

\* process: the worker has read the events so far and loads the checkpoint.
Load(w) ==
  /\ pc[w] = "idle"
  /\ checkpoint < published
  /\ held' = [held EXCEPT ![w] = checkpoint]
  /\ batch' = [batch EXCEPT ![w] = published]
  /\ position' = [position EXCEPT ![w] = 1]
  /\ pc' = [pc EXCEPT ![w] = "loop"]
  /\ UNCHANGED <<published, events, checkpoint, crashes, highest>>

\* An item at or below the checkpoint is passed over.
Skip(w) ==
  /\ pc[w] = "loop"
  /\ position[w] <= batch[w]
  /\ position[w] <= held[w]
  /\ position' = [position EXCEPT ![w] = @ + 1]
  /\ UNCHANGED <<published, events, checkpoint, pc, batch, held, crashes, highest>>

\* Mutant: the checkpoint is advanced first, and the event written later.
IngestLater(w) ==
  /\ pc[w] = "loop"
  /\ position[w] <= batch[w]
  /\ position[w] > held[w]
  /\ pc' = [pc EXCEPT ![w] = "save"]
  /\ UNCHANGED <<published, events, checkpoint, batch, position, held, crashes,
                 highest>>

\* normalize and ingest: ON CONFLICT DO NOTHING keeps the first event of a
\* source key.  An event that is not decoded is only checkpointed.
Ingest(w) ==
  LET item == items[position[w]] IN
  /\ pc[w] = "loop"
  /\ position[w] <= batch[w]
  /\ position[w] > held[w]
  /\ events' = IF item.key # None /\ events[item.key] = None
                 THEN [events EXCEPT ![item.key] = item.observation]
                 ELSE events
  /\ pc' = [pc EXCEPT ![w] = "save"]
  /\ UNCHANGED <<published, checkpoint, batch, position, held, crashes, highest>>

\* The upsert took place: the next item.
Saved(w) ==
  /\ checkpoint' = position[w]
  /\ highest' = IF position[w] > highest THEN position[w] ELSE highest
  /\ held' = [held EXCEPT ![w] = position[w]]
  /\ position' = [position EXCEPT ![w] = @ + 1]
  /\ pc' = [pc EXCEPT ![w] = "loop"]
  /\ UNCHANGED <<published, events, batch, crashes>>

\* The two checks of saveCheckpoint.  A worker that held no checkpoint
\* passes no expected sequence.
saveAdmits(w) ==
  /\ held[w] # 0 => held[w] = checkpoint
  /\ position[w] >= checkpoint

\* saveCheckpoint with an existing row: locked, checked and updated.
Save(w) ==
  /\ pc[w] = "save"
  /\ checkpoint # 0
  /\ \/ saveAdmits(w) /\ Saved(w)
     \/ /\ ~saveAdmits(w)
        /\ Stop(w)
        /\ UNCHANGED <<published, events, checkpoint, crashes, highest>>

\* saveCheckpoint without a row: nothing is locked between the statements.
SaveSelect(w) ==
  /\ pc[w] = "save"
  /\ checkpoint = 0
  /\ pc' = [pc EXCEPT ![w] = "upsert"]
  /\ UNCHANGED <<published, events, checkpoint, batch, position, held, crashes,
                 highest>>

SaveUpsert(w) ==
  /\ pc[w] = "upsert"
  /\ Saved(w)

Return(w) ==
  /\ pc[w] = "loop"
  /\ position[w] > batch[w]
  /\ Stop(w)
  /\ UNCHANGED <<published, events, checkpoint, crashes, highest>>

Crash(w) ==
  /\ pc[w] # "idle"
  /\ crashes < MaxCrashes
  /\ crashes' = crashes + 1
  /\ Stop(w)
  /\ UNCHANGED <<published, events, checkpoint, highest>>

Process(w) ==
  \/ Load(w) \/ Skip(w) \/ Ingest(w) \/ Save(w) \/ SaveSelect(w)
  \/ SaveUpsert(w) \/ Return(w)

Next == Publish \/ \E w \in Workers : Process(w) \/ Crash(w)

Spec == Init /\ [][Next]_vars
-----------------------------------------------------------------------------
\* Types; a worker is at an item of its batch, or just behind it.
TypeOK ==
  /\ published \in 0..Len(items)
  /\ events \in [Keys -> Observation \cup {None}]
  /\ checkpoint \in 0..Len(items) /\ highest \in 0..Len(items)
  /\ pc \in [Workers -> {"idle", "loop", "save", "upsert"}]
  /\ batch \in [Workers -> 0..Len(items)]
  /\ position \in [Workers -> 0..(Len(items) + 1)]
  /\ held \in [Workers -> 0..Len(items)]
  /\ crashes \in 0..MaxCrashes
  /\ \A w \in Workers :
       /\ pc[w] # "idle" => position[w] \in 1..(batch[w] + 1)
       /\ pc[w] \in {"save", "upsert"} => held[w] < position[w]

\* "Processing writes each event before advancing its checkpoint": whatever
\* the processes do, no decodable event at or below the checkpoint is
\* missing from the store, so that a restart loses nothing.
NothingSkipped ==
  \A n \in 1..checkpoint : items[n].key # None => events[items[n].key] # None

\* The indexer catches up with the ledger and stays there.
EventuallyIndexed == <>[](checkpoint = published)

\* "Each indexer/network pair stores a monotonically increasing checkpoint"
\* (ADR 0011).
CheckpointNeverDecreases == checkpoint = highest

\* "Removed logs retain the same identity with REMOVED observation" (ADR
\* 0011): once the indexer has passed the removal of a log, the store says
\* that the log was removed.
RemovalsAreStored ==
  \A n \in 1..checkpoint :
    items[n].key # None /\ items[n].observation = "REMOVED"
      => events[items[n].key] = "REMOVED"
=============================================================================
