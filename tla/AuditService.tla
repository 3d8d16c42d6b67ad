---------------------------- MODULE AuditService ----------------------------
(***************************************************************************)
(* AuditService.record over PostgresAuditStore                             *)
(* (packages/core/src/audit-service.ts): a transaction takes the advisory  *)
(* lock of the chain, selects the last record, appends a record with the   *)
(* next sequence and the hash of the last one, and commits; reconstruct    *)
(* verifies a chain.                                                       *)
(*                                                                         *)
(* A chain is a tenant's transaction id.  The hash of a record is its id,  *)
(* which no other record has.  Payloads, with the refusal of secrets, and  *)
(* categories are left out.                                                *)
(***************************************************************************)
EXTENDS Undefined, Naturals, Sequences

CONSTANTS
  Recorders,  \* concurrent callers of record
  Chains,     \* tenants' transaction ids
  AuditIds,   \* ids of audit records
  MaxCuts     \* bound of the number of transactions rolled back

\* What audit_records has of a record.
AuditRecord ==
  [id : AuditIds, sequence : Nat, previousHash : AuditIds \cup {None}]

ASSUME AuditConstants ==
  MaxCuts \in Nat /\ None \notin AuditIds /\ None \notin AuditRecord

VARIABLES
  audit,      \* audit_records of each chain, in the order of the commits
  recording,  \* what each recorder is appending, and where it stands
  cuts,       \* how many transactions were rolled back
  refused     \* history: the ids refused although no record had them

auditVars == <<audit, recording, cuts, refused>>

AuditInit ==
  /\ audit = [t \in Chains |-> <<>>]
  /\ recording = [r \in Recorders |-> None]
  /\ cuts = 0
  /\ refused = {}

records == UNION {{audit[t][n] : n \in DOMAIN audit[t]} : t \in Chains}
finish(r) == recording' = [recording EXCEPT ![r] = None]
-----------------------------------------------------------------------------
\* record: the transaction begins.
BeginAppend(r, t, i) ==
  /\ recording[r] = None
  /\ recording' = [recording EXCEPT ![r] =
       [at |-> "lock", chain |-> t, id |-> i, last |-> None]]
  /\ UNCHANGED <<audit, cuts, refused>>

\* Mutant: the chain is not locked.
lockGranted(r) == TRUE

\* pg_advisory_xact_lock: no other transaction has the chain's lock, which it
\* keeps until it ends.
lockIsFree(r) ==
  \A q \in Recorders \ {r} : recording[q] # None =>
    recording[q].at = "lock" \/ recording[q].chain # recording[r].chain

Lock(r) ==
  /\ recording[r] # None /\ recording[r].at = "lock"
  /\ lockIsFree(r)
  /\ recording' = [recording EXCEPT ![r].at = "select"]
  /\ UNCHANGED <<audit, cuts, refused>>

\* The record with the highest sequence, if there is one.
SelectLast(r) ==
  /\ recording[r] # None /\ recording[r].at = "select"
  /\ LET chain == audit[recording[r].chain]
     IN  recording' = [recording EXCEPT ![r].at = "insert",
           ![r].last = IF chain = <<>> THEN None ELSE chain[Len(chain)]]
  /\ UNCHANGED <<audit, cuts, refused>>

newRecord(r) ==
  LET last == recording[r].last
  IN  [ id |-> recording[r].id,
        sequence |-> IF last = None THEN 0 ELSE last.sequence + 1,
        previousHash |-> IF last = None THEN None ELSE last.id ]

idIsUsed(r) == \E d \in records : d.id = recording[r].id

\* The sequence is unique in its chain, and the id among all records.
insertAdmitted(r) ==
  /\ ~idIsUsed(r)
  /\ \A n \in DOMAIN audit[recording[r].chain] :
       audit[recording[r].chain][n].sequence # newRecord(r).sequence

\* The insert and the commit.  ON CONFLICT the call throws.
InsertRecord(r) ==
  /\ recording[r] # None /\ recording[r].at = "insert"
  /\ IF insertAdmitted(r)
       THEN /\ audit' = [audit EXCEPT ![recording[r].chain] =
                           Append(@, newRecord(r))]
            /\ UNCHANGED refused
       ELSE /\ refused' = IF idIsUsed(r) THEN refused
                          ELSE refused \cup {recording[r].id}
            /\ UNCHANGED audit
  /\ finish(r)
  /\ UNCHANGED cuts

\* The connection is lost: the transaction is rolled back.
RollBack(r) ==
  /\ recording[r] # None
  /\ cuts < MaxCuts
  /\ cuts' = cuts + 1
  /\ finish(r)
  /\ UNCHANGED <<audit, refused>>

AuditNext ==
  \E r \in Recorders :
    \/ \E t \in Chains, i \in AuditIds : BeginAppend(r, t, i)
    \/ Lock(r) \/ SelectLast(r) \/ InsertRecord(r) \/ RollBack(r)

AuditSpec == AuditInit /\ [][AuditNext]_auditVars
-----------------------------------------------------------------------------
\* The checks of reconstruct.
verified(chain) ==
  \A n \in DOMAIN chain :
    /\ chain[n].sequence = n - 1
    /\ chain[n].previousHash = IF n = 1 THEN None ELSE chain[n - 1].id

\* "The per-transaction hash chain is verified before reconstruction" (ADR
\* 0031): every chain passes at every moment, and no evidence is turned away
\* because another was appended at the same time.
HistoryIsWhole == (\A t \in Chains : verified(audit[t])) /\ refused = {}
=============================================================================
