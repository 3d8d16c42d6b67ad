--------------------------- MODULE Reconciliation ---------------------------
(***************************************************************************)
(* IndependentReconciliationService.reconcile over the Postgres store      *)
(* (packages/core/src/reconciliation-service.ts): a check reads both       *)
(* ledgers, compares the amounts, stores an immutable record and then      *)
(* degrades the asset, blocks its issuance and raises an alert, one after  *)
(* the other.  A call may die anywhere, and is repeated with the same id.  *)
(*                                                                         *)
(* The ledgers and the reader are external.  ledger counts the units that  *)
(* passed each stage of the round trip; the reader sees the source and the *)
(* destination at two moments.  The malformed snapshots and ids that the   *)
(* code refuses are left out.                                              *)
(***************************************************************************)
EXTENDS Undefined, Naturals

CONSTANTS
  Reconcilers,  \* concurrent callers of reconcile
  CheckIds,     \* ids of checks
  AssetIds,     \* assets, each with its one representation
  supply,       \* the canonical supply of each asset
  MaxDeaths     \* bound of the number of calls that die

ASSUME ReconciliationConstants ==
  /\ supply \in [AssetIds -> Nat] /\ MaxDeaths \in Nat
  /\ None \notin [assetId : AssetIds, outcome : {"MATCH", "MISMATCH"},
                  begunAfterStray : BOOLEAN]

\* The stages of a round trip, in order.
REQUESTED == 1
LOCKED == 2
MINTED == 3
BURN_REQUESTED == 4
BURNED == 5
RELEASED == 6

VARIABLES
  ledger,       \* external: the units that passed each stage, by asset
  stray,        \* external: units minted that no operation accounts for
  checks,       \* reconciliation_checks
  degraded,     \* assets degraded, each with the check that is the evidence
  blocked,      \* the same of the assets whose issuance is blocked
  alerted,      \* the same of the critical alerts
  reconciling,  \* where each caller's reconcile() stands
  deaths        \* how many calls died

ledgers == <<ledger, stray>>
measures == <<degraded, blocked, alerted>>
reconciliationVars == <<ledgers, checks, measures, reconciling, deaths>>

ReconciliationInit ==
  /\ ledger = [a \in AssetIds |-> [s \in REQUESTED..RELEASED |-> 0]]
  /\ stray = [a \in AssetIds |-> 0]
  /\ checks = [i \in CheckIds |-> None]
  /\ degraded = {} /\ blocked = {} /\ alerted = {}
  /\ reconciling = [c \in Reconcilers |-> None]
  /\ deaths = 0
-----------------------------------------------------------------------------
\* External: a unit passes a stage.
Advance(a, s) ==
  /\ ledger[a][s] < (IF s = REQUESTED THEN supply[a] ELSE ledger[a][s - 1])
  /\ ledger' = [ledger EXCEPT ![a][s] = @ + 1]
  /\ UNCHANGED <<stray, checks, measures, reconciling, deaths>>

\* External: a unit of an asset in circulation is minted that no operation
\* accounts for.
StrayMint(a) ==
  /\ stray[a] < supply[a]
  /\ stray' = [stray EXCEPT ![a] = @ + 1]
  /\ UNCHANGED <<ledger, checks, measures, reconciling, deaths>>

\* External: what the reader sees on the source network ...
sourceSnapshot(a) ==
  LET locked == ledger[a][LOCKED] - ledger[a][RELEASED]
  IN  [ canonical |-> supply[a], circulating |-> supply[a] - locked,
        locked |-> locked,
        pendingLocks |-> ledger[a][REQUESTED] - ledger[a][LOCKED] ]

\* ... and on the destination, with the completed operations.
destinationSnapshot(a) ==
  [ destination |-> (ledger[a][MINTED] + stray[a]) - ledger[a][BURNED],
    pendingBurns |-> ledger[a][BURN_REQUESTED] - ledger[a][BURNED],
    minted |-> ledger[a][MINTED], burned |-> ledger[a][BURNED],
    released |-> ledger[a][RELEASED] ]

\* Mutant: the amounts of the ledgers are compared, and the operations not.
noMismatchOfBacking(s, d) ==
  /\ s.circulating + s.locked = s.canonical
  /\ d.destination <= s.locked
  /\ s.pendingLocks <= s.canonical
  /\ d.pendingBurns <= d.destination

\* evaluate finds no mismatch.
noMismatch(s, d) ==
  /\ s.circulating + s.locked = s.canonical
  /\ d.destination <= s.locked
  /\ d.burned <= d.minted /\ d.destination = d.minted - d.burned
  /\ d.released <= d.burned
  /\ s.pendingLocks <= s.canonical
  /\ d.pendingBurns <= d.destination

goOn(c, at) == reconciling' = [reconciling EXCEPT ![c].at = at]
return(c) == reconciling' = [reconciling EXCEPT ![c] = None]

\* The first step of applySafety for a record, if it has one.
applySafety(c, record) ==
  IF record.outcome = "MISMATCH"
    THEN reconciling' = [reconciling EXCEPT ![c].at = "degrade"]
    ELSE return(c)

\* reconcile finds no record of its id and goes on to the reader, or takes
\* the measures of the record again.  With a record of another asset it
\* throws.
Reconcile(c, i, a, blockIssuance) ==
  /\ reconciling[c] = None
  /\ reconciling' = [reconciling EXCEPT ![c] =
       [ at |-> IF checks[i] = None THEN "source" ELSE "degrade", id |-> i,
         assetId |-> a, blockIssuance |-> blockIssuance,
         begunAfterStray |-> stray[a] # 0, source |-> None, record |-> None ]]
  /\ checks[i] # None => checks[i].assetId = a /\ checks[i].outcome = "MISMATCH"
  /\ UNCHANGED <<ledgers, checks, measures, deaths>>

ReadSource(c) ==
  /\ reconciling[c] # None /\ reconciling[c].at = "source"
  /\ reconciling' = [reconciling EXCEPT
       ![c].source = sourceSnapshot(reconciling[c].assetId), ![c].at = "destination"]
  /\ UNCHANGED <<ledgers, checks, measures, deaths>>

ReadDestination(c) ==
  LET call == reconciling[c]
  IN  /\ call # None /\ call.at = "destination"
      /\ reconciling' = [reconciling EXCEPT
           ![c].at = "save", ![c].source = None,
           ![c].record =
             [ assetId |-> call.assetId, begunAfterStray |-> call.begunAfterStray,
               outcome |-> IF noMismatch(call.source, destinationSnapshot(call.assetId))
                             THEN "MATCH" ELSE "MISMATCH" ]]
      /\ UNCHANGED <<ledgers, checks, measures, deaths>>

\* Mutant: a caller whose record is not the stored one goes on with it.
SaveCheckAndGoOn(c) ==
  /\ reconciling[c] # None /\ reconciling[c].at = "save"
  /\ LET call == reconciling[c]
     IN  /\ checks' = IF checks[call.id] = None
                        THEN [checks EXCEPT ![call.id] = call.record] ELSE checks
         /\ applySafety(c, call.record)
  /\ UNCHANGED <<ledgers, measures, deaths>>

\* store.save.  ON CONFLICT the call throws, and what it saw is lost.
SaveCheck(c) ==
  /\ reconciling[c] # None /\ reconciling[c].at = "save"
  /\ LET call == reconciling[c]
     IN  \/ /\ checks[call.id] = None
            /\ checks' = [checks EXCEPT ![call.id] = call.record]
            /\ applySafety(c, call.record)
         \/ checks[call.id] # None /\ UNCHANGED checks /\ return(c)
  /\ UNCHANGED <<ledgers, measures, deaths>>

evidence(c) == <<reconciling[c].assetId, reconciling[c].id>>

Degrade(c) ==
  /\ reconciling[c] # None /\ reconciling[c].at = "degrade"
  /\ degraded' = degraded \cup {evidence(c)}
  /\ goOn(c, IF reconciling[c].blockIssuance THEN "block" ELSE "alert")
  /\ UNCHANGED <<ledgers, checks, blocked, alerted, deaths>>

BlockBridgeIssuance(c) ==
  /\ reconciling[c] # None /\ reconciling[c].at = "block"
  /\ blocked' = blocked \cup {evidence(c)}
  /\ goOn(c, "alert")
  /\ UNCHANGED <<ledgers, checks, degraded, alerted, deaths>>

Alert(c) ==
  /\ reconciling[c] # None /\ reconciling[c].at = "alert"
  /\ alerted' = alerted \cup {evidence(c)}
  /\ return(c)
  /\ UNCHANGED <<ledgers, checks, degraded, blocked, deaths>>

\* The process dies, or the database, a ledger or a measure fails.
DieReconciling(c) ==
  /\ reconciling[c] # None
  /\ deaths < MaxDeaths
  /\ deaths' = deaths + 1
  /\ return(c)
  /\ UNCHANGED <<ledgers, checks, measures>>

\* A call begins or goes on.
RunCheck(c) ==
  \/ \E i \in CheckIds, a \in AssetIds, b \in BOOLEAN : Reconcile(c, i, a, b)
  \/ ReadSource(c) \/ ReadDestination(c) \/ SaveCheck(c)
  \/ Degrade(c) \/ BlockBridgeIssuance(c) \/ Alert(c)

ReconciliationNext ==
  \/ \E a \in AssetIds, s \in REQUESTED..RELEASED : Advance(a, s)
  \/ \E a \in AssetIds : StrayMint(a)
  \/ \E c \in Reconcilers : RunCheck(c) \/ DieReconciling(c)

ReconciliationSpec == ReconciliationInit /\ [][ReconciliationNext]_reconciliationVars
-----------------------------------------------------------------------------
\* A unit minted outside the bridge is found by every check that begins
\* after it, although the two ledgers are read at different moments and units
\* on their way make the locked amount larger than the destination's supply.
StrayMintIsRecorded ==
  \A i \in CheckIds : checks[i] # None =>
    (checks[i].begunAfterStray => checks[i].outcome = "MISMATCH")

\* "The service persists the mismatch first" (ADR 0021): an asset is
\* degraded, blocked and alerted about with a stored mismatch of its own as
\* the evidence, also when two calls of one id saw different snapshots.
MeasuresHaveEvidence ==
  \A e \in degraded \cup blocked \cup alerted :
    /\ checks[e[2]] # None
    /\ checks[e[2]].assetId = e[1] /\ checks[e[2]].outcome = "MISMATCH"

\* "... degradation, evidence preservation, and alerting remain mandatory"
\* (ADR 0021): a stored mismatch is acted on, however often the call dies in
\* between, when the check is repeated.
acted(i) ==
  checks[i] # None /\ checks[i].outcome = "MISMATCH"
    => <<checks[i].assetId, i>> \in degraded \cap alerted
=============================================================================
