------------------------ MODULE SameNetworkSettlement ------------------------
(***************************************************************************)
(* SameNetworkSettlementService.execute over PostgresSameNetworkSettlement- *)
(* Store (packages/core/src/same-network-settlement.ts): both legs of a    *)
(* settlement commit in one native transaction.  The claim, the expiry     *)
(* test, the native call and the finish are separate steps of several      *)
(* processes; an IN_PROGRESS claim is not exclusive, so that a restarted   *)
(* process resumes it and two processes may work on it at once.            *)
(*                                                                         *)
(* The native executor is external.                                        *)
(***************************************************************************)
EXTENDS Undefined, Naturals

CONSTANTS
  Workers,     \* processes that execute the settlement
  Requests,    \* contents sent under the one settlement id
  expiresAt,   \* expiresAt of each of them
  MaxTime,     \* bound of the clock
  MaxCrashes   \* bound of the number of crashes and malformed results

Outcome == {"COMMITTED", "ALREADY_COMMITTED", "REJECTED", "UNCERTAIN"}
Status == {"IN_PROGRESS", "COMPLETED", "FAILED", "MANUAL_REVIEW"}

ASSUME SettlementConstants ==
  /\ expiresAt \in [Requests -> Nat]
  /\ MaxTime \in Nat /\ MaxCrashes \in Nat
  /\ None \notin Requests

VARIABLES
  record,     \* the row of same_network_settlements: request, status, outcome
  committed,  \* external: the requests the ledger executed
  now,        \* the clock
  crashes,    \* how often a process died
  pc,         \* where each worker's execute() stands
  mine,       \* the content each worker was called with
  result,     \* the outcome a worker is about to record
  returned    \* history: the statuses callers were answered with

worker == <<pc, mine, result>>
vars == <<record, committed, now, crashes, worker, returned>>

Unclaimed == [request |-> None, status |-> "NONE", outcome |-> "NONE"]

Init ==
  /\ record = Unclaimed
  /\ committed = {}
  /\ now = 0
  /\ crashes = 0
  /\ pc = [w \in Workers |-> "idle"]
  /\ mine = [w \in Workers |-> None]
  /\ result = [w \in Workers |-> "NONE"]
  /\ returned = {}

Stop(w) ==
  /\ pc' = [pc EXCEPT ![w] = "idle"]
  /\ mine' = [mine EXCEPT ![w] = None]
  /\ result' = [result EXCEPT ![w] = "NONE"]

\* Mutant: the claim of other content is taken over.
claimAdmitsAny(r) == TRUE

\* The request hash of the claim.
claimAdmits(r) == record.request = r

\* store.claim: inserted once.  CONFLICT leaves no trace; an IN_PROGRESS
\* claim of the same content is resumed.
Claim(w, r) ==
  /\ pc[w] = "idle"
  /\ \/ /\ record = Unclaimed
        /\ record' = [request |-> r, status |-> "IN_PROGRESS", outcome |-> "NONE"]
     \/ /\ record # Unclaimed
        /\ claimAdmits(r)
        /\ record.status = "IN_PROGRESS"
        /\ UNCHANGED record
  /\ pc' = [pc EXCEPT ![w] = "claimed"]
  /\ mine' = [mine EXCEPT ![w] = r]
  /\ UNCHANGED <<committed, now, crashes, result, returned>>

ended == record.status \in Status \ {"IN_PROGRESS"}

\* A claim of a settlement that has ended is answered with its record.
Replay(w, r) ==
  /\ pc[w] = "idle"
  /\ claimAdmits(r)
  /\ ended
  /\ returned' = returned \cup {record.status}
  /\ UNCHANGED <<record, committed, now, crashes, worker>>

\* The expiry test after the claim.
CheckExpiry(w) ==
  /\ pc[w] = "claimed"
  /\ IF now >= expiresAt[mine[w]]
       THEN /\ result' = [result EXCEPT ![w] = "REJECTED"]
            /\ pc' = [pc EXCEPT ![w] = "finish"]
       ELSE /\ pc' = [pc EXCEPT ![w] = "call"]
            /\ UNCHANGED result
  /\ UNCHANGED <<record, committed, now, crashes, mine, returned>>

\* External: the executor runs both legs in one transaction, deduplicates by
\* settlement id, and rejects only what it did not commit.  An exception is
\* UNCERTAIN, and so may be a call that took effect.
mayAnswer(outcome, before, after) ==
  CASE outcome = "COMMITTED" -> before = {} /\ after # {}
    [] outcome = "ALREADY_COMMITTED" -> before # {} /\ after = before
    [] outcome = "REJECTED" -> before = {} /\ after = {}
    [] outcome = "UNCERTAIN" -> TRUE

\* executeAtomically.
ExecuteAtomically(w) ==
  /\ pc[w] = "call"
  /\ committed' \in {committed, IF committed = {} THEN {mine[w]} ELSE committed}
  /\ \E outcome \in Outcome :
       /\ mayAnswer(outcome, committed, committed')
       /\ result' = [result EXCEPT ![w] = outcome]
  /\ pc' = [pc EXCEPT ![w] = "finish"]
  /\ UNCHANGED <<record, now, crashes, mine, returned>>

\* Mutant: an uncertain submission is left open, to be tried again.
statusOfRetries(outcome) ==
  CASE outcome \in {"COMMITTED", "ALREADY_COMMITTED"} -> "COMPLETED"
    [] outcome = "REJECTED" -> "FAILED"
    [] OTHER -> "IN_PROGRESS"

statusOf(outcome) ==
  CASE outcome \in {"COMMITTED", "ALREADY_COMMITTED"} -> "COMPLETED"
    [] outcome = "REJECTED" -> "FAILED"
    [] OTHER -> "MANUAL_REVIEW"

\* Mutant: finish overwrites a settlement that has ended.
FinishOverwrites(w) ==
  /\ pc[w] = "finish"
  /\ record.request = mine[w]
  /\ record' = [record EXCEPT !.status = statusOf(result[w]),
                              !.outcome = result[w]]
  /\ returned' \in {returned, returned \cup {record'.status}}
  /\ Stop(w)
  /\ UNCHANGED <<committed, now, crashes>>

\* store.finish, with the row locked: a claim of other content is a
\* CONFLICT, and a settlement that has ended is returned as it is.  The
\* answer may be lost.
Finish(w) ==
  /\ pc[w] = "finish"
  /\ \/ /\ record.request # mine[w]
        /\ UNCHANGED <<record, returned>>
     \/ /\ record.request = mine[w]
        /\ record' = IF ended THEN record
                              ELSE [record EXCEPT !.status = statusOf(result[w]),
                                                  !.outcome = result[w]]
        /\ returned' \in {returned, returned \cup {record'.status}}
  /\ Stop(w)
  /\ UNCHANGED <<committed, now, crashes>>

\* The process dies, or assertResult refuses what the executor returned.
Crash(w) ==
  /\ pc[w] # "idle"
  /\ crashes < MaxCrashes
  /\ crashes' = crashes + 1
  /\ Stop(w)
  /\ UNCHANGED <<record, committed, now, returned>>

Tick ==
  /\ now < MaxTime
  /\ now' = now + 1
  /\ UNCHANGED <<record, committed, crashes, worker, returned>>

Execute(w) ==
  \/ \E r \in Requests : Claim(w, r) \/ Replay(w, r)
  \/ CheckExpiry(w) \/ ExecuteAtomically(w) \/ Finish(w)

Next == Tick \/ \E w \in Workers : Execute(w) \/ Crash(w)

Spec == Init /\ [][Next]_vars
-----------------------------------------------------------------------------
\* Types; a worker has a result exactly while it is about to record it.
TypeOK ==
  /\ record \in [ request : Requests \cup {None}, status : Status \cup {"NONE"},
                  outcome : Outcome \cup {"NONE"} ]
  /\ record.request = None <=> record.status = "NONE"
  /\ committed \subseteq Requests
  /\ now \in 0..MaxTime /\ crashes \in 0..MaxCrashes
  /\ pc \in [Workers -> {"idle", "claimed", "call", "finish"}]
  /\ mine \in [Workers -> Requests \cup {None}]
  /\ result \in [Workers -> Outcome \cup {"NONE"}]
  /\ returned \subseteq Status
  /\ \A w \in Workers : /\ pc[w] = "finish" <=> result[w] # "NONE"
                        /\ pc[w] = "idle" <=> mine[w] = None

\* Whatever reaches the ledger is the content that was claimed first, so
\* that a conflicting reuse of the id never executes; and COMPLETED is
\* recorded only for a settlement that the ledger committed.
CommittedAsClaimed ==
  /\ committed \subseteq {record.request}
  /\ record.status = "COMPLETED" => committed # {}

\* All callers are told the same: workers that resumed one claim may come
\* back with different results, and yet no answer is ever taken back.
OneAnswer == \A a, b \in returned : a = b

\* "Native rejection fails the settlement; uncertain submission or finality
\* requires manual review.  The service never compensates or guesses" (ADR
\* 0022): FAILED means that the ledger did not execute the settlement.
FailedIsNotCommitted == record.status = "FAILED" => committed = {}
=============================================================================
