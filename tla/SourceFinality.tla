--------------------------- MODULE SourceFinality ---------------------------
(***************************************************************************)
(* A transaction of a source network, from its submission through a ledger *)
(* adapter to the assessment of its finality: CantonAdapterClient over     *)
(* CantonGrpcTransport, EvmAdapterClient, and FinalityService              *)
(* (packages/core/src/canton-adapter.ts, canton-grpc-transport.ts,         *)
(* evm-adapter.ts, finality-service.ts).                                   *)
(*                                                                         *)
(* An EVM chain holds the transaction in one block at a time; the block is *)
(* dropped by a reorganization as long as it is neither finalized nor      *)
(* buried MaxReorg deep.  Canton commits once and for all, but a party     *)
(* may not see it.  An observation is put together from a receipt and a    *)
(* later view of the chain at one head.                                    *)
(***************************************************************************)
EXTENDS Undefined, Naturals

CONSTANTS
  Observers,   \* those who observe the transaction
  Blocks,      \* blocks, or Canton updates, that may hold the transaction
  Reverted,    \* the blocks in which it fails
  Networks,    \* configurations of the source network
  MaxDepth,    \* bound of the number of confirmations
  MaxReorg,    \* external: a block with as many confirmations stays
  MaxAttempts  \* bound of the number of submissions

FinalityOutcome == {"SATISFIED", "PENDING", "REJECTED", "UNCERTAIN"}

\* FinalityNetworkConfiguration; the policy is EVM_CONFIRMATIONS or
\* CANTON_COMPLETION as its network's type asks.
FinalityNetworkConfiguration ==
  [ networkType : {"EVM", "CANTON"}, confirmations : 1..MaxDepth,
    requireFinalizedTag : BOOLEAN, enabled : BOOLEAN ]

\* Confirmations alone are a policy only for chains that do not reorganize
\* as deep.
ASSUME FinalityConstants ==
  /\ MaxDepth \in Nat /\ MaxReorg \in 1..MaxDepth /\ MaxAttempts \in Nat
  /\ Reverted \subseteq Blocks /\ None \notin Blocks
  /\ Networks \subseteq FinalityNetworkConfiguration
  /\ \A n \in Networks : n.requireFinalizedTag \/ n.confirmations >= MaxReorg

VARIABLES
  network,     \* the configuration, which never changes
  source,      \* external: the block of the transaction, its depth, finalized
  connected,   \* the adapter has a connection
  command,     \* external: what the network knows of the command
  attempts,    \* how often it was submitted
  answer,      \* the last answer of submit
  receipt,     \* the block in the receipt that each observer was given
  assessment   \* the assessment that was stored last

submission == <<connected, command, attempts, answer>>
finalityVars == <<network, source, submission, receipt, assessment>>

Nowhere == [block |-> None, depth |-> 0, final |-> FALSE]

FinalityInit ==
  /\ network \in Networks
  /\ source = Nowhere
  /\ connected = FALSE
  /\ command = "none"
  /\ attempts = 0
  /\ answer = "none"
  /\ receipt = [o \in Observers |-> None]
  /\ assessment = None
-----------------------------------------------------------------------------
\* connect: the ledger API answers, or the provider is on the expected chain.
Connect ==
  /\ ~connected
  /\ connected' = TRUE
  /\ UNCHANGED <<network, source, command, attempts, answer, receipt, assessment>>

\* External: the codes a submission can fail with before the network knows
\* the command, and when it knows it already.
refusals ==
  IF command = "none"
    THEN {"INVALID_ARGUMENT", "PERMISSION_DENIED", "FAILED_PRECONDITION"}
    ELSE {"ALREADY_EXISTS"}

\* Mutant: every error of a submission is a rejection.
rejectsAny(code) == TRUE

\* The codes that submit turns into the answer REJECTED.  Any other error is
\* thrown.
rejects(code) ==
  code \in {"INVALID_ARGUMENT", "PERMISSION_DENIED", "FAILED_PRECONDITION",
            "ALREADY_EXISTS"}

\* #assertScope and #assertConnected.  The connection authorizes the parties
\* of the command for as long as it is there.
assertScope == connected

\* executeTransfer and submit, or submitTransaction, by a connected adapter.
\* The answer "error" is an exception; the command may have been taken.
Submit ==
  /\ assertScope
  /\ attempts < MaxAttempts
  /\ attempts' = attempts + 1
  /\ \/ /\ command = "none"
        /\ command' = "accepted"
        /\ answer' = "SUBMITTED"
     \/ \E code \in refusals :
          /\ answer' = IF rejects(code) THEN "REJECTED" ELSE "error"
          /\ UNCHANGED command
     \/ /\ command' \in {command, "accepted"}
        /\ answer' = IF rejects("DEADLINE_EXCEEDED") THEN "REJECTED" ELSE "error"
  /\ UNCHANGED <<network, source, connected, receipt, assessment>>

\* External: the transaction is executed in block b; Canton commits are final.
Include(b) ==
  /\ command = "accepted"
  /\ source = Nowhere
  /\ network.networkType = "CANTON" => b \notin Reverted
  /\ source' = [block |-> b, depth |-> 1, final |-> network.networkType = "CANTON"]
  /\ UNCHANGED <<network, submission, receipt, assessment>>

\* External: the block gains a confirmation, is finalized or is dropped.
ChainMoves ==
  /\ network.networkType = "EVM"
  /\ source.block # None
  /\ \/ /\ source.depth < MaxDepth
        /\ source' = [source EXCEPT !.depth = @ + 1]
     \/ /\ ~source.final
        /\ source' \in {[source EXCEPT !.final = TRUE]}
                       \cup (IF source.depth < MaxReorg THEN {Nowhere} ELSE {})
  /\ UNCHANGED <<network, submission, receipt, assessment>>

\* getReceipt of an observer, who keeps the block for the steps below.
GetReceipt(o) ==
  /\ receipt[o] = None
  /\ source.block # None
  /\ receipt' = [receipt EXCEPT ![o] = source.block]
  /\ UNCHANGED <<network, source, submission, assessment>>
-----------------------------------------------------------------------------
\* Mutant: finality evidence is not looked at.
evaluateEvmByReceipt(b, canonical) ==
  IF b \in Reverted THEN "REJECTED"
  ELSE IF ~canonical THEN "UNCERTAIN" ELSE "SATISFIED"

\* evaluateEvm: the receipt's status is judged before the block's.
evaluateEvm(b, canonical) ==
  CASE b \in Reverted -> "REJECTED"
    [] b \notin Reverted /\ ~canonical -> "UNCERTAIN"
    [] b \notin Reverted /\ canonical ->
         IF \/ source.depth < network.confirmations
            \/ network.requireFinalizedTag /\ ~source.final
           THEN "PENDING" ELSE "SATISFIED"

\* The status of a CantonFinalityObservation: what the party does not see is
\* UNKNOWN.
CantonStatus == {"COMMITTED", "REJECTED", "UNKNOWN"}

\* evaluateCanton; evidence is the completion offset and the update id,
\* expected the synchronizer of the policy.
evaluateCanton(status, evidence, expected) ==
  CASE status = "REJECTED" -> "REJECTED"
    [] status = "UNKNOWN" -> "PENDING"
    [] status = "COMMITTED" /\ ~evidence -> "UNCERTAIN"
    [] status = "COMMITTED" /\ evidence ->
         IF expected THEN "SATISFIED" ELSE "REJECTED"

\* assess: the outcomes that observer o can be given now.
assess(o) ==
  LET canonical == receipt[o] = source.block IN
  IF ~network.enabled THEN {"REJECTED"}
  ELSE IF network.networkType = "EVM"
    THEN {evaluateEvm(receipt[o], canonical)}
    ELSE {evaluateCanton(s, evidence, expected) :
            s \in CantonStatus, evidence \in BOOLEAN, expected \in BOOLEAN}

\* assess and store.save, which keeps the first assessment with an id.
Assess(o, outcome) ==
  /\ receipt[o] # None
  /\ outcome \in assess(o)
  /\ assessment' = [ block |-> receipt[o], canonical |-> receipt[o] = source.block,
                      outcome |-> outcome ]
  /\ receipt' = [receipt EXCEPT ![o] = None]
  /\ UNCHANGED <<network, source, submission>>

\* The steps of the network and of those who submit.
SourceMoves ==
  \/ Connect \/ Submit \/ ChainMoves
  \/ \E b \in Blocks : Include(b)

-----------------------------------------------------------------------------
\* Types; a receipt is of a block the network has had.
FinalityTypeOK ==
  /\ network \in Networks
  /\ source \in [block : Blocks \cup {None}, depth : 0..MaxDepth, final : BOOLEAN]
  /\ connected \in BOOLEAN
  /\ command \in {"none", "accepted"}
  /\ attempts \in 0..MaxAttempts
  /\ answer \in {"none", "SUBMITTED", "REJECTED", "error"}
  /\ receipt \in [Observers -> Blocks \cup {None}]
  /\ assessment \in {None} \cup
       [block : Blocks, canonical : BOOLEAN, outcome : FinalityOutcome]
  /\ source.block # None => command = "accepted"

\* A submission whose answer was lost is not answered REJECTED: a rejection
\* of the first attempt means that the network never executes the command.
\* (The retry of a command that the network has taken is rejected as a
\* duplicate, so that nothing follows from a later rejection.)
FirstRejectionIsDefinite ==
  answer = "REJECTED" /\ attempts = 1 => source.block = None

\* "Canonical hash disagreement produces UNCERTAIN, preserving reorganization
\* evidence for operator review" (ADR 0015).
DisagreementIsUncertain ==
  network.enabled /\ assessment # None /\ ~assessment.canonical
    => assessment.outcome = "UNCERTAIN"
=============================================================================
