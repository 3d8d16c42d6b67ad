---------------------------- MODULE SupplyLedger ----------------------------
(***************************************************************************)
(* SupplyInvariantLedger over PostgresSupplyEffectStore                    *)
(* (packages/core/src/supply-invariants.ts, sql/006_supply_effects.sql):   *)
(* the append-only ledger of finalized locks, mints, burns and releases.   *)
(*                                                                         *)
(* appendValidated is one database transaction of several statements: it   *)
(* takes the advisory lock of the asset and its representation, reads the  *)
(* effects of that asset (Select), and validates and inserts (Insert).     *)
(* Writers of other assets interleave with it, and the primary key         *)
(* (operation_id, effect) is the only thing they share.                    *)
(***************************************************************************)
EXTENDS Undefined, Integers, FiniteSetsExt

CONSTANTS
  Writers,    \* concurrent callers of record()
  Ops,        \* bridge operation ids
  Assets,     \* pairs of an asset and one of its representations
  Amounts,    \* atomic amounts (positive, by assertRecord)
  Evidence,   \* evidence ids, with the finality timestamp
  Layouts,    \* orders of the keys of a record as a caller builds it
  jsonb       \* the order in which a jsonb column returns the keys

SupplyEffect == {"LOCK", "MINT", "BURN", "RELEASE"}

SupplyEffectRecord ==
  [ operationId : Ops, effect : SupplyEffect, asset : Assets,
    amount : Amounts, evidence : Evidence ]

ASSUME SupplyConstants ==
  /\ Amounts \subseteq Nat \ {0}
  /\ jsonb \in Layouts
  /\ None \notin SupplyEffectRecord \cup Writers

VARIABLES
  rows,      \* the table supply_effects
  lock,      \* the writer that holds each asset's advisory lock
  offered,   \* the record a writer is about to append
  selected,  \* the effects of the asset that the writer read
  accepted,  \* history: records answered INSERTED or DUPLICATE
  refused    \* history: the stored record itself was refused as a reuse of
             \* its key with different evidence

ledgerVars == <<rows, lock, offered, selected, accepted, refused>>

LedgerInit ==
  /\ rows = {}
  /\ lock = [a \in Assets |-> None]
  /\ offered = [w \in Writers |-> None]
  /\ selected = [w \in Writers |-> {}]
  /\ accepted = {}
  /\ refused = FALSE

of(a) == {r \in rows : r.asset = a}

sameKey(r, s) == r.operationId = s.operationId /\ r.effect = s.effect

total(records, effect) ==
  MapThenSumSet(LAMBDA r : r.amount, {r \in records : r.effect = effect})

\* assess: the outcome is VALID.  The records of one asset hold no operation
\* and effect twice (OneEffectPerOperation).
assess(records) ==
  LET locked   == total(records, "LOCK")
      minted   == total(records, "MINT")
      burned   == total(records, "BURN")
      released == total(records, "RELEASE")
  IN  /\ minted <= locked
      /\ burned <= minted
      /\ released <= burned
      /\ released <= locked
      /\ minted - burned <= locked - released

\* The transaction of writer w ends, and its lock is released with it.
EndTransaction(w) ==
  /\ lock' = [lock EXCEPT ![offered[w].asset] = None]
  /\ offered' = [offered EXCEPT ![w] = None]
  /\ selected' = [selected EXCEPT ![w] = {}]
-----------------------------------------------------------------------------
\* Mutant: the advisory lock is not taken.
lockIsFreeAlways(a) == TRUE

lockIsFree(a) == lock[a] = None

\* pg_advisory_xact_lock and the SELECT of the asset's effects.
Select(w, r) ==
  /\ offered[w] = None
  /\ lockIsFree(r.asset)
  /\ lock' = [lock EXCEPT ![r.asset] = w]
  /\ offered' = [offered EXCEPT ![w] = r]
  /\ selected' = [selected EXCEPT ![w] = of(r.asset)]
  /\ UNCHANGED <<rows, accepted, refused>>

\* Mutant: a prior effect of the operation is an answer whatever it says.
identicalByKey(s, r, l) == TRUE

\* The comparison of the two JSON texts: the content has to agree, and the
\* caller's record r, whose keys are in order l, has to list them in the
\* order in which the column returns them.
identical(s, r, l) == s = r /\ l = jsonb

\* A prior record of the same operation and effect answers the call.
AnswerPrior(w, l) ==
  /\ offered[w] # None
  /\ \E s \in selected[w] :
       /\ sameKey(s, offered[w])
       /\ IF identical(s, offered[w], l)
            THEN accepted' = accepted \cup {offered[w]} /\ UNCHANGED refused
            ELSE refused' = (refused \/ s = offered[w]) /\ UNCHANGED accepted
  /\ EndTransaction(w)
  /\ UNCHANGED rows

\* Mutant: the table has no primary key.
insertAdmitsAny(r) == TRUE

\* The primary key of the table, over all assets.
insertAdmits(r) == \A s \in rows : ~sameKey(s, r)

\* No prior record: the candidate is assessed and inserted.  A violation
\* and a key that another asset uses roll the transaction back.
Insert(w) ==
  /\ offered[w] # None
  /\ \A s \in selected[w] : ~sameKey(s, offered[w])
  /\ IF assess(selected[w] \cup {offered[w]}) /\ insertAdmits(offered[w])
       THEN /\ rows' = rows \cup {offered[w]}
            /\ accepted' = accepted \cup {offered[w]}
       ELSE UNCHANGED <<rows, accepted>>
  /\ EndTransaction(w)
  /\ UNCHANGED refused

\* The writer dies, or the database does: the transaction rolls back.
WriterCrash(w) ==
  /\ offered[w] # None
  /\ EndTransaction(w)
  /\ UNCHANGED <<rows, accepted, refused>>

LedgerNext ==
  \E w \in Writers :
    \/ \E r \in SupplyEffectRecord : Select(w, r)
    \/ \E l \in Layouts : AnswerPrior(w, l)
    \/ Insert(w)
    \/ WriterCrash(w)

LedgerSpec == LedgerInit /\ [][LedgerNext]_ledgerVars
-----------------------------------------------------------------------------
\* Types; a writer holds exactly the lock of the asset it works on, and has
\* read something only while it does.
LedgerTypeOK ==
  /\ rows \subseteq SupplyEffectRecord
  /\ lock \in [Assets -> Writers \cup {None}]
  /\ offered \in [Writers -> SupplyEffectRecord \cup {None}]
  /\ selected \in [Writers -> SUBSET SupplyEffectRecord]
  /\ accepted \subseteq SupplyEffectRecord
  /\ refused \in BOOLEAN
  /\ \A w \in Writers : offered[w] = None => selected[w] = {}

\* For every asset with recorded effects, whatever writers do at the same
\* time: no more is minted than locked, burned than minted, released than
\* burned, and circulating supply never exceeds the backing.
SupplyIsBacked ==
  \A a \in {r.asset : r \in rows} :
    LET sum(effect) == total(of(a), effect) IN
    /\ sum("MINT") <= sum("LOCK")
    /\ sum("BURN") <= sum("MINT")
    /\ sum("RELEASE") <= sum("BURN")
    /\ sum("MINT") - sum("BURN") <= sum("LOCK") - sum("RELEASE")

\* An operation contributes each effect once, over all assets.
OneEffectPerOperation ==
  \A r, s \in rows : sameKey(r, s) => r = s

\* A caller that was answered INSERTED or DUPLICATE finds exactly its record
\* in the ledger, for ever.
AcceptedIsStored == accepted \subseteq rows

\* "Identical retries are idempotent" (ADR 0020): a record is not refused
\* as a reuse with different evidence when it is the one that is stored.
IdenticalRetryAccepted == ~refused
=============================================================================
