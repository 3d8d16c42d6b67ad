------------------------- MODULE MCTransactionEngine -------------------------
(***************************************************************************)
(* A small instance of the transaction engine for TLC: one operation, two  *)
(* callers that send every command over the first levels of the graph.     *)
(***************************************************************************)
EXTENDS TransactionEngine, TLC

CONSTANTS o1, c1, c2, k0, k1, k2, a1, r1, r2

MCOps == {o1}
MCClients == {c1, c2}
MCKeys == {k0, k1, k2}
MCTargets == {"POLICY_CHECKED", "POLICY_REJECTED", "SOURCE_PREPARING",
              "EXPIRED"}
MCVersions == 0..2
MCAttemptKeys == {a1}
MCAttempts == {r1, r2}

\* Callers and attempt contents are interchangeable, and so are the keys
\* other than the key of the creation.
Symmetry ==
  Permutations(MCClients) \cup Permutations({k1, k2})
    \cup Permutations(MCAttempts)
=============================================================================
