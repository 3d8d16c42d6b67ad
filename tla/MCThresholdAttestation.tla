----------------------- MODULE MCThresholdAttestation -----------------------
(***************************************************************************)
(* A small instance for TLC: three validators of which one is faulty, a    *)
(* set of all of them and its successor, from which one has left; and a    *)
(* set that loses its threshold half-way, which must be refused.           *)
(***************************************************************************)
EXTENDS ThresholdAttestation, TLC

CONSTANTS v1, v2, v3, s1, s2, x, y

always == [from |-> 0, until |-> Never]

MCCandidates ==
  { [threshold |-> 2, interval |-> [from |-> 0, until |-> 1],
     members |-> v1 :> always @@ v2 :> always @@ v3 :> always],
    [threshold |-> 2, interval |-> [from |-> 1, until |-> Never],
     members |-> v1 :> always @@ v3 :> [from |-> 1, until |-> Never]],
    [threshold |-> 2, interval |-> [from |-> 1, until |-> Never],
     members |-> v1 :> always @@ v2 :> [from |-> 0, until |-> 2]] }

MCAttestations ==
  [content : Contents,
   interval : {[from |-> 0, until |-> 2], [from |-> 1, until |-> 3]}]

Symmetry == Permutations(SetIds) \cup Permutations(Contents)
=============================================================================
