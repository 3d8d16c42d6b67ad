---------------------------- MODULE OperationLog ----------------------------
(***************************************************************************)
(* What the durable transaction engine promises, with no clients, keys,    *)
(* versions or tables: every bridge operation is a log of states that      *)
(* starts with CREATED and grows by one legal transition at a time.        *)
(* A stale reader, a duplicate command or a lost reply never shows here.   *)
(***************************************************************************)
EXTENDS Sequences, BridgeStates

CONSTANT Ops

VARIABLE log    \* log[o]: the states operation o went through, oldest first

Init == log = [o \in Ops |-> <<>>]

Create(o) ==
  /\ log[o] = <<>>
  /\ log' = [log EXCEPT ![o] = <<"CREATED">>]

Advance(o, to) ==
  /\ log[o] # <<>>
  /\ canTransition(log[o][Len(log[o])], to)
  /\ log' = [log EXCEPT ![o] = Append(log[o], to)]

Next == \E o \in Ops : Create(o) \/ \E to \in BridgeState : Advance(o, to)

Spec == Init /\ [][Next]_log
=============================================================================
