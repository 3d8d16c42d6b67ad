------------------------------ MODULE Undefined ------------------------------
(***************************************************************************)
(* The value of a variable or field that the code leaves undefined, shared *)
(* by the components that are checked together.                            *)
(***************************************************************************)
CONSTANT None
=============================================================================
