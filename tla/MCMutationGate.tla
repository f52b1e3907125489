--------------------------- MODULE MCMutationGate ---------------------------
(***************************************************************************)
(* The gate for TLC.                                                       *)
(***************************************************************************)
EXTENDS MutationGate
=============================================================================
