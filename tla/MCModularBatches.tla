--------------------------- MODULE MCModularBatches ---------------------------
(***************************************************************************)
(* Small instances of ModularBatches for TLC.                              *)
(***************************************************************************)
EXTENDS ModularBatches
=============================================================================
