---------------------------- MODULE MCServerStore ----------------------------
(***************************************************************************)
(* Small instances of ServerStore for TLC.                                 *)
(***************************************************************************)
EXTENDS ServerStore
=============================================================================
