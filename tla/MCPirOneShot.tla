---------------------------- MODULE MCPirOneShot ----------------------------
(***************************************************************************)
(* Small instances of PirOneShot for TLC.                                  *)
(***************************************************************************)
EXTENDS PirOneShot

MCIndices == -1 .. NumEntries

MCNoVectors == {}
=============================================================================
