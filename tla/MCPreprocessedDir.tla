-------------------------- MODULE MCPreprocessedDir --------------------------
(***************************************************************************)
(* Small instances of PreprocessedDir for TLC.                             *)
(***************************************************************************)
EXTENDS PreprocessedDir

CONSTANTS g1, g2, g3, s1, s2

\* Two generations under one seed, and one under another.
MCSeedOf == [gen \in Generations |-> IF gen = g3 THEN s2 ELSE s1]
=============================================================================
