---------------------------- MODULE MCVpirSession ----------------------------
(***************************************************************************)
(* Small instances of VpirSession for TLC.                                 *)
(***************************************************************************)
EXTENDS VpirSession, TLC

CONSTANTS c1, c2, s1, s2, g1, g2, i1, i2

Symmetry ==
    Permutations(Clients) \cup Permutations(Seeds)
        \cup Permutations(Generations) \cup Permutations(Indices)
=============================================================================
