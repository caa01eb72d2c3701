--------------------------- MODULE MCPirProtocol ---------------------------
(***************************************************************************)
(* Small instances of PirProtocol for TLC.                                 *)
(***************************************************************************)
EXTENDS PirProtocol, TLC

\* Clients, seeds and generations are interchangeable.
Symmetry ==
    Permutations(Clients) \cup Permutations(Seeds) \cup Permutations(Generations)

\* Every index, and one on each side out of bounds.
MCIndices == -1 .. NumEntries

\* Request vectors: the empty vector, one that is not a whole chunk, one that
\* fits, one with a coefficient that is too large, and one chunk too many.
MCVectors ==
    { [i \in 0 .. -1 |-> 0],
      [i \in 0 .. Degree |-> 1],
      [i \in 0 .. FirstLen - 1 |-> i % 2],
      [i \in 0 .. FirstLen - 1 |-> PlaintextModulus],
      [i \in 0 .. FirstLen + Degree - 1 |-> 1] }

MCNoVectors == {}
=============================================================================
