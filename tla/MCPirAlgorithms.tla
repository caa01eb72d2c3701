--------------------------- MODULE MCPirAlgorithms ---------------------------
(***************************************************************************)
(* A small instance of the algorithms for TLC: d = 8, coefficients of 14   *)
(* bits, q = 2^13, p = 5, forty entries of two shards in ten rows of four, *)
(* so that the query is one whole chunk and a quarter of another.          *)
(***************************************************************************)
EXTENDS PirAlgorithms

ExactGadget == [logDigit |-> 4, numDigits |-> 4]

ApproximateGadget == [logDigit |-> 4, numDigits |-> 3]

WideGadget == [logDigit |-> 7, numDigits |-> 2]

InnerGadget == [logDigit |-> 4, numDigits |-> 5]

AllGadgets == {ExactGadget, ApproximateGadget, WideGadget}
=============================================================================
