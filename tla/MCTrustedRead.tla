--------------------------- MODULE MCTrustedRead ---------------------------
(* Model checking of TrustedRead: reads, keys and tokens are               *)
(* interchangeable.                                                        *)
EXTENDS TrustedRead, TLC

Symmetry == Permutations(Calls) \cup Permutations(Keys) \cup Permutations(Tokens)
=============================================================================
