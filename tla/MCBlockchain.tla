---------------------------- MODULE MCBlockchain ----------------------------
(* Model checking of Blockchain: the calls of a run are interchangeable.   *)
EXTENDS Blockchain, TLC

Symmetry == Permutations(Calls)
=============================================================================
