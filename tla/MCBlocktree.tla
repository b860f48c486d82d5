---------------------------- MODULE MCBlocktree ----------------------------
(* Model checking of Blocktree: one caller that never switches validation  *)
(* off, one that may, or all of them that do not; the calls are            *)
(* interchangeable.                                                        *)
EXTENDS Blocktree, TLC

OneCaller == {[callers |-> {c}, options |-> {"default"}] : c \in Calls}

OneOrAllCallers ==
    OneCaller
        \cup {[callers |-> {c}, options |-> {"default", "noValidate"}] : c \in Calls}
        \cup {[callers |-> Calls, options |-> {"default"}]}

Symmetry == Permutations(Calls)
=============================================================================
