------------------------- MODULE MCSecureBlocktree -------------------------
(* Model checking of SecureBlocktree: calls and keys are interchangeable;  *)
(* a grant is for writing or reading, from time 0 to exp.                  *)
EXTENDS SecureBlocktree, TLC

Grant(key, action, exp) == [key |-> key, action |-> action, init |-> 0, exp |-> exp]

(* The keys may be granted to write, to read, to write until time 2, or    *)
(* be revoked.                                                             *)
GrantOrRevoke ==
    {Grant(key, "w", exp) : key \in Keys, exp \in {0, 2, Forever}}
        \cup {Grant(key, "r", Forever) : key \in Keys}
WriteReadRevoke ==
    {Grant(key, "w", exp) : key \in Keys, exp \in {0, Forever}}
        \cup {Grant(key, "r", Forever) : key \in Keys}

NoSecrets == {NoGrant}

Symmetry == Permutations(Calls) \cup Permutations(Keys)
=============================================================================
