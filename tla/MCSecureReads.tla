---------------------------- MODULE MCSecureReads ----------------------------
(* Model checking of SecureReads, from a tree in which k0, the root key,   *)
(* granted k1 in a zone, and k1 granted k2 in a zone below it.             *)
EXTENDS SecureReads, TLC

CONSTANTS k0, k1, k2

B(type, prev, parent, signer, grant) ==
    [type |-> type, prev |-> prev, parent |-> parent, nonce |-> 0,
     signer |-> signer, grant |-> grant]

Write(key, exp) == [key |-> key, action |-> "w", init |-> 0, exp |-> exp]

Built == <<
    B("root", 0, 0, NoKey, Always(k0)),
    [B("zone", 0, 1, k0, NoGrant) EXCEPT !.nonce = 1],
    B("key", 2, 1, k0, Write(k1, Forever)),
    [B("zone", 0, 2, k1, NoGrant) EXCEPT !.nonce = 1],
    B("key", 4, 2, k1, Write(k2, Forever)) >>

BuiltInit ==
    /\ blocks = Built
    /\ headCache = [b \in BlockId |-> CASE b = 1 -> 1 [] b = 2 -> 3 [] b = 4 -> 5 [] OTHER -> 0]
    /\ secureCache = [rootBlock |-> 1, rootZone |-> 4]
    /\ calls = [c \in Calls |-> NewCall]

BuiltSpec == BuiltInit /\ [][Next]_vars /\ Fairness

GrantOrRevoke == {Write(key, exp) : key \in {k1, k2}, exp \in {0, Forever}}

SomeSecrets == {Write(k1, exp) : exp \in {0, Forever}} \cup {Write(k0, Forever)}
=============================================================================
