------------------------------ MODULE MCStorage ------------------------------
(* Model checking of Storage: blocks with fields at the limits of their    *)
(* sizes.  The longest buffer that fits a prefix has 63 bytes (Base = 8),  *)
(* the longest value that fits a slot of 64 has 62.                        *)
EXTENDS Storage, TLC

Symmetry == Permutations(Calls)

Bytes(n) == [i \in 1 .. n |-> 7]

ABlock(type, data) ==
    [seq |-> 1, prev |-> Null, nonce |-> 1, timestamp |-> 2, parent |-> Null,
     layer |-> 0, type |-> type, sig |-> Null, data |-> data]

Signed(b, key, prev, parent) ==
    [b EXCEPT !.prev = prev, !.parent = parent,
              !.sig = SignBlock(key, parent, prev, <<5, 0, 6>>)]

AKey(parentKey, init, exp) ==
    [parentKey |-> parentKey, key |-> Bytes(2), action |-> 5, tsInit |-> init,
     tsExp |-> exp, data |-> Null]

ASecret(ref, data) ==
    [key |-> Bytes(1), ref |-> ref, secret |-> Bytes(3), tsInit |-> 1, tsExp |-> 8,
     data |-> data]

Options(n, size) ==
    [options |-> [i \in 1 .. n |-> [key |-> <<i - 1>>, value |-> Bytes(size)]]]

(* The data that a caller has encrypted for a key, and data that it        *)
(* encrypted itself.                                                       *)
Sealing(data) ==
    [key |-> <<1, 2>>, plain |-> data, random |-> [key |-> <<4, 5, 6>>, iv |-> <<3, 2>>]]

Encrypting(n) == [key |-> Bytes(2), encryptedData |-> Bytes(n)]

(* Timestamps 8 ^ 3 - 1 and 8 ^ 3 are the last that fits and the first     *)
(* that does not.                                                          *)
KeyBlocks ==
    {ABlock("root", AKey(p, 0, 511)) : p \in {<<>>, Bytes(3)}}
        \cup {Signed(ABlock("key", AKey(Bytes(1), 9, exp)), <<2>>, <<0, 1>>, <<1, 0>>) :
                  exp \in {511, 512}}

(* A length of 8 takes the second byte of its prefix.                      *)
SecretBlocks ==
    {Signed(ABlock("secret", ASecret(ref, Null)), Bytes(3), <<0, 1>>, Null) :
        ref \in {Null, Bytes(8)}}
        \cup {[ABlock("secret", ASecret(<<>>, <<0>>)) EXCEPT !.layer = 4]}

OptionsBlocks ==
    {[ABlock("options", Options(n, 1)) EXCEPT !.prev = <<0, 2>>] : n \in {0, 7, 8}}
        \cup {ABlock("identity", Options(2, size)) : size \in {0, 7, 8}}

(* Encoded, these have 61 to 64 bytes.                                     *)
LongBlocks == {ABlock("collection", Encrypting(n)) : n \in 39 .. 42}

RecordBlocks ==
    {ABlock("record", data) : data \in {Options(1, 1), Sealing(Options(1, 1))}}

ZoneBlocks ==
    {ABlock("zone", Null), Signed(ABlock("zone", Sealing(Options(2, 3))), <<1>>, Null, <<0, 1>>)}
        \cup {ABlock("zone", Sealing(Options(1, size))) : size \in {7, 8}}

AnyBlock == ZoneBlocks \cup KeyBlocks \cup SecretBlocks \cup OptionsBlocks \cup LongBlocks \cup RecordBlocks
=============================================================================
