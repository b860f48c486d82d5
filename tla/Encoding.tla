------------------------------ MODULE Encoding ------------------------------
(***************************************************************************)
(* The bytes of a block: utils/convert.js, the serialization of layer 3,   *)
(* and the headers that layers 2 and 1 put in front of it.                 *)
(*                                                                         *)
(* A buffer is a sequence of digits below Base, most significant first,    *)
(* and a size counts digits; Base is 256 in the code.  Null is JavaScript's*)
(* null, which is not the empty buffer.  The options of a block are a      *)
(* record whose sequence of pairs has the order of Object.keys.  The types *)
(* 128, 129 and 130 of constants.js are the codes 5, 6 and 7 here.         *)
(***************************************************************************)
EXTENDS Integers, SequencesExt

CONSTANTS
    Base,       \* the number of values of a byte
    Int64Size,  \* constants.size.int64
    HashSize,   \* constants.size.hash
    Null        \* no value

ASSUME EncodingAssumption ==
    /\ Base \in Nat /\ Base >= 8
    /\ Int64Size \in Nat \ {0} /\ HashSize \in Nat \ {0}
    /\ Null \notin Seq(0 .. Base - 1)

Byte      == 0 .. Base - 1
Buffer    == Seq(Byte)
Int16Size == 2
ZeroHash  == [i \in 1 .. HashSize |-> 0]
HashValue == {h \in Buffer : Len(h) = HashSize /\ h # ZeroHash}
TypeNames == <<"root", "key", "secret", "options", "record", "zone", "identity",
               "collection">>

(***************************************************************************)
(* Integers and buffers of variable size.  A value that does not fit makes *)
(* the encoder throw; a slice past the end of a buffer is cut short.       *)
(***************************************************************************)
Power(n) ==
    LET power[i \in 0 .. n] == IF i = 0 THEN 1 ELSE Base * power[i - 1]
    IN  power[n]

(* Mutant: the limit itself is let through. *)
FitsInClosed(n, size) == n \in 0 .. Power(size)

FitsIn(n, size) == n \in 0 .. Power(size) - 1

(* fromByte, fromInt16 and fromInt64.  The nonce comes as a buffer of its  *)
(* size, which fromInt64 returns as it is; a block has the number it is.   *)
FromInt(n, size) == [i \in 1 .. size |-> (n \div Power(size - i)) % Base]

Slice(buf, from, to) == SubSeq(buf, from, IF to < Len(buf) THEN to ELSE Len(buf))
From(buf, i) == Slice(buf, i, Len(buf))

ToInt(buf, i, size) ==
    FoldLeft(LAMBDA n, digit : n * Base + digit, 0, SubSeq(buf, i, i + size - 1))

FitsVar(v) == v = Null \/ FitsIn(Len(v), Int16Size)

FromVarBinary(v) ==
    IF v = Null THEN FromInt(0, Int16Size) ELSE FromInt(Len(v), Int16Size) \o v

ToVarBinary(buf, i) ==
    LET size  == ToInt(buf, i, Int16Size)
        start == i + Int16Size
    IN  [result |-> IF size = 0 THEN Null ELSE Slice(buf, start, start + size - 1),
         index  |-> start + size]

(***************************************************************************)
(* serialization/blockTypes: keys, secrets, options.                       *)
(***************************************************************************)
MaybeBuffer   == Buffer \cup {Null}
KeyFields     == [parentKey : MaybeBuffer, key : MaybeBuffer, action : Nat,
                  tsInit : Nat, tsExp : Nat, data : MaybeBuffer]
SecretFields  == [key : MaybeBuffer, ref : MaybeBuffer, secret : MaybeBuffer,
                  tsInit : Nat, tsExp : Nat, data : MaybeBuffer]
OptionsFields == [options : Seq([key : Buffer, value : Buffer])]

Optional(data) == IF data = Null THEN <<>> ELSE data

(* The end of a key and of a secret: the window and the additional data.   *)
FromWindow(d) == FromInt(d.tsInit, Int64Size) \o FromInt(d.tsExp, Int64Size)
                     \o Optional(d.data)

FromKey(d) ==
    FromVarBinary(d.parentKey) \o FromVarBinary(d.key) \o <<d.action>> \o FromWindow(d)

(* Mutant: the index stays at the start of the window. *)
ToWindowTwice(buf, i) ==
    [tsInit |-> ToInt(buf, i, Int64Size), tsExp |-> ToInt(buf, i, Int64Size),
     data |-> LET rest == From(buf, i + 2 * Int64Size)
              IN IF rest = <<>> THEN Null ELSE rest]

ToWindow(buf, i) ==
    [tsInit |-> ToInt(buf, i, Int64Size),
     tsExp  |-> ToInt(buf, i + Int64Size, Int64Size),
     data   |-> LET rest == From(buf, i + 2 * Int64Size)
                IN  IF rest = <<>> THEN Null ELSE rest]

ToKey(buf, i) ==
    LET parentKey == ToVarBinary(buf, i)
        key       == ToVarBinary(buf, parentKey.index)
        window    == ToWindow(buf, key.index + 1)
    IN  [parentKey |-> parentKey.result, key |-> key.result, action |-> buf[key.index],
         tsInit |-> window.tsInit, tsExp |-> window.tsExp, data |-> window.data]

FromSecret(d) ==
    FromVarBinary(d.key) \o FromVarBinary(d.ref) \o FromVarBinary(d.secret) \o FromWindow(d)

ToSecret(buf, i) ==
    LET key    == ToVarBinary(buf, i)
        ref    == ToVarBinary(buf, key.index)
        secret == ToVarBinary(buf, ref.index)
        window == ToWindow(buf, secret.index)
    IN  [key |-> key.result, ref |-> ref.result, secret |-> secret.result,
         tsInit |-> window.tsInit, tsExp |-> window.tsExp, data |-> window.data]

FromOptions(d) ==
    FoldLeft(LAMBDA buf, o : buf \o <<Len(o.key)>> \o o.key \o <<Len(o.value)>> \o o.value,
             <<Len(d.options)>>, d.options)

ToOptions(buf, i) ==
    LET ReadPair(read, n) ==
            LET value == read.index + 1 + buf[read.index]
                next  == value + 1 + buf[value]
                pair  == [key   |-> Slice(buf, read.index + 1, value - 1),
                          value |-> Slice(buf, value + 1, next - 1)]
            IN  [index |-> next, options |-> Append(read.options, pair)]
        read == FoldLeft(ReadPair, [index |-> i + 1, options |-> <<>>],
                         [n \in 1 .. buf[i] |-> n])
    IN  [options |-> read.options]

(***************************************************************************)
(* serialization/index.js: the data of a block by its type, or encrypted,  *)
(* behind a byte that tells which; and the block behind its type and its   *)
(* signature.                                                              *)
(***************************************************************************)
KeyTypes     == {"root", "key"}
OptionsTypes == {"zone", "identity", "options", "collection"}

PlainData(type) ==
    CASE type \in KeyTypes -> KeyFields
      [] type = "secret"   -> SecretFields
      [] OTHER             -> OptionsFields

(* What encryptBlockData makes: isEncrypted, which the presence of         *)
(* encryptedData stands for, the reader's key, and the encrypted bytes.    *)
EncryptedData == [key : Buffer, encryptedData : Buffer]

IsEncrypted(data) ==
    data # Null /\ "encryptedData" \in DOMAIN data /\ data.key # Null

FromPlain(type, d) ==
    CASE type \in KeyTypes     -> <<1>> \o FromKey(d)
      [] type = "secret"       -> <<1>> \o FromSecret(d)
      [] type \in OptionsTypes -> <<1>> \o FromOptions(d)
      [] type = "record"       -> <<0>>

FromData(type, data) ==
    CASE data = Null       -> <<0>>
      [] IsEncrypted(data) -> <<2>> \o FromVarBinary(data.key) \o data.encryptedData
      [] OTHER             -> FromPlain(type, data)

ToData(type, buf) ==
    CASE buf[1] = 0 -> Null
      [] buf[1] = 2 -> LET key == ToVarBinary(buf, 2) IN
                       [key |-> key.result, data |-> From(buf, key.index)]
      [] buf[1] = 1 /\ type \in KeyTypes     -> ToKey(buf, 2)
      [] buf[1] = 1 /\ type = "secret"       -> ToSecret(buf, 2)
      [] buf[1] = 1 /\ type \in OptionsTypes -> ToOptions(buf, 2)

CodeOf(type) == (CHOOSE i \in DOMAIN TypeNames : TypeNames[i] = type) - 1

FromSecure(b) == <<CodeOf(b.type)>> \o FromVarBinary(b.sig) \o FromData(b.type, b.data)

(* The layer is SecureLayer's, never below 3, so the reader's check of it  *)
(* always passes.                                                          *)
ToSecure(buf) ==
    LET type == TypeNames[buf[1] + 1]
        sig  == ToVarBinary(buf, 2)
    IN  [type |-> type, sig |-> sig.result, data |-> ToData(type, From(buf, sig.index))]

(***************************************************************************)
(* Layer 2 puts the parent and the layer in front, layer 1 the sequence    *)
(* number, prev, nonce and timestamp.                                      *)
(***************************************************************************)
SecureLayer(layer) == IF layer >= 3 THEN layer ELSE 3

FromHash(h) == IF h = Null THEN ZeroHash ELSE h

(* Mutant: a hash of zeros is taken for a hash. *)
ToHashZero(buf, i) == SubSeq(buf, i, i + HashSize - 1)

ToHash(buf, i) ==
    LET h == SubSeq(buf, i, i + HashSize - 1) IN IF h = ZeroHash THEN Null ELSE h

FromBlocktree(b) == FromHash(b.parent) \o <<SecureLayer(b.layer)>> \o FromSecure(b)

ToBlocktree(buf) ==
    LET with(secure) ==
            [parent |-> ToHash(buf, 1), layer |-> buf[HashSize + 1],
             type |-> secure.type, sig |-> secure.sig, data |-> secure.data]
    IN  with(ToSecure(From(buf, HashSize + 2)))

HeaderSize == 3 * Int64Size + HashSize

Encode(b) ==
    FromInt(b.seq, Int64Size) \o FromHash(b.prev) \o FromInt(b.nonce, Int64Size)
        \o FromInt(b.timestamp, Int64Size) \o FromBlocktree(b)

ToPrev(buf) == ToHash(buf, Int64Size + 1)

Decode(buf) ==
    LET nonce == Int64Size + HashSize + 1
        with(block) ==
            [seq |-> ToInt(buf, 1, Int64Size), prev |-> ToPrev(buf),
             nonce |-> ToInt(buf, nonce, Int64Size),
             timestamp |-> ToInt(buf, nonce + Int64Size, Int64Size),
             parent |-> block.parent, layer |-> block.layer,
             type |-> block.type, sig |-> block.sig, data |-> block.data]
    IN  with(ToBlocktree(From(buf, HeaderSize + 1)))

(***************************************************************************)
(* What the encoders throw at: an integer, a count or a length that does   *)
(* not fit its field.                                                      *)
(***************************************************************************)
WindowFits(d) == FitsIn(d.tsInit, Int64Size) /\ FitsIn(d.tsExp, Int64Size)

PlainFits(type, d) ==
    CASE type \in KeyTypes     -> /\ FitsVar(d.parentKey) /\ FitsVar(d.key)
                                  /\ FitsIn(d.action, 1) /\ WindowFits(d)
      [] type = "secret"       -> /\ FitsVar(d.key) /\ FitsVar(d.ref) /\ FitsVar(d.secret)
                                  /\ WindowFits(d)
      [] type \in OptionsTypes ->
            /\ FitsIn(Len(d.options), 1)
            /\ \A o \in ToSet(d.options) : FitsIn(Len(o.key), 1) /\ FitsIn(Len(o.value), 1)
      [] type = "record"       -> TRUE

DataFits(type, data) ==
    CASE data = Null       -> TRUE
      [] IsEncrypted(data) -> FitsVar(data.key)
      [] OTHER             -> PlainFits(type, data)

Serializable(b) ==
    /\ FitsIn(b.layer, 1) /\ FitsVar(b.sig) /\ DataFits(b.type, b.data)
    /\ FitsIn(b.seq, Int64Size) /\ FitsIn(b.nonce, Int64Size)
    /\ FitsIn(b.timestamp, Int64Size)
=============================================================================
