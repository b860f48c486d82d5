------------------------------ MODULE Storage ------------------------------
(***************************************************************************)
(* Layer 0 over the hash-table storage (layers/system.js,                  *)
(* storage/hashTableStorage.js): a table of slots of a fixed size, the list*)
(* of the keys that the scans follow, and the bytes of Encoding in between.*)
(*                                                                         *)
(* A value stands for its hash: hashes do not collide, and every block has *)
(* a nonce of its own, so no value is written twice.  A scan awaits every  *)
(* element, and other calls run in between.  A caller may have the data of *)
(* a block encrypted first: they are then a key, plain data, and what is   *)
(* drawn.                                                                  *)
(***************************************************************************)
EXTENDS Encryption, FiniteSets

CONSTANTS
    Calls,      \* the calls in progress at one time
    Blocks,     \* the blocks the callers write
    ValueSize,  \* the size of a slot
    MaxKeys     \* bound: the slots of the table; a later set throws

(* What encrypt draws: a key, whose length the prefix takes, and an iv.    *)
Random == [key : {k \in Buffer : FitsIn(Len(k), Int16Size)},
           iv  : {iv \in Buffer : Len(iv) = IvSize}]

SealedData(type) ==
    [key : Buffer \ {<<>>}, plain : PlainData(type), random : Random]

BlockOf(type) ==
    [seq : Nat, prev : HashValue \cup {Null}, nonce : Nat, timestamp : Nat,
     parent : HashValue \cup {Null}, layer : Nat, type : {type}, sig : MaybeBuffer,
     data : {Null} \cup PlainData(type) \cup EncryptedData \cup SealedData(type)]

ASSUME StorageAssumption ==
    /\ MaxKeys \in Nat \ {0}
    /\ ValueSize \in Nat /\ ValueSize >= Int16Size + HeaderSize
    /\ \A b \in Blocks : \E type \in ToSet(TypeNames) : b \in BlockOf(type)
    /\ Null \notin EncryptedData

VARIABLES
    table,    \* the hash table: a slot, by hash
    keys,     \* the hashes, in the order of the writes
    written,  \* history: the block that was written, by hash
    calls     \* the local state of every call

vars == <<table, keys, written, calls>>

IsSealed(b) == b.data # Null /\ "plain" \in DOMAIN b.data

Sealed(b) ==
    IF IsSealed(b)
    THEN [b EXCEPT !.data = EncryptBlockData(@.key, b.type, @.plain, @.random)] ELSE b

EncoderThrows(b) ==
    ~Serializable(Sealed(b)) \/ (IsSealed(b) /\ ~DataFits(b.type, b.data.plain))

(* The bytes of the blocks that the encoders do not throw at.              *)
Value == [b \in {b \in Blocks : ~EncoderThrows(b)} |-> Encode(Sealed(b))]
Hash == Range(Value)
Prev == {b.prev : b \in Blocks}

NewCall == [op |-> "none", pc |-> "idle", prev |-> Null, at |-> 0,
            values |-> <<>>, err |-> "none"]

Call == [op : {"none", "write", "map", "find"}, pc : {"idle", "scan"},
         prev : Prev \cup {Null}, at : 0 .. MaxKeys, values : Seq(Buffer),
         err : {"none", "outOfBounds", "outOfRange", "full"}]

At(c, pc)  == calls[c].pc = pc
Set(c, k)  == calls' = [calls EXCEPT ![c] = k]

TypeOK ==
    /\ DOMAIN table \subseteq Hash
    /\ \A h \in DOMAIN table : table[h] \in Buffer /\ Len(table[h]) = ValueSize
    /\ keys \in Seq(Hash) /\ Len(keys) <= MaxKeys
    /\ DOMAIN written = DOMAIN table /\ \A h \in DOMAIN written : written[h] \in Blocks
    /\ calls \in [Calls -> Call]

Init ==
    /\ table = <<>>
    /\ keys = <<>>
    /\ written = <<>>
    /\ calls = [c \in Calls |-> NewCall]

(***************************************************************************)
(* readStorage: of the storage, and of the system, which gives a value only*)
(* when it has the hash that was asked for.                                *)
(***************************************************************************)
(* The table keeps as much of a value as a slot takes.                     *)
Slot(v) == [i \in 1 .. ValueSize |-> IF i <= Len(v) THEN v[i] ELSE 0]

SlotValue(slot) == Slice(slot, Int16Size + 1, Int16Size + ToInt(slot, 1, Int16Size))

(* Mutant: the hash is not compared. *)
ReadStorageUnverified(h) == SlotValue(table[h])

ReadStorage(h) ==
    IF h \in DOMAIN table /\ SlotValue(table[h]) = h THEN SlotValue(table[h]) ELSE Null

(***************************************************************************)
(* writeStorage: the encoders and the length prefix throw before the table *)
(* is touched, a full table before the key is listed.                      *)
(***************************************************************************)
LengthFits(v) == FitsIn(Len(v), Int16Size)

Rejected(b) == b \notin DOMAIN Value \/ ~LengthFits(Value[b]) \/ Len(keys) = MaxKeys

Reject(b) ==
    [NewCall EXCEPT !.op = "write", !.err =
        CASE b \notin DOMAIN Value -> "outOfBounds"
          [] b \in DOMAIN Value /\ ~LengthFits(Value[b]) -> "outOfRange"
          [] OTHER -> "full"]

(* Mutant: the key is listed before the table is set. *)
ListedFirst(b) == IF b \in DOMAIN Value THEN Append(keys, Value[b]) ELSE keys

Listed(b) == IF Rejected(b) THEN keys ELSE Append(keys, Value[b])

WriteStorage(c, b) ==
    LET h == Value[b] IN
    /\ At(c, "idle")
    /\ b \in DOMAIN Value => h \notin DOMAIN table
    /\ keys' = Listed(b)
    /\ IF Rejected(b)
       THEN Set(c, Reject(b)) /\ UNCHANGED <<table, written>>
       ELSE /\ table' = [k \in DOMAIN table \cup {h} |->
                            IF k = h THEN Slot(FromInt(Len(h), Int16Size) \o h) ELSE table[k]]
            /\ written' = [k \in DOMAIN written \cup {h} |-> IF k = h THEN b ELSE written[k]]
            /\ Set(c, [NewCall EXCEPT !.op = "write"])

(***************************************************************************)
(* mapInStorage and findInStorage look at the values as they are in the    *)
(* table, one await each, and at keys.length anew each time.  The predicate*)
(* is the one of getNextBlock: the value names prev.  Null is asked for as *)
(* a hash of zeros, and a root, read back, has no hash to compare with it. *)
(***************************************************************************)
Return(k) == [k EXCEPT !.pc = "idle", !.at = 0]

Matches(k, v) == k.prev # Null /\ ToPrev(v) = k.prev

(* Mutant: the loop stops one element early. *)
IsLastKeyEarly(i) == i >= Len(keys) - 1

IsLastKey(i) == i = Len(keys)

StartScan(c, op, prev) ==
    LET k == [NewCall EXCEPT !.op = op, !.pc = "scan", !.prev = prev, !.at = 1] IN
    /\ At(c, "idle")
    /\ Set(c, IF keys = <<>> THEN Return(k) ELSE k)
    /\ UNCHANGED <<table, keys, written>>

MapNext(c) ==
    LET k == calls[c]
        m == [k EXCEPT !.values = Append(@, SlotValue(table[keys[k.at]]))]
    IN  /\ At(c, "scan") /\ k.op = "map"
        /\ Set(c, IF IsLastKey(k.at) THEN Return(m) ELSE [m EXCEPT !.at = @ + 1])
        /\ UNCHANGED <<table, keys, written>>

FindNext(c) ==
    LET k == calls[c]
        v == SlotValue(table[keys[k.at]])
    IN  /\ At(c, "scan") /\ k.op = "find"
        /\ Set(c, CASE Matches(k, v) -> Return([k EXCEPT !.values = <<v>>])
                    [] ~Matches(k, v) /\ IsLastKey(k.at) -> Return(k)
                    [] OTHER -> [k EXCEPT !.at = @ + 1])
        /\ UNCHANGED <<table, keys, written>>

(***************************************************************************)
(* The specification.                                                      *)
(***************************************************************************)
Start(c) ==
    \/ \E b \in Blocks : WriteStorage(c, b)
    \/ StartScan(c, "map", Null)
    \/ \E prev \in Prev : StartScan(c, "find", prev)

Next == \E c \in Calls : Start(c) \/ MapNext(c) \/ FindNext(c)

Spec == Init /\ [][Next]_vars

(***************************************************************************)
(* What the layers above expect.                                           *)
(***************************************************************************)
Fits(v) == Int16Size + Len(v) <= ValueSize

(* A block as it should be read back: an empty field of variable size is   *)
(* none, and the payload of encrypted data is its data.  A record loses its*)
(* data (RecordsReadBack).                                                 *)
NonEmpty(v) == IF v = <<>> THEN Null ELSE v

NormalPlain(type, d) ==
    CASE type \in KeyTypes     ->
            [d EXCEPT !.parentKey = NonEmpty(@), !.key = NonEmpty(@), !.data = NonEmpty(@)]
      [] type = "secret"       ->
            [d EXCEPT !.key = NonEmpty(@), !.ref = NonEmpty(@), !.secret = NonEmpty(@),
                      !.data = NonEmpty(@)]
      [] type \in OptionsTypes -> d
      [] type = "record"       -> Null

NormalData(type, d) ==
    CASE d = Null       -> Null
      [] IsEncrypted(d) -> [key |-> NonEmpty(d.key), data |-> d.encryptedData]
      [] OTHER          -> NormalPlain(type, d)

Plain(b) == IF IsSealed(b) THEN b.data.plain ELSE b.data

Normal(b) ==
    [b EXCEPT !.layer = SecureLayer(@),
              !.sig = NonEmpty(@), !.data = NormalData(b.type, Plain(b))]

(* The block that was written as b, as its reader sees it.                 *)
Opened(b, block) ==
    IF IsSealed(b)
    THEN [block EXCEPT !.data = DecryptBlockData(b.type, @.data, @.key)] ELSE block

Read(b, h) == Opened(b, Decode(ReadStorage(h)))

(***************************************************************************)
(* Properties.                                                             *)
(***************************************************************************)

(* The list of the keys and the table agree, though a write can fail at    *)
(* three places: countBlocks, which counts the table, and the scans, which *)
(* follow the list, see the same blocks, and each of them once.            *)
KeysMatchTable == ToSet(keys) = DOMAIN table /\ Len(keys) = Cardinality(DOMAIN table)

(* Every block whose write succeeded reads back field by field, whatever   *)
(* its type, through the encoders, the encryption of its data, and the     *)
(* length prefix of the slot.                                              *)
ReadBack ==
    \A h \in ToSet(keys) : Fits(h) =>
        ReadStorage(h) # Null /\ Read(written[h], h) = Normal(written[h])

(* A signature still verifies when its block is read back, and only with   *)
(* the signer's key, though the signer hashed an absent prev or parent as  *)
(* nothing and the storage keeps it as zeros.                              *)
SignaturesVerify ==
    \A h \in ToSet(keys) : Fits(h) /\ written[h].sig # Null =>
        LET b == Decode(ReadStorage(h))
            signer == KeyOfSignature(written[h].sig)
        IN  \A key \in {signer, Append(signer, 0)} :
                VerifySignedBlock(b.sig, key, b.parent, b.prev) <=> key = signer

(* A block that lost its end in the table (its length passes the prefix,   *)
(* but not the slot) is never taken for a block: its read gives nothing.   *)
CutBlocksUnread == \A h \in ToSet(keys) : ~Fits(h) => ReadStorage(h) = Null

(* What a scan would answer in one step. *)
Answer(k) ==
    LET hits == {i \in DOMAIN keys : k.prev # Null /\ written[keys[i]].prev = k.prev}
        cut(h) == Slice(h, 1, ValueSize - Int16Size)
    IN  CASE k.op = "map" -> [i \in DOMAIN keys |-> cut(keys[i])]
          [] k.op = "find" /\ hits = {} -> <<>>
          [] k.op = "find" /\ hits # {} -> <<cut(keys[Min(hits)])>>

(* A scan answers what it would if it took no time, at the moment it ends: *)
(* no block that was written while it ran is missed.  The modules of the   *)
(* layers above rely on this when a scan is one action there.              *)
ScanIsAtomic ==
    [][\A c \in Calls : At(c, "scan") /\ ~At(c, "scan")' =>
            calls[c].op = calls'[c].op /\ calls'[c].values = Answer(calls[c])]_vars

(* addRecord: "Adds a record to a collection", with the key/value pairs it *)
(* is given.                                                               *)
RecordsReadBack ==
    \A h \in ToSet(keys) : written[h].type = "record" /\ Fits(h) =>
        Read(written[h], h).data = Plain(written[h])
=============================================================================
