--------------------------- MODULE SecureBlocktree ---------------------------
(***************************************************************************)
(* Layer 3 (src/src/layers/secure-blocktree): typed and signed blocks.     *)
(* Every write first seeks the signer's key in the key blocks of the tree, *)
(* then checks that the signature is new, and only then stores the block;  *)
(* other calls run between any two of these steps.                         *)
(*                                                                         *)
(* A block is named by its place in the storage and 0 is the absent block. *)
(* A key stands for its key pair, and a signature for the pair of its      *)
(* signer and its nonce: verifySignedBlock accepts a signature made for    *)
(* the prev and parent it is used with.  A signature over a prev is never  *)
(* reused, so a nonce matters only for the first block of a chain.  Calls  *)
(* name blocks whose write has cached its head.                            *)
(***************************************************************************)
EXTENDS Integers, Sequences, FiniteSetsExt

CONSTANTS
    Calls,      \* the calls in progress at one time
    MaxBlocks,  \* bound: blocks the storage takes; a later write rejects
    Keys,       \* the key pairs of the users
    NoKey,      \* no key: the null parentKey of the block without a signer
    Types,      \* the types of block the callers create
    Grants,     \* the key data the callers pass to addKey and revokeKey
    Secrets,    \* the data they pass to addSecret; its key is the reference
    Nonces,     \* the nonces of the signatures of new chains
    Times,      \* the readings of the time source
    Forever     \* constants.timestamp.max

ChildTypes    == {"zone", "identity", "collection"}
ChainTypes    == {"key", "secret", "options", "record"}
AllTypes      == {"root"} \cup ChildTypes \cup ChainTypes
GrantData     == [key : Keys \cup {NoKey}, action : {"r", "w", "*"},
                  init : Nat, exp : Nat]

ASSUME SecureAssumption ==
    /\ MaxBlocks \in Nat \ {0}
    /\ NoKey \notin Keys
    /\ Types \subseteq AllTypes
    /\ Grants \subseteq GrantData /\ \A g \in Grants : g.key \in Keys
    /\ Secrets \subseteq GrantData
    /\ Nonces \subseteq Nat \ {0}
    /\ Times \subseteq Nat /\ Forever \in Nat /\ \A t \in Times : t < Forever

VARIABLES
    blocks,       \* the stored blocks, in the order of the storage's keys
    headCache,    \* the head layer 1 caches for a chain, by its root; or 0
    secureCache,  \* the layer's own cache: the root block and the root zone
    calls         \* the local state of every call

vars == <<blocks, headCache, secureCache, calls>>

BlockId == 0 .. MaxBlocks
NoGrant == [key |-> NoKey, action |-> "r", init |-> 0, exp |-> 0]
Block   == [type : AllTypes, prev : BlockId, parent : BlockId, nonce : Nat,
            signer : Keys \cup {NoKey}, grant : GrantData]

Errs == {"none", "invalidRoot", "notFound", "invalidParentType",
         "invalidSignature", "invalidKey", "nonceAlreadyUsed", "invalidTimestamp",
         "nextBlockExists", "full"}
PCs  == {"idle", "count", "seek", "nonce", "checkNext", "store", "publish",
         "cacheRoot", "cacheZone"}
Call == [pc : PCs, type : AllTypes, prev : BlockId, parent : BlockId,
         nonce : Nat, signer : Keys \cup {NoKey}, grant : GrantData,
         goal : {"none", "signer", "granter"}, key : Keys \cup {NoKey},
         at : BlockId, base : BlockId, block : BlockId, err : Errs]

NewCall == [pc |-> "idle", type |-> "root", prev |-> 0, parent |-> 0,
            nonce |-> 0, signer |-> NoKey, grant |-> NoGrant, goal |-> "none",
            key |-> NoKey, at |-> 0, base |-> 0, block |-> 0, err |-> "none"]

At(c, pc)  == calls[c].pc = pc
Set(c, k)  == calls' = [calls EXCEPT ![c] = k]
Goto(c, pc) == calls' = [calls EXCEPT ![c].pc = pc]
Reject(e)  == [NewCall EXCEPT !.err = e]

(***************************************************************************)
(* Walks over stored blocks, which never change.                           *)
(***************************************************************************)
RootOf(b) ==
    LET root[n \in DOMAIN blocks] ==
            IF blocks[n].prev = 0 THEN n ELSE root[blocks[n].prev]
    IN  root[b]

(* The blocks from b back to the root of its chain. *)
ChainBehind(b) ==
    LET chain[n \in DOMAIN blocks] ==
            {n} \cup IF blocks[n].prev = 0 THEN {} ELSE chain[blocks[n].prev]
    IN  chain[b]

IsChildRoot(n, b) == blocks[n].prev = 0 /\ blocks[n].parent = b

(* The blocks a caller may name. *)
Known == {b \in DOMAIN blocks : headCache[RootOf(b)] # 0}

(***************************************************************************)
(* Keys: the entries of a chain about one key, newest first, of which only *)
(* the newest counts (an inactive entry hides the older ones).             *)
(***************************************************************************)
KeyEntries(head, key, action) ==
    {n \in ChainBehind(head) :
        /\ blocks[n].type \in {"root", "key"}
        /\ blocks[n].grant.key = key
        /\ blocks[n].grant.action \in {action, "*"}}

(* Mutant: the oldest entry counts. *)
NewestOldest(entries) == Min(entries)

Newest(entries) == Max(entries)

IsKeyActive(g, now) == g.init <= now /\ now < g.exp

(* The types a block may be added under (constants.parentBlockTypes), and  *)
(* zones under the block that has no parent.                               *)
ParentTypes(type) ==
    CASE type \in {"key", "secret"} -> {"zone", "identity", "collection"}
      [] type \in {"zone", "identity"} -> {"zone"}
      [] type = "collection" -> {"zone", "identity"}
      [] type = "record"     -> {"collection"}
      [] type = "options"    -> AllTypes

AllowedUnder(type, r) ==
    \/ blocks[r].type \in ParentTypes(type)
    \/ type = "zone" /\ blocks[r].prev = 0 /\ blocks[r].parent = 0

TypeOK ==
    /\ blocks \in Seq(Block) /\ Len(blocks) <= MaxBlocks
    /\ headCache \in [BlockId -> BlockId]
    /\ secureCache \in [rootBlock : BlockId, rootZone : BlockId]
    /\ calls \in [Calls -> Call]

Init ==
    /\ blocks = <<>>
    /\ headCache = [b \in BlockId |-> 0]
    /\ secureCache = [rootBlock |-> 0, rootZone |-> 0]
    /\ calls = [c \in Calls |-> NewCall]

(***************************************************************************)
(* Entering the layer: createRoot, or addKey without a block (whose type   *)
(* is "key"); createZone, createIdentity and createCollection; addKey,     *)
(* revokeKey, addOptions, addSecret and addRecord.                         *)
(***************************************************************************)
Always(key) == [key |-> key, action |-> "*", init |-> 0, exp |-> Forever]

(* Mutant: one block is not enough to refuse a root. *)
RootRefusedLate == Len(blocks) > 1

RootRefused == Len(blocks) > 0

StartRoot(c, type, g) ==
    LET k == [NewCall EXCEPT !.pc = "count", !.type = type, !.grant = g] IN
    /\ At(c, "idle")
    /\ Set(c, IF RootRefused THEN Reject("invalidRoot") ELSE k)
    /\ UNCHANGED <<blocks, headCache, secureCache>>

ParentFor(b) == RootOf(b)

(* Mutant: the blocks of a chain hang under its root. *)
InheritedParentRoot(prev) == RootOf(prev)

InheritedParent(prev) == blocks[prev].parent

StartChild(c, type, b, signer, nonce) ==
    LET parent == ParentFor(b)
        k == [NewCall EXCEPT !.pc = "seek", !.type = type, !.parent = parent,
                             !.nonce = nonce, !.signer = signer,
                             !.goal = "signer", !.key = signer, !.at = parent]
    IN  /\ At(c, "idle")
        /\ Set(c, IF AllowedUnder(type, parent) THEN k ELSE Reject("invalidParentType"))
        /\ UNCHANGED <<blocks, headCache, secureCache>>

(* A key or an option is signed by a key of the parent; a secret or a      *)
(* record (requireParent: false) by a key of the chain itself.             *)
StartAppend(c, type, b, signer, g) ==
    LET prev   == headCache[RootOf(b)]
        parent == InheritedParent(prev)
        k == [NewCall EXCEPT
                !.pc = "seek", !.type = type, !.prev = prev, !.parent = parent,
                !.signer = signer, !.grant = g, !.goal = "signer", !.key = signer,
                !.at = IF type \in {"secret", "record"} THEN prev ELSE parent]
    IN  /\ At(c, "idle")
        /\ Set(c, CASE parent = 0 -> Reject("notFound")
                    [] parent # 0 /\ ~AllowedUnder(type, RootOf(prev)) ->
                         Reject("invalidParentType")
                    [] OTHER -> k)
        /\ UNCHANGED <<blocks, headCache, secureCache>>

(***************************************************************************)
(* validateSignature and, for keys, validateParentKey.  Each Seek scans    *)
(* one chain from its head; the scan goes up until it finds the key.       *)
(***************************************************************************)
Validated(k) ==
    [k EXCEPT !.pc = IF k.prev = 0 THEN "nonce" ELSE "checkNext",
              !.goal = "none", !.key = NoKey, !.at = 0, !.base = 0]

(* Mutant: the key that granted the signer's key is not validated. *)
AfterSeekOnce(k, e) ==
    IF k.goal = "signer" /\ k.type = "key"
    THEN [k EXCEPT !.goal = "granter", !.at = k.prev, !.base = k.prev]
    ELSE Validated(k)

(* Mutant: the granting key is looked for on the same level. *)
AfterSeekSameLevel(k, e) ==
    CASE k.goal = "signer" /\ k.type # "key" -> Validated(k)
      [] k.goal = "signer" /\ k.type = "key" ->
           [k EXCEPT !.goal = "granter", !.at = k.prev, !.base = k.prev]
      [] k.goal = "granter" ->
           IF blocks[e].signer = NoKey THEN Validated(k)
           ELSE [k EXCEPT !.key = blocks[e].signer, !.at = k.base]

(* The key was found in entry e.  validateParentKey then goes on with the  *)
(* key that granted it, one level up, until a key nobody granted.          *)
AfterSeek(k, e) ==
    LET up == blocks[k.base].parent IN
    CASE k.goal = "signer" /\ k.type # "key" -> Validated(k)
      [] k.goal = "signer" /\ k.type = "key" ->
           [k EXCEPT !.goal = "granter", !.at = k.prev, !.base = k.prev]
      [] k.goal = "granter" ->
           IF blocks[e].signer = NoKey \/ up = 0 THEN Validated(k)
           ELSE [k EXCEPT !.key = blocks[e].signer, !.at = up, !.base = up]

(* Mutant: an entry is looked for among all actions. *)
SeekEntriesAnyAction(k) ==
    UNION {KeyEntries(headCache[RootOf(k.at)], k.key, a) : a \in {"r", "w"}}

SeekEntries(k) == KeyEntries(headCache[RootOf(k.at)], k.key, "w")

Seek(c, now) ==
    LET k == calls[c]
        entries == SeekEntries(k)
        found == entries # {} /\ IsKeyActive(blocks[Newest(entries)].grant, now)
        up == blocks[RootOf(k.at)].parent
    IN  /\ At(c, "seek")
        /\ \/ found /\ Set(c, AfterSeek(k, Newest(entries)))
           \/ ~found /\ up # 0 /\ Set(c, [k EXCEPT !.at = up])
           \/ ~found /\ up = 0
              /\ Set(c, Reject(IF k.goal = "signer" THEN "invalidSignature"
                               ELSE "invalidKey"))
        /\ UNCHANGED <<blocks, headCache, secureCache>>

(***************************************************************************)
(* writeSecureBlock, and the part of layer 1 that other calls may overtake *)
(* (Blockchain.tla has the rest): look for a successor, store, cache.      *)
(* The caches of the layers below answer for the storage; while another    *)
(* call is about to update them, they may miss any of the blocks.          *)
(***************************************************************************)
Sequential == \A c, d \in Calls : c = d
Seen(S)    == IF Sequential THEN {S} ELSE SUBSET S

Count(c) ==
    /\ At(c, "count")
    /\ IF RootRefused THEN Set(c, Reject("invalidRoot")) ELSE Goto(c, "store")
    /\ UNCHANGED <<blocks, headCache, secureCache>>

(* Mutant: the signature of an earlier sibling is accepted. *)
NonceUsedNever(children, nonce) == FALSE

NonceUsed(children, nonce) == \E n \in children : blocks[n].nonce = nonce

(* The scan may also list later blocks of the children's chains, the nonces*)
(* of which are compared as well (Blocktree.tla has that list).            *)
LaterChildren(b) == {n \in DOMAIN blocks : blocks[n].parent = b /\ blocks[n].prev # 0}

CheckNonce(c) ==
    LET k == calls[c]
        stored == {n \in DOMAIN blocks : IsChildRoot(n, k.parent)}
    IN  /\ At(c, "nonce")
        /\ \E children \in Seen(stored) :
              \/ /\ NonceUsed(children, k.nonce) \/ LaterChildren(k.parent) # {}
                 /\ Set(c, Reject("nonceAlreadyUsed"))
              \/ /\ ~NonceUsed(children, k.nonce)
                 /\ Goto(c, "store")
        /\ UNCHANGED <<blocks, headCache, secureCache>>

(* Layer 1 refuses a clock behind the timestamp of prev, and a successor.  *)
CheckNext(c) ==
    LET k == calls[c]
        stored == {n \in DOMAIN blocks : blocks[n].prev = k.prev}
    IN  /\ At(c, "checkNext")
        /\ \/ Set(c, Reject("invalidTimestamp"))
           \/ \E next \in Seen(stored) :
                 Set(c, IF next # {} THEN Reject("nextBlockExists")
                        ELSE [k EXCEPT !.pc = "store"])
        /\ UNCHANGED <<blocks, headCache, secureCache>>

NewBlock(k) == [type |-> k.type, prev |-> k.prev, parent |-> k.parent,
                nonce |-> k.nonce, signer |-> k.signer, grant |-> k.grant]

Store(c) ==
    LET k == calls[c] IN
    /\ At(c, "store")
    /\ IF Len(blocks) < MaxBlocks
       THEN /\ blocks' = Append(blocks, NewBlock(k))
            /\ Set(c, [k EXCEPT !.pc = "publish", !.block = Len(blocks) + 1])
       ELSE /\ Set(c, Reject("full"))
            /\ UNCHANGED blocks
    /\ UNCHANGED <<headCache, secureCache>>

(* Layer 1 caches the head, and layer 2 lists the child. *)
Publish(c) ==
    LET k == calls[c] IN
    /\ At(c, "publish")
    /\ headCache' = [headCache EXCEPT ![RootOf(k.block)] = k.block]
    /\ Set(c, CASE k.type = "root" -> [k EXCEPT !.pc = "cacheRoot"]
                [] k.type = "zone" -> [k EXCEPT !.pc = "cacheZone"]
                [] OTHER           -> NewCall)
    /\ UNCHANGED <<blocks, secureCache>>

(* Mutant: the root key is cached for the root block. *)
CacheRootKey(c) ==
    /\ At(c, "cacheRoot")
    /\ secureCache' = [secureCache EXCEPT !.rootBlock = calls[c].grant.key]
    /\ Set(c, NewCall)
    /\ UNCHANGED <<blocks, headCache>>

CacheRoot(c) ==
    /\ At(c, "cacheRoot")
    /\ secureCache' = [secureCache EXCEPT !.rootBlock = calls[c].block]
    /\ Set(c, NewCall)
    /\ UNCHANGED <<blocks, headCache>>

(* createZone: Buffer.compare is 0, and false, when the blocks are equal.  *)
CacheZone(c) ==
    LET k == calls[c] IN
    /\ At(c, "cacheZone")
    /\ secureCache' = IF secureCache.rootBlock \notin {0, k.parent}
                      THEN [secureCache EXCEPT !.rootZone = k.block] ELSE secureCache
    /\ Set(c, NewCall)
    /\ UNCHANGED <<blocks, headCache>>

(***************************************************************************)
(* The specification.                                                      *)
(***************************************************************************)
StartWrite(c) ==
    \/ \E b \in Known, type \in Types \cap ChildTypes, signer \in Keys, nonce \in Nonces :
          StartChild(c, type, b, signer, nonce)
    \/ \E b \in Known, type \in Types \cap {"key"}, signer \in Keys, g \in Grants :
          StartAppend(c, type, b, signer, g)
    \/ \E b \in Known, type \in Types \cap {"secret"}, signer \in Keys, g \in Secrets :
          StartAppend(c, type, b, signer, g)
    \/ \E b \in Known, type \in Types \cap {"options", "record"}, signer \in Keys :
          StartAppend(c, type, b, signer, NoGrant)

Start(c) ==
    \/ \E key \in Keys : StartRoot(c, "root", Always(key))
    \/ \E type \in Types \cap {"key"}, g \in Grants : StartRoot(c, type, g)
    \/ Len(blocks) < MaxBlocks /\ StartWrite(c)

Continue(c) ==
    \/ \E now \in Times : Seek(c, now)
    \/ Count(c) \/ CheckNonce(c) \/ CheckNext(c) \/ Store(c)
    \/ Publish(c) \/ CacheRoot(c) \/ CacheZone(c)

Next == \E c \in Calls : Start(c) \/ Continue(c)

Spec == Init /\ [][Next]_vars

(***************************************************************************)
(* What an auditor reads from the stored blocks alone.                     *)
(***************************************************************************)
(* The roots of b's chain, of its parent's chain, and so on up.            *)
Above(b) ==
    LET above[n \in DOMAIN blocks] ==
            LET p == blocks[n].parent IN
            {RootOf(n)} \cup IF p = 0 THEN {} ELSE above[p]
    IN  above[b]

(* Where the signer of b must have its key. *)
SignedUnder(b) ==
    IF blocks[b].type \in {"secret", "record"} THEN blocks[b].prev ELSE blocks[b].parent

(* The entries about key in the chain of root r, of the blocks before b.   *)
EntriesBefore(b, r, key) ==
    {e \in 1 .. b - 1 : RootOf(e) = r /\ e \in KeyEntries(e, key, "w")}

EverActive(e) == \E now \in Times : IsKeyActive(blocks[e].grant, now)

(***************************************************************************)
(* Properties of every interleaving.                                       *)
(***************************************************************************)

(* A chain hangs as a whole under the root of another chain, and every     *)
(* block has a type its place allows, though prev and parent were looked   *)
(* up and checked several awaits before the block was stored.              *)
TreeShape ==
    \A b \in DOMAIN blocks :
        LET k == blocks[b] IN
        CASE k.prev # 0 -> k.parent = blocks[k.prev].parent /\ AllowedUnder(k.type, RootOf(b))
          [] k.prev = 0 /\ k.parent # 0 ->
               RootOf(k.parent) = k.parent /\ AllowedUnder(k.type, k.parent)
          [] OTHER -> k.type \in {"root", "key"}

(* Every signer was granted its key: an earlier block at or above the      *)
(* place it signs for gives it a write key with a window that may be       *)
(* open.  That block is signed in turn, so every permission derives from   *)
(* the key of a block without a parent.                                    *)
SignersGranted ==
    \A b \in DOMAIN blocks : blocks[b].parent # 0 =>
        \E r \in Above(SignedUnder(b)) :
            \E e \in EntriesBefore(b, r, blocks[b].signer) : EverActive(e)

(***************************************************************************)
(* Properties of callers that await each call before they make the next.   *)
(***************************************************************************)

(* Every block was authorised by the blocks before it: in some chain at or *)
(* above its place the newest entry about its signer was active.  A block  *)
(* signed after a revocation, found by an old head, would break it.        *)
SignersActive ==
    \A b \in DOMAIN blocks : blocks[b].parent # 0 =>
        \E r \in Above(SignedUnder(b)) :
            LET entries == EntriesBefore(b, r, blocks[b].signer) IN
            entries # {} /\ EverActive(Max(entries))

(* The tree has one root: it is the only block without a parent. *)
SingleRoot == \A a, b \in DOMAIN blocks : blocks[a].parent = 0 /\ blocks[b].parent = 0 => a = b

(* No signature is copied between the children of a block. *)
SiblingNoncesDiffer ==
    \A a, b \in DOMAIN blocks :
        /\ blocks[a].prev = 0 /\ blocks[b].prev = 0 /\ blocks[a].parent # 0
        /\ blocks[a].parent = blocks[b].parent /\ blocks[a].nonce = blocks[b].nonce
        => a = b
=============================================================================
