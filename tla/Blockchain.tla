----------------------------- MODULE Blockchain -----------------------------
(***************************************************************************)
(* Layer 1 (src/src/layers/blockchain.js) over the storage and the cache   *)
(* of layer 0, as concurrent callers see it.                               *)
(*                                                                         *)
(* Every function of the layer is async.  A call runs alone up to its next *)
(* await and may be overtaken by any other call there, so each action      *)
(* below is one stretch of code between two awaits that reach the storage  *)
(* or the cache; `calls[c].pc' names the stretch that runs next.  Stored   *)
(* blocks never change, so a walk or a scan over them is one action, taken *)
(* when its last read happens.                                             *)
(*                                                                         *)
(* A block is named by the position at which it was stored: its hash is    *)
(* fresh because the block holds a random nonce.  0 is the absent block    *)
(* (null, and constants.block.zero) and Unknown a hash nobody stored.      *)
(***************************************************************************)
EXTENDS Integers, Sequences

CONSTANTS
    Calls,      \* the calls in progress at one time
    MaxBlocks,  \* bound: blocks the storage takes; a later write rejects
    Times,      \* the readings of the time source, which may go back
    Options,    \* the options a caller passes to writeBlock
    Caching     \* inMemoryCache (TRUE) or noCache (FALSE)

ASSUME BlockchainAssumption ==
    /\ MaxBlocks \in Nat \ {0}
    /\ Times \subseteq Nat
    /\ Options \subseteq {"default", "noValidate", "noCacheRoot", "noCacheNext"}
    /\ Caching \in BOOLEAN

VARIABLES
    store,      \* the stored blocks, in the order of the storage's keys
    nextCache,  \* cache "next": a block's successor, 0 for the string 'null'
    headCache,  \* cache "headBlock", by root block
    rootCache,  \* cache "rootBlock"
    calls       \* the local state of every call

caches == <<nextCache, headCache, rootCache>>
vars == <<store, nextCache, headCache, rootCache, calls>>

Unknown   == MaxBlocks + 1
NotCached == -1
Hash      == 1 .. Unknown

Block == [prev : Hash \cup {0}, seq : Nat, ts : Times]

(***************************************************************************)
(* Reading blocks                                                          *)
(***************************************************************************)
IsStored(b) == b \in DOMAIN store

Successors(b) == {n \in DOMAIN store : store[n].prev = b}

(* Mutant: "none found" is the sentinel of an absent cache entry. *)
FindNextMissing(b) ==
    IF Successors(b) = {} THEN NotCached
    ELSE CHOOSE n \in Successors(b) : \A m \in Successors(b) : n <= m

(* The first stored block that names b as its predecessor, or 0. *)
FindNext(b) ==
    IF Successors(b) = {} THEN 0
    ELSE CHOOSE n \in Successors(b) : \A m \in Successors(b) : n <= m

(* The walk back along prev ends at the root of b's chain; it gives 0 when *)
(* it ends at a block whose prev was never stored.                         *)
GetRootBlock(b) ==
    LET walk[n \in DOMAIN store] ==
            IF IsStored(store[n].prev) THEN walk[store[n].prev] ELSE n
    IN  IF IsStored(b) /\ walk[b] \in {r \in DOMAIN store : store[r].prev = 0}
        THEN walk[b] ELSE 0

(* The report of validateBlockchain from block b back to its root. *)
ValidateBlockchain(b) ==
    LET report[n \in DOMAIN store] ==
            LET p == store[n].prev IN
            CASE p = 0 /\ store[n].seq = 1          -> "valid"
              [] p = 0 /\ store[n].seq # 1          -> "invalidSequence"
              [] p # 0 /\ ~IsStored(p)              -> "missingBlock"
              [] IsStored(p) /\ store[n].ts < store[p].ts -> "invalidTimestamp"
              [] IsStored(p) /\ store[n].ts >= store[p].ts
                 /\ store[n].seq # store[p].seq + 1 -> "invalidSequence"
              [] OTHER                              -> report[p]
    IN  IF IsStored(b) THEN report[b] ELSE "missingBlock"

WriteCache(cache, scope, value) ==
    IF Caching THEN [cache EXCEPT ![scope] = value] ELSE cache

(***************************************************************************)
(* The state of a call.  `op' is the function called ("append" is what     *)
(* every operation of layer 3 does: getHeadBlock, then writeBlock with the *)
(* head as prev), `ret' the function waiting for getNextBlock, `arg' the   *)
(* block asked about (a writer's prev), and `block' and `err' the outcome. *)
(***************************************************************************)
Ops  == {"none", "write", "append", "head", "next"}
Errs == {"none", "notFound", "invalidTimestamp", "nextBlockExists", "full"}
PCs  == {"idle", "begin", "readHead", "fillHead", "readNext", "scanNext",
         "fillNext", "store", "cacheRoot", "putRoot", "cacheHead",
         "cacheNext", "cacheNull"}

Call == [op : Ops, pc : PCs, opt : Options \cup {"default"},
         ret : {"none", "head", "next", "write"}, arg : Hash \cup {0},
         ts : Times \cup {0}, seq : Nat, block : Nat, root : Nat, err : Errs]

NewCall == [op |-> "none", pc |-> "idle", opt |-> "default", ret |-> "none",
            arg |-> 0, ts |-> 0, seq |-> 0, block |-> 0, root |-> 0,
            err |-> "none"]

Return(k, b)  == [NewCall EXCEPT !.op = k.op, !.block = b]
Reject(k, e)  == [NewCall EXCEPT !.op = k.op, !.err = e]

At(c, pc)     == calls[c].pc = pc
Set(c, k)     == calls' = [calls EXCEPT ![c] = k]
Goto(c, pc)   == calls' = [calls EXCEPT ![c].pc = pc]

TypeOK ==
    /\ store \in Seq(Block) /\ Len(store) <= MaxBlocks
    /\ nextCache \in [Hash -> 0 .. MaxBlocks \cup {NotCached}]
    /\ headCache \in [Hash -> 0 .. MaxBlocks \cup {NotCached}]
    /\ rootCache \in [Hash -> 0 .. MaxBlocks \cup {NotCached}]
    /\ calls \in [Calls -> Call]

Init ==
    /\ store = <<>>
    /\ nextCache = [b \in Hash |-> NotCached]
    /\ headCache = [b \in Hash |-> NotCached]
    /\ rootCache = [b \in Hash |-> NotCached]
    /\ calls = [c \in Calls |-> NewCall]

(***************************************************************************)
(* Entering the layer.  A caller may name any stored block: besides the    *)
(* hashes it was given, the scans of upper layers return blocks whose      *)
(* writeBlock has not finished.                                            *)
(***************************************************************************)
StartWrite(c, p, o) ==
    /\ At(c, "idle")
    /\ Set(c, [NewCall EXCEPT !.op = "write", !.pc = "begin",
                              !.opt = o, !.arg = p])
    /\ UNCHANGED <<store, caches>>

(* getHeadBlock walks to the root first and fails on a missing block.      *)
StartHead(c, b, op) ==
    LET k == [NewCall EXCEPT !.op = op, !.pc = "readHead", !.ret = "head",
                             !.arg = b, !.root = GetRootBlock(b)]
    IN  /\ At(c, "idle")
        /\ Set(c, IF GetRootBlock(b) = 0 THEN Reject(k, "notFound") ELSE k)
        /\ UNCHANGED <<store, caches>>

StartNext(c, b) ==
    /\ At(c, "idle")
    /\ Set(c, [NewCall EXCEPT !.op = "next", !.pc = "readNext",
                              !.ret = "next", !.arg = b])
    /\ UNCHANGED <<store, caches>>

(***************************************************************************)
(* getNextBlock: the cached answer, else a scan of the storage whose       *)
(* positive result is cached.  AfterNext is the caller that awaits it.     *)
(***************************************************************************)
(* Mutant: the writer ignores the successor it found. *)
AfterNextUnchecked(k, n) ==
    CASE k.ret = "write" -> [k EXCEPT !.pc = "store"]
      [] k.ret = "next"  -> Return(k, n)
      [] k.ret = "head"  -> IF n = 0 THEN [k EXCEPT !.pc = "fillHead"]
                            ELSE [k EXCEPT !.pc = "readNext", !.arg = n]

AfterNext(k, n) ==
    CASE k.ret = "write" -> IF n = 0 THEN [k EXCEPT !.pc = "store"]
                            ELSE Reject(k, "nextBlockExists")
      [] k.ret = "next"  -> Return(k, n)
      [] k.ret = "head"  -> IF n = 0 THEN [k EXCEPT !.pc = "fillHead"]
                            ELSE [k EXCEPT !.pc = "readNext", !.arg = n]

ReadNext(c) ==
    LET k == calls[c]
        cached == nextCache[k.arg]
    IN  /\ At(c, "readNext")
        /\ IF cached = NotCached THEN Goto(c, "scanNext")
           ELSE Set(c, AfterNext(k, cached))
        /\ UNCHANGED <<store, caches>>

ScanNext(c) ==
    LET k == calls[c]
        n == FindNext(k.arg)
    IN  /\ At(c, "scanNext")
        /\ Set(c, IF n = 0 THEN AfterNext(k, 0)
                  ELSE [k EXCEPT !.pc = "fillNext", !.block = n])
        /\ UNCHANGED <<store, caches>>

(* Mutant: scope and value swapped. *)
FillNextSwapped(c) ==
    LET k == calls[c] IN
    /\ At(c, "fillNext")
    /\ nextCache' = WriteCache(nextCache, k.block, k.arg)
    /\ Set(c, AfterNext([k EXCEPT !.block = 0], k.block))
    /\ UNCHANGED <<store, headCache, rootCache>>

FillNext(c) ==
    LET k == calls[c] IN
    /\ At(c, "fillNext")
    /\ nextCache' = WriteCache(nextCache, k.arg, k.block)
    /\ Set(c, AfterNext([k EXCEPT !.block = 0], k.block))
    /\ UNCHANGED <<store, headCache, rootCache>>

(***************************************************************************)
(* getHeadBlock, after the walk to the root: the head cached for the root, *)
(* else the end of the walk along getNextBlock from the block asked about. *)
(***************************************************************************)
AfterHead(k, h) ==
    IF k.op = "append"
    THEN [NewCall EXCEPT !.op = "append", !.pc = "begin", !.arg = h]
    ELSE Return(k, h)

ReadHead(c) ==
    LET k == calls[c]
        cached == headCache[k.root]
    IN  /\ At(c, "readHead")
        /\ IF cached = NotCached THEN Goto(c, "readNext")
           ELSE Set(c, AfterHead(k, cached))
        /\ UNCHANGED <<store, caches>>

FillHead(c) ==
    LET k == calls[c] IN
    /\ At(c, "fillHead")
    /\ headCache' = WriteCache(headCache, k.root, k.arg)
    /\ Set(c, AfterHead(k, k.arg))
    /\ UNCHANGED <<store, nextCache, rootCache>>

(***************************************************************************)
(* writeBlock.  Begin takes the timestamp and reads prev in one stretch.   *)
(***************************************************************************)
(* Mutant: the timestamps are not compared. *)
CheckPrevAnyTime(p, t, o) ==
    IF o # "noValidate" /\ p # 0 /\ ~IsStored(p) THEN "notFound" ELSE "none"

CheckPrev(p, t, o) ==
    CASE o = "noValidate" \/ p = 0 -> "none"
      [] o # "noValidate" /\ p # 0 /\ ~IsStored(p) -> "notFound"
      [] OTHER -> IF store[p].ts > t THEN "invalidTimestamp" ELSE "none"

(* Mutant: the sequence number is copied from prev. *)
SeqAfterSame(p) == IF IsStored(p) THEN store[p].seq ELSE 1

SeqAfter(p) == IF IsStored(p) THEN store[p].seq + 1 ELSE 1

Begin(c, t) ==
    LET k == calls[c]
        e == CheckPrev(k.arg, t, k.opt)
        w == [k EXCEPT !.ts = t, !.seq = SeqAfter(k.arg), !.ret = "write",
                       !.pc = IF k.opt # "noValidate" /\ k.arg # 0
                              THEN "readNext" ELSE "store"]
    IN  /\ At(c, "begin")
        /\ Set(c, IF e = "none" THEN w ELSE Reject(k, e))
        /\ UNCHANGED <<store, caches>>

(* Mutant: the head of the chain is never written to the cache. *)
CachesRootNever(o) == FALSE

CachesRoot(o) == o \notin {"noCacheRoot", "noValidate"}
CachesNext(o) == o # "noCacheNext"

(* Mutant: the successor of prev is never written to the cache. *)
AfterHeadCachedSkip(k) == "cacheNull"

(* Where writeBlock goes on once the root and the head are cached. *)
AfterHeadCached(k) ==
    IF CachesNext(k.opt) /\ k.arg # 0 THEN "cacheNext" ELSE "cacheNull"

Store(c) ==
    LET k == calls[c]
        b == Len(store) + 1
        w == [k EXCEPT !.block = b,
                       !.pc = IF CachesRoot(k.opt) THEN "cacheRoot"
                              ELSE AfterHeadCached(k)]
    IN  /\ At(c, "store")
        /\ IF Len(store) < MaxBlocks
           THEN /\ store' = Append(store, [prev |-> k.arg, seq |-> k.seq, ts |-> k.ts])
                /\ Set(c, w)
           ELSE /\ Set(c, Reject(k, "full"))
                /\ UNCHANGED store
        /\ UNCHANGED caches

(* cacheRootBlock: a root caches itself, any other block takes the root    *)
(* cached for its predecessor, or walks back to it.                        *)

(* Mutant: the predecessor is taken for the root. *)
RootFromPrevItself(k) == k.arg

RootFromPrev(k) ==
    IF rootCache[k.arg] # NotCached THEN rootCache[k.arg] ELSE GetRootBlock(k.block)

CacheRoot(c) ==
    LET k == calls[c] IN
    /\ At(c, "cacheRoot")
    /\ \/ /\ k.arg = 0
          /\ rootCache' = WriteCache(rootCache, k.block, k.block)
          /\ Set(c, [k EXCEPT !.pc = "cacheHead", !.root = k.block])
       \/ /\ k.arg # 0
          /\ RootFromPrev(k) # 0
          /\ Set(c, [k EXCEPT !.pc = "putRoot", !.root = RootFromPrev(k)])
          /\ UNCHANGED rootCache
       \/ /\ k.arg # 0
          /\ RootFromPrev(k) = 0  \* a block on the way is missing: the walk throws
          /\ Set(c, Reject(k, "notFound"))
          /\ UNCHANGED rootCache
    /\ UNCHANGED <<store, nextCache, headCache>>

PutRoot(c) ==
    LET k == calls[c] IN
    /\ At(c, "putRoot")
    /\ rootCache' = WriteCache(rootCache, k.block, k.root)
    /\ Goto(c, "cacheHead")
    /\ UNCHANGED <<store, nextCache, headCache>>

CacheHead(c) ==
    LET k == calls[c] IN
    /\ At(c, "cacheHead")
    /\ headCache' = WriteCache(headCache, k.root, k.block)
    /\ Goto(c, AfterHeadCached(k))
    /\ UNCHANGED <<store, nextCache, rootCache>>

CacheNext(c) ==
    LET k == calls[c] IN
    /\ At(c, "cacheNext")
    /\ nextCache' = WriteCache(nextCache, k.arg, k.block)
    /\ Goto(c, "cacheNull")
    /\ UNCHANGED <<store, headCache, rootCache>>

CacheNull(c) ==
    LET k == calls[c] IN
    /\ At(c, "cacheNull")
    /\ nextCache' = WriteCache(nextCache, k.block, 0)
    /\ Set(c, Return(k, k.block))
    /\ UNCHANGED <<store, headCache, rootCache>>

(***************************************************************************)
(* The specification.  A call in progress always goes on: its promises are *)
(* settled by the event loop, which runs every ready continuation.         *)
(***************************************************************************)
Start(c) ==
    \/ \E p \in DOMAIN store \cup {0, Unknown}, o \in Options : StartWrite(c, p, o)
    \/ \E b \in DOMAIN store, op \in {"head", "append"} : StartHead(c, b, op)
    \/ \E b \in DOMAIN store : StartNext(c, b)

Continue(c) ==
    \/ \E t \in Times : Begin(c, t)
    \/ ReadHead(c) \/ FillHead(c)
    \/ ReadNext(c) \/ ScanNext(c) \/ FillNext(c)
    \/ Store(c)
    \/ CacheRoot(c) \/ PutRoot(c) \/ CacheHead(c)
    \/ CacheNext(c) \/ CacheNull(c)

Next == \E c \in Calls : Start(c) \/ Continue(c)

Spec == Init /\ [][Next]_vars
FairSpec == Spec /\ \A c \in Calls : WF_vars(Continue(c))

(***************************************************************************)
(* Properties of every interleaving.                                       *)
(***************************************************************************)

(* What writeBlock checks on the way in (timestamps, sequence numbers,     *)
(* an existing predecessor) is what validateBlockchain asks for on the way *)
(* back: every stored block validates, whatever was stored between the     *)
(* check and the write.                                                    *)
EveryBlockValidates == \A b \in DOMAIN store : ValidateBlockchain(b) = "valid"

(* The cache never invents a link: whatever order the writers and the      *)
(* scanning readers fill "next" in, a cached successor names the block as  *)
(* its prev.                                                               *)
NextCacheSound ==
    \A b \in Hash : nextCache[b] \in Hash =>
        IsStored(nextCache[b]) /\ store[nextCache[b]].prev = b

(* cacheRootBlock never caches anything but the root the walk would find,  *)
(* although it copies what another call cached for the predecessor.        *)
RootCacheExact ==
    \A b \in Hash : rootCache[b] # NotCached => rootCache[b] = GetRootBlock(b)

(* A cached head belongs to the chain it is cached for. *)
HeadCacheInChain ==
    \A r \in Hash : headCache[r] # NotCached => GetRootBlock(headCache[r]) = r

(* However calls interleave, the storage is a forest of numbered and       *)
(* timestamped chains that only grows.                                     *)
Abstract == INSTANCE Ledger WITH blocks <- store
ForestRefinement == Abstract!ForestSpec

(* A call that has started returns or rejects: no interleaving of writers  *)
(* and readers sends getHeadBlock's walk around a loop of cached links.    *)
EveryCallReturns == \A c \in Calls : ~At(c, "idle") ~> At(c, "idle")

(***************************************************************************)
(* Properties of callers that await each call before they make the next.   *)
(***************************************************************************)
Quiescent == \A c \in Calls : At(c, "idle")

(* A block is followed by at most one block: writeBlock refuses a second   *)
(* successor ("nextBlockExists").                                          *)
NoFork ==
    \A m, n \in DOMAIN store :
        store[m].prev = store[n].prev /\ store[m].prev # 0 => m = n

(* Between calls, getNextBlock answers from the cache what a scan of the   *)
(* storage would find: 'null' only for a block nothing follows.            *)
NextCacheExact ==
    Quiescent => \A b \in DOMAIN store : nextCache[b] \in {NotCached, FindNext(b)}

(* Between calls, the cached head of a chain is the block "where a new     *)
(* block would be added".                                                  *)
HeadCacheIsLast ==
    Quiescent => \A r \in Hash :
        headCache[r] # NotCached => Successors(headCache[r]) = {}

(* The cached head moves along the chain, one block at a time. *)
HeadOnlyAdvances ==
    [][\A r \in Hash : headCache[r] \notin {NotCached, headCache'[r]} =>
          store'[headCache'[r]].prev = headCache[r]]_vars

(* An append (getHeadBlock, then writeBlock on the head) is never refused  *)
(* for its prev: the head it is given is free.                             *)
AppendAccepted ==
    \A c \in Calls : calls[c].op = "append" =>
        calls[c].err \notin {"notFound", "nextBlockExists"}

(* A caller that awaits each call has a linear ledger. *)
LinearRefinement == Abstract!LinearSpec
=============================================================================
