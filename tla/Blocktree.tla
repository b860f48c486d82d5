------------------------------ MODULE Blocktree ------------------------------
(***************************************************************************)
(* Layer 2 (src/src/layers/blocktree.js): the parent links, and the cache  *)
(* "childBlocks" that performChildScan fills and writeBlock pushes onto.   *)
(*                                                                         *)
(* Layer 1 appears here as two actions, the check of prev and the store,   *)
(* which other calls may overtake.  Its caches and clock are left out: what*)
(* they decide is a choice, so layer 1 may do more here than Blockchain    *)
(* does.  What this module adds is what may happen between the store and   *)
(* the push that follows it.  As in Blockchain, an action is a stretch of  *)
(* code between two awaits, a block is named by its place in the storage,  *)
(* 0 is the absent block and Unknown a hash nobody stored.                 *)
(***************************************************************************)
EXTENDS Integers, Sequences, Functions

CONSTANTS
    Calls,        \* the calls in progress at one time
    MaxBlocks,    \* bound: blocks the storage takes; a later write rejects
    Environments  \* who calls, and with which options to writeBlock

ASSUME BlocktreeAssumption ==
    /\ MaxBlocks \in Nat \ {0}
    /\ Environments \subseteq [callers : SUBSET Calls, options : SUBSET {"default", "noValidate"}]

VARIABLES
    blocks,      \* the stored blocks, in the order of the storage's keys
    childCache,  \* cache "childBlocks": a list of blocks, by parent
    calls,       \* the local state of every call
    env          \* the environment of this behaviour, which never changes

vars == <<blocks, childCache, calls, env>>

Unknown   == MaxBlocks + 1
Hash      == 1 .. Unknown
NotCached == [cached |-> FALSE, list |-> <<>>]
Cached(l) == [cached |-> TRUE, list |-> l]

Block == [prev : Hash \cup {0}, parent : Hash \cup {0}]

Ops  == {"none", "write", "scan"}
Errs == {"none", "invalidParentBlock", "prevRefused", "full", "notFound"}
PCs  == {"idle", "layer1", "store", "push", "readChildren", "scanChildren", "fillChildren"}
Call == [op : Ops, pc : PCs, opt : {"default", "noValidate"},
         prev : Hash \cup {0}, parent : Hash \cup {0}, block : Nat,
         list : Seq(1 .. MaxBlocks), err : Errs]

NewCall == [op |-> "none", pc |-> "idle", opt |-> "default", prev |-> 0,
            parent |-> 0, block |-> 0, list |-> <<>>, err |-> "none"]

Sequential == \E c \in Calls : env.callers = {c}
Validated  == "noValidate" \notin env.options

At(c, pc)    == calls[c].pc = pc
Set(c, k)    == calls' = [calls EXCEPT ![c] = k]
Return(k)    == [NewCall EXCEPT !.op = k.op, !.block = k.block, !.list = k.list,
                                !.parent = k.parent]
Reject(k, e) == [NewCall EXCEPT !.op = k.op, !.block = k.block, !.err = e]

(***************************************************************************)
(* Walks over stored blocks, which never change.                           *)
(***************************************************************************)
IsStored(b) == b \in DOMAIN blocks

(* A child chain hangs under b when its first block has b as its parent. *)
IsChildRoot(n, b) == blocks[n].prev = 0 /\ blocks[n].parent = b

(* The members of s that are in S, one by one in the order of s. *)
Matching(s, S) ==
    LET found[i \in 0 .. Len(s)] ==
            IF i = 0 THEN <<>>
            ELSE IF s[i] \in S THEN Append(found[i - 1], s[i]) ELSE found[i - 1]
    IN  found[Len(s)]

(* The scan of the storage, in the order of the storage's keys. *)
ChildRoots(b) ==
    Matching([n \in DOMAIN blocks |-> n], {n \in DOMAIN blocks : IsChildRoot(n, b)})

(* performParentScan: b, its parent, and so on; <<>> stands for the error   *)
(* the scan ends with when one of them is missing.                         *)
ParentScan(b) ==
    LET scan[n \in DOMAIN blocks] ==
            LET p == blocks[n].parent IN
            IF p = 0 THEN <<n>>
            ELSE IF IsStored(p) /\ scan[p] # <<>> THEN <<n>> \o scan[p] ELSE <<>>
    IN  IF IsStored(b) THEN scan[b] ELSE <<>>

(* validateBlockchain, as far as layer 2 tells blocks apart: the walk back *)
(* along prev meets a missing block or ends at a root.                     *)
ChainValid(b) ==
    LET valid[n \in DOMAIN blocks] ==
            \/ blocks[n].prev = 0
            \/ IsStored(blocks[n].prev) /\ valid[blocks[n].prev]
    IN  IsStored(b) /\ valid[b]

(* validateBlocktree validates the chain behind b, then behind its parent, *)
(* and so on up to a block without one.                                    *)
ValidateBlocktree(b) ==
    LET valid[n \in DOMAIN blocks] ==
            /\ ChainValid(n)
            /\ \/ blocks[n].parent = 0
               \/ IsStored(blocks[n].parent) /\ valid[blocks[n].parent]
    IN  IsStored(b) /\ valid[b]

TypeOK ==
    /\ blocks \in Seq(Block) /\ Len(blocks) <= MaxBlocks
    /\ childCache \in [Hash -> [cached : BOOLEAN, list : Seq(1 .. MaxBlocks)]]
    /\ calls \in [Calls -> Call]
    /\ env \in Environments

Init ==
    /\ blocks = <<>>
    /\ childCache = [b \in Hash |-> NotCached]
    /\ calls = [c \in Calls |-> NewCall]
    /\ env \in Environments

(***************************************************************************)
(* writeBlock: check that the parent is stored (listBlocks), hand the      *)
(* block to layer 1, then push it onto its parent's list of children.      *)
(***************************************************************************)

(* Mutant: the parent is not looked up. *)
ParentRefusedNever(parent, o) == FALSE

ParentRefused(parent, o) == o # "noValidate" /\ parent # 0 /\ ~IsStored(parent)

StartWrite(c, prev, parent, o) ==
    LET k == [NewCall EXCEPT !.op = "write", !.pc = "layer1", !.opt = o,
                             !.prev = prev, !.parent = parent]
    IN  /\ At(c, "idle")
        /\ Set(c, IF ParentRefused(parent, o) THEN Reject(k, "invalidParentBlock") ELSE k)
        /\ UNCHANGED <<blocks, childCache>>

(* Layer 1 refuses an unknown prev, one that is newer than the clock, and  *)
(* one its cache or a scan knows a successor of.  It knows them all when   *)
(* calls are awaited and no call ended before it cached its block.         *)
ChecksPrev(k) == k.opt # "noValidate" /\ k.prev # 0

SuccessorKnown(b) ==
    Sequential /\ ChainValid(b) /\ \E n \in DOMAIN blocks : blocks[n].prev = b

Layer1Check(c) ==
    LET k == calls[c] IN
    /\ At(c, "layer1")
    /\ \/ ChecksPrev(k) /\ Set(c, Reject(k, "prevRefused"))
       \/ /\ ChecksPrev(k) => IsStored(k.prev) /\ ~SuccessorKnown(k.prev)
          /\ Set(c, [k EXCEPT !.pc = "store"])
    /\ UNCHANGED <<blocks, childCache>>

(* Under validation layer 1 then looks for the root of the chain; when the *)
(* walk meets a missing block it rejects, with the block stored.           *)
Layer1Store(c) ==
    LET k == calls[c]
        w == [k EXCEPT !.block = Len(blocks) + 1, !.pc = "push"]
    IN  /\ At(c, "store")
        /\ IF Len(blocks) < MaxBlocks
           THEN /\ blocks' = Append(blocks, [prev |-> k.prev, parent |-> k.parent])
                /\ Set(c, IF ChecksPrev(k) /\ ~ChainValid(k.prev) THEN Reject(k, "notFound")
                          ELSE IF k.parent = 0 THEN Return(w) ELSE w)
           ELSE /\ Set(c, Reject(k, "full"))
                /\ UNCHANGED blocks
        /\ UNCHANGED childCache

(* Mutant: the new child is put in front. *)
PushedInFront(entry, b) == Cached(<<b>> \o entry.list)

(* Mutant: the number of the next block is pushed. *)
PushedNext(entry, b) == Cached(Append(entry.list, b + 1))

(* pushCache: append to the cached list, creating it when it is absent. *)
Pushed(entry, b) == Cached(Append(entry.list, b))

Push(c) ==
    LET k == calls[c] IN
    /\ At(c, "push")
    /\ childCache' = [childCache EXCEPT ![k.parent] = Pushed(@, k.block)]
    /\ Set(c, Return(k))
    /\ UNCHANGED blocks

(***************************************************************************)
(* performChildScan: the cached list, else a scan of the storage that then *)
(* replaces the cached list.                                               *)
(***************************************************************************)
StartScan(c, b) ==
    /\ At(c, "idle")
    /\ Set(c, [NewCall EXCEPT !.op = "scan", !.pc = "readChildren", !.parent = b])
    /\ UNCHANGED <<blocks, childCache>>

ReadChildren(c) ==
    LET k == calls[c]
        entry == childCache[k.parent]
    IN  /\ At(c, "readChildren")
        /\ IF entry.cached THEN Set(c, Return([k EXCEPT !.list = entry.list]))
           ELSE Set(c, [k EXCEPT !.pc = "scanChildren"])
        /\ UNCHANGED <<blocks, childCache>>

ScanChildren(c) ==
    LET k == calls[c] IN
    /\ At(c, "scanChildren")
    /\ Set(c, [k EXCEPT !.pc = "fillChildren", !.list = ChildRoots(k.parent)])
    /\ UNCHANGED <<blocks, childCache>>

(* Mutant: the list is filed under the first child instead of the parent. *)
FillChildrenElsewhere(c) ==
    LET k == calls[c] IN
    /\ At(c, "fillChildren")
    /\ childCache' = IF k.list = <<>> THEN childCache
                     ELSE [childCache EXCEPT ![Head(k.list)] = Cached(k.list)]
    /\ Set(c, Return(k))
    /\ UNCHANGED blocks

FillChildren(c) ==
    LET k == calls[c] IN
    /\ At(c, "fillChildren")
    /\ childCache' = [childCache EXCEPT ![k.parent] = Cached(k.list)]
    /\ Set(c, Return(k))
    /\ UNCHANGED blocks

(***************************************************************************)
(* The specification.                                                      *)
(***************************************************************************)
Start(c) ==
    \/ \E prev, parent \in DOMAIN blocks \cup {0, Unknown}, o \in env.options :
          StartWrite(c, prev, parent, o)
    \/ \E b \in DOMAIN blocks : StartScan(c, b)

Continue(c) ==
    \/ Layer1Check(c) \/ Layer1Store(c) \/ Push(c)
    \/ ReadChildren(c) \/ ScanChildren(c) \/ FillChildren(c)

Next == \E c \in env.callers : (Start(c) \/ Continue(c)) /\ UNCHANGED env

Spec == Init /\ [][Next]_vars

(***************************************************************************)
(* Properties.                                                             *)
(***************************************************************************)
(* A cached child is a stored block whose parent is the block it is cached *)
(* under, whatever order pushes and fills come in.                         *)
ChildCacheSound ==
    \A b \in Hash : \A n \in Range(childCache[b].list) :
        IsStored(n) /\ blocks[n].parent = b

(* Every validated block is accepted by validateBlocktree, and its parent  *)
(* scan ends at a block without a parent: the tree has no dangling and no  *)
(* circular parent, whatever was stored between the check and the write.   *)
EveryBlockValidates ==
    Validated => \A b \in DOMAIN blocks : ValidateBlocktree(b) /\ ParentScan(b) # <<>>

(* With one call at a time, performChildScan finds the child chains of its *)
(* block, each once and in the order of the storage, whether its list was  *)
(* filled by a scan or pushed by the writers.                              *)
ChildScanExact ==
    Sequential => \A c \in Calls : At(c, "idle") /\ calls[c].op = "scan" =>
        Matching(calls[c].list, {n \in DOMAIN blocks : blocks[n].prev = 0})
            = ChildRoots(calls[c].parent)

(* performChildScan lists "the root block of all child blockchains", not   *)
(* the later blocks of those chains.                                       *)
ChildScanListsRoots ==
    \A c \in Calls : At(c, "idle") /\ calls[c].op = "scan" =>
        \A n \in Range(calls[c].list) : blocks[n].prev = 0
=============================================================================
