-------------------------- MODULE BlockchainProofs --------------------------
(***************************************************************************)
(* Proofs about Blockchain, for every number of calls, every storage size, *)
(* every set of timestamps and every interleaving.                         *)
(***************************************************************************)
EXTENDS Blockchain, LeastNumber, SequenceTheorems

(***************************************************************************)
(* Facts about the storage.                                                *)
(***************************************************************************)

(* FindNext is 0 when nothing follows b, else a block that follows b. *)
LEMMA FindNextSpec ==
    ASSUME NEW b, store \in Seq(Block)
    PROVE  \/ FindNext(b) = 0 /\ Successors(b) = {}
           \/ /\ FindNext(b) \in DOMAIN store
              /\ store[FindNext(b)].prev = b
<1>1. CASE Successors(b) = {}
  BY <1>1 DEF FindNext
<1>2. CASE Successors(b) # {}
  <2>1. Successors(b) \in SUBSET Nat
    BY DEF Successors
  <2>2. \E n \in Successors(b) : \A m \in Successors(b) : n <= m
    BY <1>2, <2>1, LeastElement
  <2>3. FindNext(b) \in Successors(b)
    BY <1>2, <2>2 DEF FindNext
  <2> QED
    BY <2>3 DEF Successors
<1> QED
  BY <1>1, <1>2

(* The root a walk returns is a stored block, or 0. *)
LEMMA GetRootBlockRange ==
    ASSUME NEW b
    PROVE  GetRootBlock(b) \in DOMAIN store \cup {0}
BY DEF GetRootBlock

(* Storing a block keeps the blocks already stored. *)
LEMMA StoreGrows ==
    ASSUME store \in Seq(Block), NEW e \in Block, store' = Append(store, e)
    PROVE  /\ store' \in Seq(Block)
           /\ Len(store') = Len(store) + 1
           /\ DOMAIN store' = 1 .. Len(store) + 1
           /\ DOMAIN store = 1 .. Len(store)
           /\ \A b \in DOMAIN store : store'[b] = store[b]
           /\ store'[Len(store) + 1] = e
<1>1. /\ store' \in Seq(Block)
      /\ Len(store') = Len(store) + 1
      /\ \A b \in 1 .. Len(store) : store'[b] = store[b]
      /\ store'[Len(store) + 1] = e
  BY AppendProperties
<1>2. DOMAIN store' = 1 .. Len(store') /\ DOMAIN store = 1 .. Len(store)
  BY <1>1
<1> QED
  BY <1>1, <1>2

(***************************************************************************)
(* Type correctness.  TypeOK alone is not inductive: that an action leaves *)
(* the caches and the storage well typed depends on where its call is.     *)
(***************************************************************************)
Asking  == {"readNext", "scanNext", "fillNext"}
Written == {"cacheRoot", "putRoot", "cacheHead", "cacheNext", "cacheNull"}
Place   == 1 .. MaxBlocks

(* What the local state of a call holds at each stretch. *)
CallTyped(k) ==
    /\ k.pc \in Asking => k.arg \in Hash /\ k.ret \in {"head", "next", "write"}
    /\ k.pc \in Asking /\ k.ret = "head" => k.arg \in Place /\ k.root \in Place
    /\ k.pc \in {"readHead", "fillHead"} =>
          k.arg \in Place /\ k.root \in Place /\ k.ret = "head"
    /\ k.pc \in Asking /\ k.ret = "write" => k.ts \in Times
    /\ k.pc = "fillNext" => k.block \in Place
    /\ k.pc = "store" => k.ts \in Times
    /\ k.pc \in Written => k.block \in Place
    /\ k.pc \in {"putRoot", "cacheHead"} => k.root \in Place
    /\ k.pc = "cacheNext" => k.arg \in Hash

TypeInv == TypeOK /\ \A c \in Calls : CallTyped(calls[c])

(* Replacing one call's state by a well-typed one. *)
LEMMA SetTyped ==
    ASSUME calls \in [Calls -> Call], \A d \in Calls : CallTyped(calls[d]),
           NEW c \in Calls, NEW k \in Call, CallTyped(k), Set(c, k)
    PROVE  /\ calls' \in [Calls -> Call]
           /\ \A d \in Calls : CallTyped(calls'[d])
<1>1. calls' \in [Calls -> Call]
  BY DEF Set
<1>2. \A d \in Calls : calls'[d] = IF d = c THEN k ELSE calls[d]
  BY DEF Set
<1> QED
  BY <1>1, <1>2

(* A cache stays a cache. *)
LEMMA WriteCacheTyped ==
    ASSUME NEW cache \in [Hash -> 0 .. MaxBlocks \cup {NotCached}],
           NEW b \in Hash, NEW v \in 0 .. MaxBlocks
    PROVE  WriteCache(cache, b, v) \in [Hash -> 0 .. MaxBlocks \cup {NotCached}]
BY DEF WriteCache

(* Returning or rejecting leaves the call idle and well typed. *)
LEMMA ReturnTyped ==
    ASSUME NEW k \in Call, NEW b \in Nat, NEW e \in Errs
    PROVE  /\ NewCall \in Call /\ CallTyped(NewCall)
           /\ Return(k, b) \in Call /\ CallTyped(Return(k, b))
           /\ Reject(k, e) \in Call /\ CallTyped(Reject(k, e))
<1>1. NewCall \in Call /\ NewCall.pc = "idle"
  BY DEF NewCall, Call, Ops, PCs, Errs
<1>2. Return(k, b) \in Call /\ Return(k, b).pc = "idle"
  BY <1>1 DEF Return, Call
<1>3. Reject(k, e) \in Call /\ Reject(k, e).pc = "idle"
  BY <1>1 DEF Reject, Call
<1>4. ASSUME NEW r, r.pc = "idle" PROVE CallTyped(r)
  BY <1>4 DEF CallTyped, Asking, Written
<1> QED
  BY <1>1, <1>2, <1>3, <1>4

(* Handing the answer of getNextBlock to its caller. *)
LEMMA AfterNextTyped ==
    ASSUME BlockchainAssumption,
           NEW k \in Call, NEW n \in 0 .. MaxBlocks,
           k.arg \in Hash, k.ret \in {"head", "next", "write"},
           k.ret = "head" => k.arg \in Place /\ k.root \in Place,
           k.ret = "write" => k.ts \in Times
    PROVE  AfterNext(k, n) \in Call /\ CallTyped(AfterNext(k, n))
<1>0. n \in Nat /\ (n # 0 => n \in Place /\ n \in Hash)
  BY DEF BlockchainAssumption, Place, Hash, Unknown
<1>1. CASE k.ret = "write"
  <2>1. CASE n = 0
    <3>1. AfterNext(k, n) = [k EXCEPT !.pc = "store"]
      BY <1>1, <2>1 DEF AfterNext
    <3> QED
      BY <1>1, <3>1 DEF Call, PCs, CallTyped, Asking, Written
  <2>2. CASE n # 0
    <3>1. AfterNext(k, n) = Reject(k, "nextBlockExists")
      BY <1>1, <2>2 DEF AfterNext
    <3> QED
      BY <1>0, <3>1, ReturnTyped DEF Errs
  <2> QED
    BY <2>1, <2>2
<1>2. CASE k.ret = "next"
  <2>1. AfterNext(k, n) = Return(k, n)
    BY <1>2 DEF AfterNext
  <2> QED
    BY <1>0, <2>1, ReturnTyped DEF Errs
<1>3. CASE k.ret = "head"
  <2>1. CASE n = 0
    <3>1. AfterNext(k, n) = [k EXCEPT !.pc = "fillHead"]
      BY <1>3, <2>1 DEF AfterNext
    <3> QED
      BY <1>3, <3>1 DEF Call, PCs, CallTyped, Asking, Written
  <2>2. CASE n # 0
    <3>1. AfterNext(k, n) = [k EXCEPT !.pc = "readNext", !.arg = n]
      BY <1>3, <2>2 DEF AfterNext
    <3> QED
      BY <1>0, <1>3, <2>2, <3>1 DEF Call, PCs, CallTyped, Asking, Written
  <2> QED
    BY <2>1, <2>2
<1> QED
  BY <1>1, <1>2, <1>3

(* Handing the answer of getHeadBlock to its caller. *)
LEMMA AfterHeadTyped ==
    ASSUME BlockchainAssumption, NEW k \in Call, NEW h \in 0 .. MaxBlocks
    PROVE  AfterHead(k, h) \in Call /\ CallTyped(AfterHead(k, h))
<1>0. h \in Nat /\ h \in Hash \cup {0}
  BY DEF BlockchainAssumption, Hash, Unknown
<1>1. CASE k.op = "append"
  <2>1. AfterHead(k, h) \in Call
    BY <1>0, <1>1 DEF AfterHead, NewCall, Call, Ops, PCs, Errs
  <2>2. CallTyped(AfterHead(k, h))
    BY <1>0, <1>1 DEF AfterHead, NewCall, Call, CallTyped, Asking, Written
  <2> QED
    BY <2>1, <2>2
<1>2. CASE k.op # "append"
  BY <1>0, <1>2, ReturnTyped DEF AfterHead, Errs
<1> QED
  BY <1>1, <1>2

(***************************************************************************)
(* One lemma per stretch: it keeps TypeInv.                                *)
(***************************************************************************)
LEMMA StartTyped ==
    ASSUME BlockchainAssumption, TypeInv, NEW c \in Calls, Start(c)
    PROVE  TypeInv'
<1>. USE DEF TypeInv, TypeOK
<1>1. DOMAIN store \subseteq Place /\ Place \subseteq Hash /\ Unknown \in Hash
      /\ Place \subseteq Nat /\ Hash \subseteq Nat
  BY DEF BlockchainAssumption, Place, Hash, Unknown
<1>2. ASSUME NEW p \in DOMAIN store \cup {0, Unknown}, NEW o \in Options,
             StartWrite(c, p, o)
      PROVE  TypeInv'
  <2>. DEFINE k == [NewCall EXCEPT !.op = "write", !.pc = "begin", !.opt = o, !.arg = p]
  <2>1. k \in Call /\ CallTyped(k)
    BY <1>1 DEF NewCall, Call, Ops, PCs, Errs, CallTyped, Asking, Written
  <2>2. UNCHANGED <<store, caches>> /\ Set(c, k)
    BY <1>2 DEF StartWrite
  <2> QED
    BY <2>1, <2>2, SetTyped DEF caches
<1>3. ASSUME NEW b \in DOMAIN store, NEW op \in {"head", "append"}, StartHead(c, b, op)
      PROVE  TypeInv'
  <2>. DEFINE k == [NewCall EXCEPT !.op = op, !.pc = "readHead", !.ret = "head",
                                   !.arg = b, !.root = GetRootBlock(b)]
  <2>1. UNCHANGED <<store, caches>>
        /\ Set(c, IF GetRootBlock(b) = 0 THEN Reject(k, "notFound") ELSE k)
    BY <1>3 DEF StartHead
  <2>2. GetRootBlock(b) \in Place \cup {0}
    BY <1>1, GetRootBlockRange
  <2>3. k \in Call
    <3>1. op \in Ops /\ b \in Hash
      BY <1>1 DEF Ops
    <3>2. GetRootBlock(b) \in Nat
      <4>1. \A r \in Place \cup {0} : r \in Nat
        BY <1>1
      <4> QED
        BY <2>2, <4>1
    <3>3. \A r \in Nat : [NewCall EXCEPT !.op = op, !.pc = "readHead", !.ret = "head",
                                         !.arg = b, !.root = r] \in Call
      BY <3>1 DEF NewCall, Call, Ops, PCs, Errs
    <3> QED
      BY <3>2, <3>3
  <2>4. CASE GetRootBlock(b) = 0
    BY <2>1, <2>3, <2>4, ReturnTyped, SetTyped DEF Errs, caches
  <2>5. CASE GetRootBlock(b) # 0
    <3>1. CallTyped(k)
      BY <1>1, <2>2, <2>5 DEF NewCall, CallTyped, Asking, Written
    <3> QED
      BY <2>1, <2>3, <2>5, <3>1, SetTyped DEF caches
  <2> QED
    BY <2>4, <2>5
<1>4. ASSUME NEW b \in DOMAIN store, StartNext(c, b)
      PROVE  TypeInv'
  <2>. DEFINE k == [NewCall EXCEPT !.op = "next", !.pc = "readNext",
                                   !.ret = "next", !.arg = b]
  <2>1. k \in Call /\ CallTyped(k)
    BY <1>1 DEF NewCall, Call, Ops, PCs, Errs, CallTyped, Asking, Written
  <2>2. UNCHANGED <<store, caches>> /\ Set(c, k)
    BY <1>4 DEF StartNext
  <2> QED
    BY <2>1, <2>2, SetTyped DEF caches
<1> QED
  BY <1>2, <1>3, <1>4 DEF Start

LEMMA ReadersTyped ==
    ASSUME BlockchainAssumption, TypeInv, NEW c \in Calls,
           \/ ReadHead(c) \/ FillHead(c)
           \/ ReadNext(c) \/ ScanNext(c) \/ FillNext(c)
    PROVE  TypeInv'
<1>. DEFINE k == calls[c]
<1>. USE DEF TypeInv, TypeOK
<1>0. /\ k \in Call /\ CallTyped(k)
      /\ DOMAIN store \subseteq 0 .. MaxBlocks /\ DOMAIN store \subseteq Place
      /\ Place \subseteq Hash /\ Place \subseteq 0 .. MaxBlocks
      /\ 0 \in 0 .. MaxBlocks /\ 0 .. MaxBlocks \subseteq Nat /\ NotCached \notin Nat
  BY DEF BlockchainAssumption, Place, Hash, Unknown, NotCached
<1>1. CASE ReadHead(c)
  <2>1. k.root \in Place /\ k.arg \in Place /\ k.ret = "head" /\ k.pc = "readHead"
    BY <1>0, <1>1 DEF ReadHead, At, CallTyped
  <2>2. CASE headCache[k.root] = NotCached
    <3>. DEFINE r == [k EXCEPT !.pc = "readNext"]
    <3>1. r \in Call /\ CallTyped(r)
      BY <1>0, <2>1 DEF Call, PCs, CallTyped, Asking, Written
    <3>2. Set(c, r) /\ UNCHANGED <<store, caches>>
      BY <1>1, <2>2 DEF ReadHead, Goto, Set
    <3> QED
      BY <3>1, <3>2, SetTyped DEF caches
  <2>3. CASE headCache[k.root] # NotCached
    <3>1. headCache[k.root] \in 0 .. MaxBlocks
      BY <1>0, <2>1, <2>3
    <3>2. Set(c, AfterHead(k, headCache[k.root])) /\ UNCHANGED <<store, caches>>
      BY <1>1, <2>3 DEF ReadHead
    <3> QED
      BY <1>0, <3>1, <3>2, AfterHeadTyped, SetTyped DEF caches
  <2> QED
    BY <2>2, <2>3
<1>2. CASE FillHead(c)
  <2>1. k.root \in Hash /\ k.arg \in 0 .. MaxBlocks
    BY <1>0, <1>2 DEF FillHead, At, CallTyped
  <2>2. /\ headCache' = WriteCache(headCache, k.root, k.arg)
        /\ Set(c, AfterHead(k, k.arg))
        /\ UNCHANGED <<store, nextCache, rootCache>>
    BY <1>2 DEF FillHead
  <2> QED
    BY <1>0, <2>1, <2>2, AfterHeadTyped, SetTyped, WriteCacheTyped
<1>3. CASE ReadNext(c)
  <2>1. k.arg \in Hash /\ k.pc = "readNext"
    BY <1>0, <1>3 DEF ReadNext, At, CallTyped, Asking
  <2>2. CASE nextCache[k.arg] = NotCached
    <3>. DEFINE r == [k EXCEPT !.pc = "scanNext"]
    <3>1. r \in Call /\ CallTyped(r)
      BY <1>0, <2>1 DEF Call, PCs, CallTyped, Asking, Written
    <3>2. Set(c, r) /\ UNCHANGED <<store, caches>>
      BY <1>3, <2>2 DEF ReadNext, Goto, Set
    <3> QED
      BY <3>1, <3>2, SetTyped DEF caches
  <2>3. CASE nextCache[k.arg] # NotCached
    <3>1. nextCache[k.arg] \in 0 .. MaxBlocks
      BY <1>0, <2>1, <2>3
    <3>2. Set(c, AfterNext(k, nextCache[k.arg])) /\ UNCHANGED <<store, caches>>
      BY <1>3, <2>3 DEF ReadNext
    <3>3. /\ AfterNext(k, nextCache[k.arg]) \in Call
          /\ CallTyped(AfterNext(k, nextCache[k.arg]))
      BY <1>0, <2>1, <3>1, AfterNextTyped DEF CallTyped, Asking
    <3> QED
      BY <3>2, <3>3, SetTyped DEF caches
  <2> QED
    BY <2>2, <2>3
<1>4. CASE ScanNext(c)
  <2>1. k.arg \in Hash /\ k.pc = "scanNext"
    BY <1>0, <1>4 DEF ScanNext, At, CallTyped, Asking
  <2>2. FindNext(k.arg) \in Place \cup {0}
    BY <1>0, FindNextSpec
  <2>3. CASE FindNext(k.arg) = 0
    <3>1. Set(c, AfterNext(k, 0)) /\ UNCHANGED <<store, caches>>
      BY <1>4, <2>3 DEF ScanNext
    <3>2. AfterNext(k, 0) \in Call /\ CallTyped(AfterNext(k, 0))
      BY <1>0, <2>1, AfterNextTyped DEF CallTyped, Asking
    <3> QED
      BY <3>1, <3>2, SetTyped DEF caches
  <2>4. CASE FindNext(k.arg) # 0
    <3>. DEFINE r == [k EXCEPT !.pc = "fillNext", !.block = FindNext(k.arg)]
    <3>1. r \in Call /\ CallTyped(r)
      BY <1>0, <2>1, <2>2, <2>4 DEF Call, PCs, CallTyped, Asking, Written
    <3>2. Set(c, r) /\ UNCHANGED <<store, caches>>
      BY <1>4, <2>4 DEF ScanNext
    <3> QED
      BY <3>1, <3>2, SetTyped DEF caches
  <2> QED
    BY <2>3, <2>4
<1>5. CASE FillNext(c)
  <2>. DEFINE r == [k EXCEPT !.block = 0]
  <2>1. k.arg \in Hash /\ k.pc = "fillNext" /\ k.block \in 0 .. MaxBlocks
    BY <1>0, <1>5 DEF FillNext, At, CallTyped, Asking
  <2>2. /\ nextCache' = WriteCache(nextCache, k.arg, k.block)
        /\ Set(c, AfterNext(r, k.block))
        /\ UNCHANGED <<store, headCache, rootCache>>
    BY <1>5 DEF FillNext
  <2>3. r \in Call /\ r.arg = k.arg /\ r.ret = k.ret /\ r.root = k.root /\ r.ts = k.ts
    BY <1>0 DEF Call
  <2>4. AfterNext(r, k.block) \in Call /\ CallTyped(AfterNext(r, k.block))
    BY <1>0, <2>1, <2>3, AfterNextTyped DEF CallTyped, Asking
  <2> QED
    BY <1>0, <2>1, <2>2, <2>4, SetTyped, WriteCacheTyped
<1> QED
  BY <1>1, <1>2, <1>3, <1>4, <1>5

LEMMA WritersTyped ==
    ASSUME BlockchainAssumption, TypeInv, NEW c \in Calls,
           \/ \E t \in Times : Begin(c, t)
           \/ Store(c)
           \/ CacheRoot(c) \/ PutRoot(c) \/ CacheHead(c)
           \/ CacheNext(c) \/ CacheNull(c)
    PROVE  TypeInv'
<1>. DEFINE k == calls[c]
<1>. USE DEF TypeInv, TypeOK
<1>0. /\ k \in Call /\ CallTyped(k)
      /\ DOMAIN store \subseteq 0 .. MaxBlocks /\ DOMAIN store \subseteq Place
      /\ Place \subseteq Hash /\ Place \subseteq 0 .. MaxBlocks
      /\ 0 \in 0 .. MaxBlocks /\ 0 .. MaxBlocks \subseteq Nat /\ NotCached \notin Nat
      /\ k.opt \in Options \cup {"default"} /\ k.arg \in Hash \cup {0}
      /\ 0 \notin Hash
  BY DEF BlockchainAssumption, Place, Hash, Unknown, NotCached, Call
<1>1. ASSUME NEW t \in Times, Begin(c, t) PROVE TypeInv'
  <2>. DEFINE e == CheckPrev(k.arg, t, k.opt)
              w == [k EXCEPT !.ts = t, !.seq = SeqAfter(k.arg), !.ret = "write",
                       !.pc = IF k.opt # "noValidate" /\ k.arg # 0
                              THEN "readNext" ELSE "store"]
  <2>1. Set(c, IF e = "none" THEN w ELSE Reject(k, e)) /\ UNCHANGED <<store, caches>>
    BY <1>1 DEF Begin
  <2>2. e \in Errs
    BY DEF CheckPrev, Errs
  <2>3. SeqAfter(k.arg) \in Nat
    <3>1. CASE IsStored(k.arg)
      <4>1. store[k.arg] \in Block
        BY <3>1 DEF IsStored
      <4> QED
        BY <3>1, <4>1 DEF SeqAfter, Block
    <3>2. CASE ~ IsStored(k.arg)
      BY <3>2 DEF SeqAfter
    <3> QED
      BY <3>1, <3>2
  <2>4. w \in Call /\ CallTyped(w)
    <3>1. w \in Call
      BY <1>0, <2>3 DEF Call, PCs
    <3>2. CallTyped(w)
      BY <1>0, <2>3 DEF Call, CallTyped, Asking, Written
    <3> QED
      BY <3>1, <3>2
  <2>5. CASE e = "none"
    BY <2>1, <2>4, <2>5, SetTyped DEF caches
  <2>6. CASE e # "none"
    BY <1>0, <2>1, <2>2, <2>6, ReturnTyped, SetTyped DEF caches
  <2> QED
    BY <2>5, <2>6
<1>2. CASE Store(c)
  <2>1. k.ts \in Times /\ k.seq \in Nat /\ k.pc = "store" /\ UNCHANGED caches
    BY <1>0, <1>2 DEF Store, At, CallTyped, Call
  <2>2. CASE Len(store) < MaxBlocks
    <3>. DEFINE b == Len(store) + 1
                e == [prev |-> k.arg, seq |-> k.seq, ts |-> k.ts]
                w == [k EXCEPT !.block = b,
                               !.pc = IF CachesRoot(k.opt) THEN "cacheRoot"
                                      ELSE AfterHeadCached(k)]
    <3>1. store' = Append(store, e) /\ Set(c, w)
      BY <1>2, <2>2 DEF Store
    <3>2. e \in Block
      BY <1>0, <2>1 DEF Block
    <3>3. store' \in Seq(Block) /\ Len(store') <= MaxBlocks
      BY <2>2, <3>1, <3>2, StoreGrows DEF BlockchainAssumption
    <3>4. b \in Place /\ b \in Nat
      BY <2>2 DEF Place, BlockchainAssumption
    <3>5. w \in Call /\ CallTyped(w)
      <4>. DEFINE pc == IF CachesRoot(k.opt) THEN "cacheRoot" ELSE AfterHeadCached(k)
      <4>1. pc \in {"cacheRoot", "cacheNext", "cacheNull"}
        BY DEF AfterHeadCached
      <4>2. pc = "cacheNext" => k.arg \in Hash
        BY <1>0 DEF AfterHeadCached
      <4>. HIDE DEF pc
      <4>3. w = [k EXCEPT !.block = b, !.pc = pc]
        BY DEF pc
      <4>. HIDE DEF b, w
      <4>4. w \in Call
        BY <1>0, <3>4, <4>1, <4>3 DEF Call, PCs
      <4>5. CallTyped(w)
        BY <1>0, <3>4, <4>1, <4>2, <4>3 DEF Call, CallTyped, Asking, Written
      <4> QED
        BY <4>4, <4>5
    <3> QED
      BY <2>1, <3>1, <3>3, <3>5, SetTyped DEF caches
  <2>3. CASE ~ (Len(store) < MaxBlocks)
    <3>1. Set(c, Reject(k, "full")) /\ UNCHANGED store
      BY <1>2, <2>3 DEF Store
    <3> QED
      BY <1>0, <2>1, <3>1, ReturnTyped, SetTyped DEF caches, Errs
  <2> QED
    BY <2>2, <2>3
<1>3. CASE CacheRoot(c)
  <2>1. k.block \in Place /\ k.pc = "cacheRoot" /\ UNCHANGED <<store, nextCache, headCache>>
    BY <1>0, <1>3 DEF CacheRoot, At, CallTyped, Written
  <2>2. CASE k.arg = 0
    <3>. DEFINE r == [k EXCEPT !.pc = "cacheHead", !.root = k.block]
    <3>1. rootCache' = WriteCache(rootCache, k.block, k.block) /\ Set(c, r)
      BY <1>3, <2>2 DEF CacheRoot
    <3>2. r \in Call /\ CallTyped(r)
      BY <1>0, <2>1 DEF Call, PCs, CallTyped, Asking, Written
    <3> QED
      BY <1>0, <2>1, <3>1, <3>2, SetTyped, WriteCacheTyped
  <2>3. CASE k.arg # 0 /\ RootFromPrev(k) # 0
    <3>. DEFINE r == [k EXCEPT !.pc = "putRoot", !.root = RootFromPrev(k)]
    <3>1. Set(c, r) /\ UNCHANGED rootCache
      BY <1>3, <2>3 DEF CacheRoot
    <3>2. RootFromPrev(k) \in 0 .. MaxBlocks
      BY <1>0, <2>3, GetRootBlockRange DEF RootFromPrev
    <3>3. RootFromPrev(k) \in Place /\ RootFromPrev(k) \in Nat
      BY <2>3, <3>2 DEF Place
    <3>4. r \in Call /\ CallTyped(r)
      BY <1>0, <2>1, <3>3 DEF Call, PCs, CallTyped, Asking, Written
    <3> QED
      BY <2>1, <3>1, <3>4, SetTyped
  <2>4. CASE k.arg # 0 /\ RootFromPrev(k) = 0
    <3>1. Set(c, Reject(k, "notFound")) /\ UNCHANGED rootCache
      BY <1>3, <2>4 DEF CacheRoot
    <3> QED
      BY <1>0, <2>1, <3>1, ReturnTyped, SetTyped DEF Errs
  <2> QED
    BY <2>2, <2>3, <2>4
<1>4. CASE PutRoot(c)
  <2>. DEFINE r == [k EXCEPT !.pc = "cacheHead"]
  <2>1. k.block \in Place /\ k.root \in Place /\ k.pc = "putRoot"
    BY <1>0, <1>4 DEF PutRoot, At, CallTyped, Written
  <2>2. /\ rootCache' = WriteCache(rootCache, k.block, k.root)
        /\ Set(c, r) /\ UNCHANGED <<store, nextCache, headCache>>
    BY <1>4 DEF PutRoot, Goto, Set
  <2>3. r \in Call /\ CallTyped(r)
    BY <1>0, <2>1 DEF Call, PCs, CallTyped, Asking, Written
  <2> QED
    BY <1>0, <2>1, <2>2, <2>3, SetTyped, WriteCacheTyped
<1>5. CASE CacheHead(c)
  <2>. DEFINE r == [k EXCEPT !.pc = AfterHeadCached(k)]
  <2>1. k.block \in Place /\ k.root \in Place /\ k.pc = "cacheHead"
    BY <1>0, <1>5 DEF CacheHead, At, CallTyped, Written
  <2>2. /\ headCache' = WriteCache(headCache, k.root, k.block)
        /\ Set(c, r) /\ UNCHANGED <<store, nextCache, rootCache>>
    BY <1>5 DEF CacheHead, Goto, Set
  <2>3. r \in Call /\ CallTyped(r)
    <3>1. AfterHeadCached(k) \in {"cacheNext", "cacheNull"}
          /\ (AfterHeadCached(k) = "cacheNext" => k.arg \in Hash)
      BY <1>0 DEF AfterHeadCached
    <3>2. r \in Call
      BY <1>0, <3>1 DEF Call, PCs
    <3>3. CallTyped(r)
      BY <1>0, <2>1, <3>1 DEF Call, CallTyped, Asking, Written
    <3> QED
      BY <3>2, <3>3
  <2> QED
    BY <1>0, <2>1, <2>2, <2>3, SetTyped, WriteCacheTyped
<1>6. CASE CacheNext(c)
  <2>. DEFINE r == [k EXCEPT !.pc = "cacheNull"]
  <2>1. k.block \in Place /\ k.arg \in Hash /\ k.pc = "cacheNext"
    BY <1>0, <1>6 DEF CacheNext, At, CallTyped, Written
  <2>2. /\ nextCache' = WriteCache(nextCache, k.arg, k.block)
        /\ Set(c, r) /\ UNCHANGED <<store, headCache, rootCache>>
    BY <1>6 DEF CacheNext, Goto, Set
  <2>3. r \in Call /\ CallTyped(r)
    BY <1>0, <2>1 DEF Call, PCs, CallTyped, Asking, Written
  <2> QED
    BY <1>0, <2>1, <2>2, <2>3, SetTyped, WriteCacheTyped
<1>7. CASE CacheNull(c)
  <2>1. k.block \in Place /\ k.block \in Nat
    BY <1>0, <1>7 DEF CacheNull, At, CallTyped, Written
  <2>2. /\ nextCache' = WriteCache(nextCache, k.block, 0)
        /\ Set(c, Return(k, k.block)) /\ UNCHANGED <<store, headCache, rootCache>>
    BY <1>7 DEF CacheNull
  <2>3. Return(k, k.block) \in Call /\ CallTyped(Return(k, k.block))
    BY <1>0, <2>1, ReturnTyped DEF Errs
  <2> QED
    BY <1>0, <2>1, <2>2, <2>3, SetTyped, WriteCacheTyped
<1> QED
  BY <1>1, <1>2, <1>3, <1>4, <1>5, <1>6, <1>7

(***************************************************************************)
(* Every reachable state is well typed: no interleaving of writers and     *)
(* readers leaves a cache, the storage or a call outside its domain.       *)
(***************************************************************************)
LEMMA TypeInvariant == Spec => []TypeInv
<1>1. Init => TypeInv
  <2>1. ASSUME Init PROVE TypeInv
    <3>1. store \in Seq(Block) /\ Len(store) <= MaxBlocks
      BY <2>1, BlockchainAssumption DEF Init, BlockchainAssumption
    <3>2. NewCall \in Call /\ CallTyped(NewCall)
      BY DEF NewCall, Call, Ops, PCs, Errs, CallTyped, Asking, Written
    <3> QED
      BY <2>1, <3>1, <3>2 DEF Init, TypeInv, TypeOK, NotCached
  <2> QED
    BY <2>1
<1>2. TypeInv /\ [Next]_vars => TypeInv'
  <2>1. ASSUME TypeInv, Next PROVE TypeInv'
    BY <2>1, BlockchainAssumption, StartTyped, ReadersTyped, WritersTyped
       DEF Next, Continue
  <2>2. ASSUME TypeInv, UNCHANGED vars PROVE TypeInv'
    BY <2>2 DEF TypeInv, TypeOK, vars
  <2> QED
    BY <2>1, <2>2
<1> QED
  BY <1>1, <1>2, PTL DEF Spec

(* TypeOK, checked by the run on a small instance, holds for every value   *)
(* of the constants.                                                       *)
THEOREM TypeCorrect == Spec => []TypeOK
<1>1. TypeInv => TypeOK
  BY DEF TypeInv
<1> QED
  BY <1>1, TypeInvariant, PTL

(***************************************************************************)
(* What a call remembers about the storage stays true while other calls    *)
(* run: the check of prev that a writer made before its awaits, and the    *)
(* link a writer or a scanning reader is about to cache.                   *)
(***************************************************************************)
Ready(s, k) ==
    \/ k.arg = 0 /\ k.seq = 1
    \/ /\ k.arg \in DOMAIN s
       /\ k.seq = s[k.arg].seq + 1
       /\ s[k.arg].ts <= k.ts

Linked(s, k) == k.block \in DOMAIN s /\ s[k.block].prev = k.arg

CallOK(s, k) ==
    /\ /\ k.opt # "noValidate"
       /\ (k.pc \in Asking /\ k.ret = "write") \/ k.pc = "store"
       => Ready(s, k)
    /\ k.pc = "fillNext" \/ k.pc \in Written => Linked(s, k)

CallInv == \A c \in Calls : CallOK(store, calls[c])

LEMMA CallOKStable ==
    ASSUME TypeInv, NEW k, CallOK(store, k),
           \/ store' = store
           \/ \E e \in Block : store' = Append(store, e)
    PROVE  CallOK(store', k)
<1>1. CASE store' = store
  BY <1>1
<1>2. ASSUME NEW e \in Block, store' = Append(store, e) PROVE CallOK(store', k)
  <2>1. \A b \in DOMAIN store : b \in DOMAIN store' /\ store'[b] = store[b]
    BY <1>2, StoreGrows DEF TypeInv, TypeOK
  <2>2. Ready(store, k) => Ready(store', k)
    BY <2>1 DEF Ready
  <2>3. Linked(store, k) => Linked(store', k)
    BY <2>1 DEF Linked
  <2> QED
    BY <2>2, <2>3 DEF CallOK
<1> QED
  BY <1>1, <1>2

LEMMA AfterNextOK ==
    ASSUME NEW k \in Call, NEW n, k.ret \in {"head", "next", "write"},
           k.opt # "noValidate" /\ k.ret = "write" => Ready(store, k)
    PROVE  CallOK(store, AfterNext(k, n))
<1>1. CASE k.ret = "write" /\ n = 0
  <2>1. AfterNext(k, n) = [k EXCEPT !.pc = "store"]
    BY <1>1 DEF AfterNext
  <2> QED
    BY <1>1, <2>1 DEF CallOK, Ready, Call, Asking, Written
<1>2. CASE k.ret = "write" /\ n # 0
  BY <1>2 DEF AfterNext, Reject, NewCall, CallOK, Asking, Written
<1>3. CASE k.ret = "next"
  BY <1>3 DEF AfterNext, Return, NewCall, CallOK, Asking, Written
<1>4. CASE k.ret = "head" /\ n = 0
  <2>1. AfterNext(k, n) = [k EXCEPT !.pc = "fillHead"]
    BY <1>4 DEF AfterNext
  <2> QED
    BY <2>1 DEF CallOK, Call, Asking, Written
<1>5. CASE k.ret = "head" /\ n # 0
  <2>1. AfterNext(k, n) = [k EXCEPT !.pc = "readNext", !.arg = n]
    BY <1>5 DEF AfterNext
  <2>2. AfterNext(k, n).pc = "readNext" /\ AfterNext(k, n).ret = "head"
    BY <1>5, <2>1 DEF Call
  <2> QED
    BY <2>2 DEF CallOK, Asking, Written
<1> QED
  BY <1>1, <1>2, <1>3, <1>4, <1>5

LEMMA IdleOK ==
    ASSUME NEW s, NEW k, k.pc \in {"idle", "begin", "readHead", "fillHead"}
    PROVE  CallOK(s, k)
BY DEF CallOK, Asking, Written

(* The stretch a call runs leaves it in a state that fits the storage. *)
LEMMA OwnCallOK ==
    ASSUME BlockchainAssumption, TypeInv, CallInv, NEW c \in Calls,
           Start(c) \/ Continue(c)
    PROVE  CallOK(store', calls'[c])
<1>. DEFINE k == calls[c]
<1>0. k \in Call /\ CallTyped(k) /\ CallOK(store, k) /\ DOMAIN calls = Calls
  BY DEF TypeInv, TypeOK, CallInv
<1>a. \A r : Set(c, r) => calls'[c] = r
  BY <1>0 DEF Set
<1>b. \A p : Goto(c, p) => calls'[c] = [k EXCEPT !.pc = p]
  BY <1>0 DEF Goto, Call
<1>c. ASSUME NEW b PROVE Return(k, b).pc = "idle"
  BY DEF Return, NewCall
<1>d. ASSUME NEW e PROVE Reject(k, e).pc = "idle"
  BY DEF Reject, NewCall
<1>e. ASSUME NEW h PROVE AfterHead(k, h).pc \in {"idle", "begin"}
  BY DEF AfterHead, Return, NewCall
<1>1. CASE Start(c)
  <2>1. ASSUME NEW p, NEW o, StartWrite(c, p, o) PROVE calls'[c].pc = "begin"
    BY <1>a, <2>1 DEF StartWrite, NewCall
  <2>2. ASSUME NEW b, NEW op, StartHead(c, b, op)
        PROVE  calls'[c].pc \in {"idle", "readHead"}
    BY <1>a, <2>2 DEF StartHead, Reject, NewCall
  <2>3. ASSUME NEW b, StartNext(c, b)
        PROVE  calls'[c].pc = "readNext" /\ calls'[c].ret = "next"
    BY <1>a, <2>3 DEF StartNext, NewCall
  <2>4. \/ calls'[c].pc \in {"idle", "begin", "readHead"}
        \/ calls'[c].pc = "readNext" /\ calls'[c].ret = "next"
    BY <1>1, <2>1, <2>2, <2>3 DEF Start
  <2> QED
    BY <2>4, IdleOK DEF CallOK, Asking, Written
<1>2. CASE ReadHead(c)
  <2>1. CASE Goto(c, "readNext")
    <3>1. calls'[c] = [k EXCEPT !.pc = "readNext"] /\ k.ret = "head"
      BY <1>0, <1>2, <1>b, <2>1 DEF ReadHead, At, CallTyped
    <3>2. calls'[c].pc = "readNext" /\ calls'[c].ret = "head"
      BY <1>0, <3>1 DEF Call
    <3> QED
      BY <3>2 DEF CallOK, Asking, Written
  <2>2. CASE Set(c, AfterHead(k, headCache[k.root]))
    BY <1>a, <1>e, <2>2, IdleOK
  <2> QED
    BY <1>2, <2>1, <2>2 DEF ReadHead
<1>3. CASE FillHead(c)
  BY <1>3, <1>a, <1>e, IdleOK DEF FillHead
<1>4. CASE ReadNext(c)
  <2>0. store' = store /\ k.pc = "readNext" /\ k.ret \in {"head", "next", "write"}
    BY <1>0, <1>4 DEF ReadNext, At, CallTyped, Asking
  <2>1. k.opt # "noValidate" /\ k.ret = "write" => Ready(store, k)
    BY <1>0, <2>0 DEF CallOK, Asking
  <2>2. CASE Goto(c, "scanNext")
    <3>1. calls'[c] = [k EXCEPT !.pc = "scanNext"]
      BY <1>b, <2>2
    <3> QED
      BY <1>0, <2>0, <2>1, <3>1 DEF CallOK, Ready, Call, Asking, Written
  <2>3. CASE Set(c, AfterNext(k, nextCache[k.arg]))
    BY <1>0, <1>a, <2>0, <2>1, <2>3, AfterNextOK
  <2> QED
    BY <1>4, <2>2, <2>3 DEF ReadNext
<1>5. CASE ScanNext(c)
  <2>0. store' = store /\ k.pc = "scanNext" /\ k.ret \in {"head", "next", "write"}
    BY <1>0, <1>5 DEF ScanNext, At, CallTyped, Asking
  <2>1. k.opt # "noValidate" /\ k.ret = "write" => Ready(store, k)
    BY <1>0, <2>0 DEF CallOK, Asking
  <2>2. CASE FindNext(k.arg) = 0
    BY <1>0, <1>5, <1>a, <2>0, <2>1, <2>2, AfterNextOK DEF ScanNext
  <2>3. CASE FindNext(k.arg) # 0
    <3>. DEFINE r == [k EXCEPT !.pc = "fillNext", !.block = FindNext(k.arg)]
    <3>1. calls'[c] = r
      BY <1>5, <1>a, <2>3 DEF ScanNext
    <3>2. FindNext(k.arg) \in DOMAIN store /\ store[FindNext(k.arg)].prev = k.arg
      BY <2>3, FindNextSpec DEF TypeInv, TypeOK
    <3> QED
      BY <1>0, <2>0, <2>1, <3>1, <3>2 DEF CallOK, Ready, Linked, Call, Asking, Written
  <2> QED
    BY <2>2, <2>3
<1>6. CASE FillNext(c)
  <2>. DEFINE r == [k EXCEPT !.block = 0]
  <2>0. store' = store /\ k.pc = "fillNext" /\ k.ret \in {"head", "next", "write"}
    BY <1>0, <1>6 DEF FillNext, At, CallTyped, Asking
  <2>1. r \in Call /\ r.ret = k.ret
    BY <1>0 DEF Call
  <2>2. r.opt # "noValidate" /\ r.ret = "write" => Ready(store, r)
    BY <1>0, <2>0 DEF CallOK, Ready, Call, Asking
  <2>3. CallOK(store, AfterNext(r, k.block))
    <3>1. r.ret \in {"head", "next", "write"}
      BY <2>0, <2>1
    <3>. HIDE DEF r
    <3> QED
      BY <2>1, <2>2, <3>1, AfterNextOK
  <2> QED
    BY <1>6, <1>a, <2>0, <2>3 DEF FillNext
<1>7. ASSUME NEW t \in Times, Begin(c, t) PROVE CallOK(store', calls'[c])
  <2>. DEFINE e == CheckPrev(k.arg, t, k.opt)
              w == [k EXCEPT !.ts = t, !.seq = SeqAfter(k.arg), !.ret = "write",
                       !.pc = IF k.opt # "noValidate" /\ k.arg # 0
                              THEN "readNext" ELSE "store"]
  <2>1. store' = store /\ ((calls'[c] = w /\ e = "none") \/ calls'[c] = Reject(k, e))
    BY <1>7, <1>a DEF Begin
  <2>2. CASE calls'[c] = Reject(k, e)
    BY <1>d, <2>2, IdleOK
  <2>3. CASE calls'[c] = w /\ e = "none"
    <3>1. /\ w.ts = t /\ w.seq = SeqAfter(k.arg) /\ w.arg = k.arg /\ w.opt = k.opt
          /\ w.pc \in {"readNext", "store"}
      BY <1>0 DEF Call
    <3>2. ASSUME k.opt # "noValidate" PROVE Ready(store, w)
      <4>1. CASE k.arg = 0
        <5>1. ~ IsStored(k.arg)
          BY <4>1 DEF IsStored, TypeInv, TypeOK
        <5> QED
          BY <3>1, <4>1, <5>1 DEF Ready, SeqAfter
      <4>2. CASE k.arg # 0
        <5>1. IsStored(k.arg) /\ ~ (store[k.arg].ts > t)
          BY <2>3, <3>2, <4>2 DEF CheckPrev
        <5>2. store[k.arg] \in Block
          BY <5>1 DEF IsStored, TypeInv, TypeOK
        <5>3. store[k.arg].ts \in Nat /\ t \in Nat
          BY <1>7, <5>2 DEF Block, BlockchainAssumption
        <5>4. store[k.arg].ts <= t
          BY <5>1, <5>3
        <5> QED
          BY <3>1, <5>1, <5>4 DEF Ready, SeqAfter, IsStored
      <4> QED
        BY <4>1, <4>2
    <3> QED
      BY <2>1, <2>3, <3>1, <3>2 DEF CallOK, Asking, Written
  <2> QED
    BY <2>1, <2>2, <2>3
<1>8. CASE Store(c)
  <2>1. CASE Len(store) < MaxBlocks
    <3>. DEFINE b == Len(store) + 1
                e == [prev |-> k.arg, seq |-> k.seq, ts |-> k.ts]
                w == [k EXCEPT !.block = b,
                               !.pc = IF CachesRoot(k.opt) THEN "cacheRoot"
                                      ELSE AfterHeadCached(k)]
    <3>1. store' = Append(store, e) /\ calls'[c] = w /\ k.pc = "store"
      BY <1>8, <1>a, <2>1 DEF Store, At
    <3>2. e \in Block
      BY <1>0, <3>1 DEF Block, Call, CallTyped
    <3>3. b \in DOMAIN store' /\ store'[b].prev = k.arg
      BY <3>1, <3>2, StoreGrows DEF TypeInv, TypeOK
    <3>4. w.block = b /\ w.arg = k.arg /\ w.pc \in Written
      BY <1>0 DEF Call, Written, AfterHeadCached
    <3> QED
      BY <3>1, <3>3, <3>4 DEF CallOK, Linked, Asking, Written
  <2>2. CASE ~ (Len(store) < MaxBlocks)
    BY <1>8, <1>a, <1>d, <2>2, IdleOK DEF Store
  <2> QED
    BY <2>1, <2>2
<1>9. CASE CacheRoot(c) \/ PutRoot(c) \/ CacheHead(c) \/ CacheNext(c)
  <2>1. store' = store /\ Linked(store, k)
    BY <1>0, <1>9
       DEF CacheRoot, PutRoot, CacheHead, CacheNext, At, CallOK, Written
  <2>2. \/ calls'[c] = Reject(k, "notFound")
        \/ calls'[c].pc \in Written /\ calls'[c].block = k.block /\ calls'[c].arg = k.arg
    <3>1. CASE CacheRoot(c)
      BY <1>0, <1>a, <3>1 DEF CacheRoot, Written, Call
    <3>0. ASSUME NEW p \in Written, Goto(c, p)
          PROVE  calls'[c].pc \in Written /\ calls'[c].block = k.block
                 /\ calls'[c].arg = k.arg
      <4>1. calls'[c] = [k EXCEPT !.pc = p]
        BY <1>b, <3>0
      <4>2. [k EXCEPT !.pc = p].pc = p /\ [k EXCEPT !.pc = p].block = k.block
            /\ [k EXCEPT !.pc = p].arg = k.arg
        BY <1>0 DEF Call
      <4> QED
        BY <4>1, <4>2
    <3>2. CASE PutRoot(c)
      BY <3>0, <3>2 DEF PutRoot, Written
    <3>3. CASE CacheHead(c)
      <4>1. AfterHeadCached(k) \in Written
        BY DEF AfterHeadCached, Written
      <4> QED
        BY <3>0, <3>3, <4>1 DEF CacheHead
    <3>4. CASE CacheNext(c)
      BY <3>0, <3>4 DEF CacheNext, Written
    <3> QED
      BY <1>9, <3>1, <3>2, <3>3, <3>4
  <2>3. CASE calls'[c] = Reject(k, "notFound")
    BY <1>d, <2>3, IdleOK
  <2>4. CASE calls'[c].pc \in Written /\ calls'[c].block = k.block /\ calls'[c].arg = k.arg
    BY <2>1, <2>4 DEF CallOK, Linked, Asking, Written
  <2> QED
    BY <2>2, <2>3, <2>4
<1>10. CASE CacheNull(c)
  BY <1>10, <1>a, <1>c, IdleOK DEF CacheNull
<1> QED
  BY <1>1, <1>2, <1>3, <1>4, <1>5, <1>6, <1>7, <1>8, <1>9, <1>10 DEF Continue

(* Every step leaves the storage as it is or appends one block. *)
LEMMA StoreOrStutter ==
    ASSUME BlockchainAssumption, TypeInv, NEW c \in Calls, Start(c) \/ Continue(c)
    PROVE  \/ store' = store
           \/ /\ At(c, "store") /\ Len(store) < MaxBlocks
              /\ [prev |-> calls[c].arg, seq |-> calls[c].seq, ts |-> calls[c].ts] \in Block
              /\ store' = Append(store, [prev |-> calls[c].arg, seq |-> calls[c].seq,
                                         ts |-> calls[c].ts])
<1>1. CASE Store(c)
  <2>1. calls[c] \in Call /\ (At(c, "store") => calls[c].ts \in Times)
    BY DEF TypeInv, TypeOK, CallTyped, At
  <2>2. At(c, "store") =>
          [prev |-> calls[c].arg, seq |-> calls[c].seq, ts |-> calls[c].ts] \in Block
    BY <2>1 DEF Call, Block
  <2> QED
    BY <1>1, <2>2 DEF Store
<1>2. CASE ~ Store(c)
  BY <1>2 DEF Start, StartWrite, StartHead, StartNext, Continue, Begin, ReadHead,
              FillHead, ReadNext, ScanNext, FillNext, CacheRoot, PutRoot,
              CacheHead, CacheNext, CacheNull
<1> QED
  BY <1>1, <1>2

(* Only the call that moves changes its own state. *)
LEMMA OthersKeep ==
    ASSUME TypeInv, NEW c \in Calls, Start(c) \/ Continue(c),
           NEW d \in Calls, d # c
    PROVE  calls'[d] = calls[d]
<1>1. DOMAIN calls = Calls
  BY DEF TypeInv, TypeOK
<1>2. ASSUME NEW k, Set(c, k) PROVE calls'[d] = calls[d]
  BY <1>1, <1>2 DEF Set
<1>3. ASSUME NEW p, Goto(c, p) PROVE calls'[d] = calls[d]
  BY <1>1, <1>3 DEF Goto
<1>4. CASE Start(c)
  BY <1>2, <1>4 DEF Start, StartWrite, StartHead, StartNext
<1>5. CASE \/ \E t \in Times : Begin(c, t)
           \/ ReadHead(c) \/ FillHead(c) \/ ReadNext(c) \/ ScanNext(c) \/ FillNext(c)
  BY <1>2, <1>3, <1>5 DEF Begin, ReadHead, FillHead, ReadNext, ScanNext, FillNext
<1>6. CASE \/ Store(c) \/ CacheRoot(c) \/ PutRoot(c) \/ CacheHead(c)
           \/ CacheNext(c) \/ CacheNull(c)
  BY <1>2, <1>3, <1>6 DEF Store, CacheRoot, PutRoot, CacheHead, CacheNext, CacheNull
<1> QED
  BY <1>4, <1>5, <1>6 DEF Continue

LEMMA CallInvStep ==
    ASSUME BlockchainAssumption, TypeInv, CallInv, NEW c \in Calls,
           Start(c) \/ Continue(c)
    PROVE  CallInv'
<1>1. CallOK(store', calls'[c])
  BY OwnCallOK
<1>2. ASSUME NEW d \in Calls, d # c PROVE CallOK(store', calls'[d])
  <2>1. CallOK(store, calls[d]) /\ calls'[d] = calls[d]
    BY <1>2, OthersKeep DEF CallInv
  <2>2. store' = store \/ \E e \in Block : store' = Append(store, e)
    BY StoreOrStutter
  <2> QED
    BY <2>1, <2>2, CallOKStable
<1> QED
  BY <1>1, <1>2 DEF CallInv

(***************************************************************************)
(* The cached links.                                                       *)
(***************************************************************************)
LEMMA NextCacheStep ==
    ASSUME BlockchainAssumption, TypeInv, CallInv, NextCacheSound,
           NEW c \in Calls, Start(c) \/ Continue(c)
    PROVE  NextCacheSound'
<1>. DEFINE k == calls[c]
<1>0. k \in Call /\ CallTyped(k) /\ CallOK(store, k)
      /\ nextCache \in [Hash -> 0 .. MaxBlocks \cup {NotCached}]
  BY DEF TypeInv, TypeOK, CallInv
<1>1. \A b \in DOMAIN store : b \in DOMAIN store' /\ store'[b] = store[b]
  <2>1. store' = store \/ \E e \in Block : store' = Append(store, e)
    BY StoreOrStutter
  <2> QED
    BY <2>1, StoreGrows DEF TypeInv, TypeOK
<1>2. CASE nextCache' = nextCache
  BY <1>1, <1>2 DEF NextCacheSound, IsStored
<1>3. ASSUME NEW b \in Hash, NEW n, nextCache' = WriteCache(nextCache, b, n),
             n \in Hash => n \in DOMAIN store /\ store[n].prev = b
      PROVE  NextCacheSound'
  <2>1. ASSUME NEW a \in Hash, nextCache'[a] \in Hash
        PROVE  nextCache'[a] \in DOMAIN store /\ store[nextCache'[a]].prev = a
    <3>1. \/ nextCache'[a] = nextCache[a]
          \/ a = b /\ nextCache'[a] = n
      BY <1>0, <1>3 DEF WriteCache
    <3> QED
      BY <1>3, <2>1, <3>1 DEF NextCacheSound, IsStored
  <2> QED
    BY <1>1, <2>1 DEF NextCacheSound, IsStored
<1>4. CASE FillNext(c)
  <2>1. k.arg \in Hash /\ nextCache' = WriteCache(nextCache, k.arg, k.block)
    BY <1>0, <1>4 DEF FillNext, At, CallTyped, Asking
  <2>2. k.block \in DOMAIN store /\ store[k.block].prev = k.arg
    BY <1>0, <1>4 DEF FillNext, At, CallOK, Linked
  <2> QED
    BY <1>3, <2>1, <2>2
<1>5. CASE CacheNext(c)
  <2>1. k.arg \in Hash /\ nextCache' = WriteCache(nextCache, k.arg, k.block)
    BY <1>0, <1>5 DEF CacheNext, At, CallTyped
  <2>2. k.block \in DOMAIN store /\ store[k.block].prev = k.arg
    BY <1>0, <1>5 DEF CacheNext, At, CallOK, Linked, Written
  <2> QED
    BY <1>3, <2>1, <2>2
<1>6. CASE CacheNull(c)
  <2>1. k.block \in Hash /\ nextCache' = WriteCache(nextCache, k.block, 0)
    BY <1>0, <1>6, BlockchainAssumption
       DEF CacheNull, At, CallTyped, Written, Place, Hash, Unknown, BlockchainAssumption
  <2>2. 0 \notin Hash
    BY DEF Hash
  <2> QED
    BY <1>3, <2>1, <2>2
<1>7. CASE ~ (FillNext(c) \/ CacheNext(c) \/ CacheNull(c))
  <2>1. nextCache' = nextCache
    BY <1>7 DEF Start, StartWrite, StartHead, StartNext, Continue, Begin, ReadHead,
                FillHead, ReadNext, ScanNext, Store, CacheRoot, PutRoot, CacheHead, caches
  <2> QED
    BY <1>2, <2>1
<1> QED
  BY <1>4, <1>5, <1>6, <1>7

(***************************************************************************)
(* The chains, when every write is validated.                              *)
(***************************************************************************)

(* The local form of EveryBlockValidates, which a step can be seen to keep:*)
(* each block names an earlier block, is numbered one past it and is not   *)
(* older; a root is number 1.                                              *)
ChainsWellFormed ==
    \A b \in DOMAIN store :
        LET p == store[b].prev IN
        \/ p = 0 /\ store[b].seq = 1
        \/ /\ p \in 1 .. b - 1
           /\ store[b].seq = store[p].seq + 1
           /\ store[p].ts <= store[b].ts

LEMMA ChainsStep ==
    ASSUME BlockchainAssumption, "noValidate" \notin Options,
           TypeInv, CallInv, ChainsWellFormed,
           NEW c \in Calls, Start(c) \/ Continue(c)
    PROVE  ChainsWellFormed'
<1>. DEFINE k == calls[c]
            e == [prev |-> k.arg, seq |-> k.seq, ts |-> k.ts]
<1>1. CASE store' = store
  BY <1>1 DEF ChainsWellFormed
<1>2. CASE At(c, "store") /\ e \in Block /\ store' = Append(store, e)
  <2>1. /\ DOMAIN store' = 1 .. Len(store) + 1 /\ DOMAIN store = 1 .. Len(store)
        /\ \A b \in DOMAIN store : store'[b] = store[b]
        /\ store'[Len(store) + 1] = e
        /\ Len(store) \in Nat
    BY <1>2, StoreGrows DEF TypeInv, TypeOK
  <2>2. Ready(store, k)
    BY <1>2 DEF CallInv, CallOK, At, TypeInv, TypeOK, Call
  <2>3. ASSUME NEW b \in DOMAIN store
        PROVE  LET p == store'[b].prev IN
                 \/ p = 0 /\ store'[b].seq = 1
                 \/ /\ p \in 1 .. b - 1
                    /\ store'[b].seq = store'[p].seq + 1
                    /\ store'[p].ts <= store'[b].ts
    BY <2>1 DEF ChainsWellFormed
  <2>4. LET b == Len(store) + 1
            p == store'[b].prev IN
          \/ p = 0 /\ store'[b].seq = 1
          \/ /\ p \in 1 .. b - 1
             /\ store'[b].seq = store'[p].seq + 1
             /\ store'[p].ts <= store'[b].ts
    BY <2>1, <2>2 DEF Ready
  <2> QED
    BY <2>1, <2>3, <2>4 DEF ChainsWellFormed
<1> QED
  BY <1>1, <1>2, StoreOrStutter

(* Each step extends the forest by one block or leaves it alone. *)
LEMMA ForestStep ==
    ASSUME BlockchainAssumption, "noValidate" \notin Options,
           TypeInv, CallInv, NEW c \in Calls, Start(c) \/ Continue(c)
    PROVE  Abstract!ForestNext \/ store' = store
<1>. DEFINE k == calls[c]
            e == [prev |-> k.arg, seq |-> k.seq, ts |-> k.ts]
<1>1. ASSUME At(c, "store"), e \in Block, store' = Append(store, e)
      PROVE  Abstract!ForestNext
  <2>1. Ready(store, k) /\ k.ts \in Times
    BY <1>1 DEF CallInv, CallOK, CallTyped, At, TypeInv, TypeOK, Call
  <2>2. CASE k.arg = 0 /\ k.seq = 1
    BY <1>1, <2>1, <2>2 DEF Abstract!ForestNext, Abstract!StartChain
  <2>3. CASE /\ k.arg \in DOMAIN store
             /\ k.seq = store[k.arg].seq + 1
             /\ store[k.arg].ts <= k.ts
    <3>1. Abstract!Extend(k.arg, k.ts)
      BY <1>1, <2>3 DEF Abstract!Extend
    <3> QED
      BY <2>1, <2>3, <3>1 DEF Abstract!ForestNext
  <2> QED
    BY <2>1, <2>2, <2>3 DEF Ready
<1> QED
  BY <1>1, StoreOrStutter

(***************************************************************************)
(* The theorems.                                                           *)
(***************************************************************************)
LEMMA CallInvariant == Spec => []CallInv
<1>1. Init => CallInv
  <2>1. ASSUME Init, NEW c \in Calls PROVE calls[c].pc = "idle"
    BY <2>1 DEF Init, NewCall
  <2>2. ASSUME Init, NEW c \in Calls PROVE CallOK(store, calls[c])
    <3>1. calls[c].pc \in {"idle", "begin", "readHead", "fillHead"}
      BY <2>1, <2>2
    <3> QED
      BY <3>1, IdleOK
  <2> QED
    BY <2>2 DEF CallInv
<1>2. TypeInv /\ CallInv /\ [Next]_vars => CallInv'
  <2>1. ASSUME TypeInv, CallInv, Next PROVE CallInv'
    BY <2>1, BlockchainAssumption, CallInvStep DEF Next
  <2>2. ASSUME CallInv, UNCHANGED vars PROVE CallInv'
    BY <2>2 DEF CallInv, vars
  <2> QED
    BY <2>1, <2>2
<1> QED
  BY <1>1, <1>2, TypeInvariant, PTL DEF Spec

(* A cached successor is a stored block that names the key as its prev,    *)
(* whatever options the writers pass and however they interleave with the  *)
(* readers that fill the same cache.                                       *)
THEOREM NextCacheIsSound == Spec => []NextCacheSound
<1>1. Init => NextCacheSound
  BY DEF Init, NextCacheSound, NotCached, Hash
<1>2. TypeInv /\ CallInv /\ NextCacheSound /\ [Next]_vars => NextCacheSound'
  <2>1. ASSUME TypeInv, CallInv, NextCacheSound, Next PROVE NextCacheSound'
    BY <2>1, BlockchainAssumption, NextCacheStep DEF Next
  <2>2. ASSUME NextCacheSound, UNCHANGED vars PROVE NextCacheSound'
    BY <2>2 DEF NextCacheSound, IsStored, vars
  <2> QED
    BY <2>1, <2>2
<1> QED
  BY <1>1, <1>2, TypeInvariant, CallInvariant, PTL DEF Spec

(* When every write is validated, each stored block is numbered one past   *)
(* its predecessor and is not older, under every interleaving of writers:  *)
(* the check and the write of writeBlock are far apart, but what the check *)
(* read of prev cannot change in between.                                  *)
LEMMA ChainsAreWellFormed ==
    ASSUME "noValidate" \notin Options
    PROVE  Spec => []ChainsWellFormed
<1>1. Init => ChainsWellFormed
  BY DEF Init, ChainsWellFormed
<1>2. TypeInv /\ CallInv /\ ChainsWellFormed /\ [Next]_vars => ChainsWellFormed'
  <2>1. ASSUME TypeInv, CallInv, ChainsWellFormed, Next PROVE ChainsWellFormed'
    BY <2>1, BlockchainAssumption, ChainsStep DEF Next
  <2>2. ASSUME ChainsWellFormed, UNCHANGED vars PROVE ChainsWellFormed'
    BY <2>2 DEF ChainsWellFormed, vars
  <2> QED
    BY <2>1, <2>2
<1> QED
  BY <1>1, <1>2, TypeInvariant, CallInvariant, PTL DEF Spec

(* Blockchain implements the abstract forest ledger: its initial state is  *)
(* the empty ledger, and every step appends one correctly numbered and     *)
(* timestamped block or leaves the ledger as it is.                        *)
THEOREM ImplementsForest ==
    ASSUME "noValidate" \notin Options
    PROVE  Spec => ForestRefinement
<1>1. Init => Abstract!Init
  BY DEF Init, Abstract!Init
<1>2. TypeInv /\ CallInv /\ [Next]_vars => [Abstract!ForestNext]_store
  <2>1. ASSUME TypeInv, CallInv, Next PROVE [Abstract!ForestNext]_store
    BY <2>1, BlockchainAssumption, ForestStep DEF Next
  <2>2. ASSUME UNCHANGED vars PROVE [Abstract!ForestNext]_store
    BY <2>2 DEF vars
  <2> QED
    BY <2>1, <2>2
<1> QED
  BY <1>1, <1>2, TypeInvariant, CallInvariant, PTL
     DEF Spec, ForestRefinement, Abstract!ForestSpec

(***************************************************************************)
(* The walk back to the root of a chain, and the caches that rest on it:   *)
(* rootBlock holds the root a walk would find, headBlock a block of the    *)
(* chain it is cached for, and every validated block is accepted by        *)
(* validateBlockchain.                                                     *)
(*                                                                         *)
(* The walks are recursive functions.  They are well defined because every *)
(* link goes back to a block stored before, and a walk that is finished    *)
(* never changes as the storage grows.                                     *)
(***************************************************************************)
(* Every block names an earlier block, none, or one nobody stored. *)
LinksBack(s) ==
    /\ s \in Seq(Block) /\ Len(s) <= MaxBlocks
    /\ \A b \in DOMAIN s : s[b].prev \in 0 .. b - 1 \cup {Unknown}

(* GetRootBlock, of the storage s. *)
RootIn(s, b) ==
    LET walk[n \in DOMAIN s] ==
            IF s[n].prev \in DOMAIN s THEN walk[s[n].prev] ELSE n
    IN  IF b \in DOMAIN s /\ walk[b] \in {r \in DOMAIN s : s[r].prev = 0}
        THEN walk[b] ELSE 0

LEMMA GetRootBlockIn ==
    ASSUME NEW b
    PROVE  GetRootBlock(b) = RootIn(store, b) /\ GetRootBlock(b)' = RootIn(store', b)
BY DEF GetRootBlock, IsStored, RootIn

(* The recursion of the walk, one step at a time. *)
LEMMA RootInStep ==
    ASSUME BlockchainAssumption, NEW s, LinksBack(s), NEW b \in DOMAIN s
    PROVE  /\ s[b].prev = 0 => RootIn(s, b) = b
           /\ s[b].prev \in DOMAIN s => RootIn(s, b) = RootIn(s, s[b].prev)
           /\ s[b].prev = Unknown => RootIn(s, b) = 0
           /\ RootIn(s, b) \in DOMAIN s \cup {0}
<1>. DEFINE D == DOMAIN s
            walk[n \in D] == IF s[n].prev \in D THEN walk[s[n].prev] ELSE n
            up   == [n \in D |-> IF s[n].prev \in D THEN s[n].prev ELSE 0]
            last == [n \in D |-> n]
            next == [n \in D |-> [v \in D |-> v]]
<1>0. /\ D = 1 .. Len(s) /\ Len(s) \in Nat /\ Unknown \notin D /\ Unknown # 0
      /\ \A n \in D : s[n].prev \in 0 .. n - 1 \cup {Unknown}
  BY DEF LinksBack, BlockchainAssumption, Unknown
<1>1. \E f \in [D -> D] : IsWalk(f, Len(s), up, last, next)
  <2>1. Descends(up, Len(s))
    BY <1>0 DEF Descends
  <2>2. last \in [D -> D] /\ next \in [D -> [D -> D]]
    OBVIOUS
  <2>. HIDE DEF up, last, next, D
  <2> QED
    BY <1>0, <2>1, <2>2, WalkExists
<1>2. \E f : f = [n \in D |-> IF s[n].prev \in D THEN f[s[n].prev] ELSE n]
  <2>1. PICK f \in [D -> D] : IsWalk(f, Len(s), up, last, next)
    BY <1>1
  <2>2. ASSUME NEW n \in D
        PROVE  f[n] = IF s[n].prev \in D THEN f[s[n].prev] ELSE n
    <3>1. f[n] = IF up[n] = 0 THEN last[n] ELSE next[n][f[up[n]]]
      BY <1>0, <2>1 DEF IsWalk
    <3> QED
      BY <1>0, <3>1
  <2>3. f = [n \in D |-> IF s[n].prev \in D THEN f[s[n].prev] ELSE n]
    BY <2>2
  <2> QED
    BY <2>3
<1>3. walk = [n \in D |-> IF s[n].prev \in D THEN walk[s[n].prev] ELSE n]
  BY <1>2 DEF walk
<1>4. \A c : RootIn(s, c) = IF c \in D /\ walk[c] \in {r \in D : s[r].prev = 0}
                            THEN walk[c] ELSE 0
  BY DEF RootIn
<1>. HIDE DEF walk, up, last, next, D
<1>5. CASE s[b].prev = 0
  <2>1. 0 \notin D /\ b \in D
    BY <1>0 DEF D
  <2>2. walk[b] = b
    BY <1>3, <1>5, <2>1
  <2>3. RootIn(s, b) = b
    BY <1>4, <1>5, <2>1, <2>2
  <2> QED
    BY <1>0, <1>5, <2>1, <2>3 DEF D
<1>6. CASE s[b].prev = Unknown
  BY <1>0, <1>3, <1>4, <1>6 DEF D
<1>7. CASE s[b].prev \in D
  <2>1. walk[b] = walk[s[b].prev]
    BY <1>3, <1>7 DEF D
  <2> QED
    BY <2>1, <1>0, <1>4, <1>7 DEF D
<1> QED
  BY <1>0, <1>4, <1>5, <1>6, <1>7 DEF D

(* A walk that is finished never changes as the storage grows. *)
LEMMA RootInStable ==
    ASSUME BlockchainAssumption, NEW s, NEW t, LinksBack(s), LinksBack(t),
           \A b \in DOMAIN s : b \in DOMAIN t /\ t[b] = s[b]
    PROVE  \A b \in DOMAIN s : RootIn(t, b) = RootIn(s, b)
<1>. DEFINE Same == {b \in DOMAIN s : RootIn(t, b) = RootIn(s, b)}
<1>1. DOMAIN s = 1 .. Len(s) /\ Len(s) \in Nat
  BY DEF LinksBack
<1>2. ASSUME NEW b \in 1 .. Len(s), \A m \in 1 .. b - 1 : m \in Same
      PROVE  b \in Same
  <2>1. b \in DOMAIN s /\ b \in DOMAIN t /\ t[b].prev = s[b].prev
    BY <1>1
  <2>2. s[b].prev \in 0 .. b - 1 \cup {Unknown}
    BY <2>1 DEF LinksBack
  <2>3. CASE s[b].prev = 0 \/ s[b].prev = Unknown
    <3>1. RootIn(s, b) = RootIn(t, b)
      BY <2>1, <2>3, RootInStep
    <3> QED
      BY <2>1, <3>1
  <2>4. CASE s[b].prev \in 1 .. b - 1
    <3>1. s[b].prev \in Same
      BY <1>2, <2>4
    <3>2. s[b].prev \in DOMAIN s /\ t[b].prev \in DOMAIN t
      BY <2>1, <3>1
    <3>3. RootIn(s, b) = RootIn(s, s[b].prev)
      BY <2>1, <3>2, RootInStep
    <3>4. RootIn(t, b) = RootIn(t, t[b].prev)
      BY <2>1, <3>2, RootInStep
    <3> QED
      BY <2>1, <3>1, <3>3, <3>4
  <2> QED
    BY <1>1, <2>2, <2>3, <2>4
<1>. HIDE DEF Same
<1>3. \A b \in 1 .. Len(s) : b \in Same
  BY <1>1, <1>2, InductionUpTo
<1> QED
  BY <1>1, <1>3 DEF Same

(***************************************************************************)
(* The invariant.                                                          *)
(***************************************************************************)

(* A call names stored blocks (or none, or a hash nobody stored), and has  *)
(* the root of the block it asks about, or of the block it wrote.          *)
RootOK(s, k) ==
    /\ k.arg \in DOMAIN s \cup {0, Unknown}
    /\ k.pc \in {"readHead", "fillHead"} \cup Asking /\ k.ret = "head" =>
          k.arg \in DOMAIN s /\ k.root = RootIn(s, k.arg)
    /\ k.pc \in {"putRoot", "cacheHead"} => k.root = RootIn(s, k.block)

CachedRoots(s, cache) ==
    \A b \in Hash : cache[b] # NotCached => b \in DOMAIN s /\ cache[b] = RootIn(s, b)

CachedHeads(s, cache) ==
    \A r \in Hash : cache[r] # NotCached => cache[r] \in DOMAIN s /\ RootIn(s, cache[r]) = r

RootInv ==
    /\ LinksBack(store)
    /\ CachedRoots(store, rootCache)
    /\ CachedHeads(store, headCache)
    /\ \A c \in Calls : RootOK(store, calls[c])

LEMMA IdleRootOK ==
    ASSUME NEW s, NEW k, k.pc \in {"idle", "begin"}, k.arg \in DOMAIN s \cup {0, Unknown}
    PROVE  RootOK(s, k)
BY DEF RootOK, Asking

LEMMA ReturnRootOK ==
    ASSUME NEW s, NEW k, NEW b, NEW e
    PROVE  RootOK(s, NewCall) /\ RootOK(s, Return(k, b)) /\ RootOK(s, Reject(k, e))
<1>1. /\ NewCall.pc = "idle" /\ NewCall.arg = 0
      /\ Return(k, b).pc = "idle" /\ Return(k, b).arg = 0
      /\ Reject(k, e).pc = "idle" /\ Reject(k, e).arg = 0
  BY DEF NewCall, Return, Reject
<1> QED
  BY <1>1, IdleRootOK

LEMMA AfterHeadRootOK ==
    ASSUME NEW s, NEW k, NEW h \in DOMAIN s
    PROVE  RootOK(s, AfterHead(k, h))
<1>1. CASE k.op = "append"
  <2>1. AfterHead(k, h).pc = "begin" /\ AfterHead(k, h).arg = h
    BY <1>1 DEF AfterHead, NewCall
  <2> QED
    BY <2>1, IdleRootOK
<1>2. CASE k.op # "append"
  BY <1>2, ReturnRootOK DEF AfterHead
<1> QED
  BY <1>1, <1>2

(* A step along a link stays in the chain. *)
LEMMA AfterNextRootOK ==
    ASSUME BlockchainAssumption, NEW s, LinksBack(s), NEW k \in Call, RootOK(s, k),
           k.pc \in Asking, k.ret \in {"head", "next", "write"},
           NEW n, n # 0 => n \in DOMAIN s /\ s[n].prev = k.arg
    PROVE  RootOK(s, AfterNext(k, n))
<1>1. CASE k.ret = "write" /\ n = 0
  <2>1. AfterNext(k, n) = [k EXCEPT !.pc = "store"]
    BY <1>1 DEF AfterNext
  <2> QED
    BY <2>1 DEF RootOK, Call, Asking
<1>2. CASE k.ret = "write" /\ n # 0
  BY <1>2, ReturnRootOK DEF AfterNext
<1>3. CASE k.ret = "next"
  BY <1>3, ReturnRootOK DEF AfterNext
<1>4. CASE k.ret = "head" /\ n = 0
  <2>1. AfterNext(k, n) = [k EXCEPT !.pc = "fillHead"]
    BY <1>4 DEF AfterNext
  <2> QED
    BY <1>4, <2>1 DEF RootOK, Call, Asking
<1>5. CASE k.ret = "head" /\ n # 0
  <2>1. AfterNext(k, n) = [k EXCEPT !.pc = "readNext", !.arg = n]
    BY <1>5 DEF AfterNext
  <2>2. n \in DOMAIN s /\ s[n].prev = k.arg
    BY <1>5
  <2>3. k.arg \in DOMAIN s /\ k.root = RootIn(s, k.arg)
    BY <1>5 DEF RootOK
  <2>4. RootIn(s, n) = k.root
    BY <2>2, <2>3, RootInStep
  <2> QED
    BY <2>1, <2>2, <2>4 DEF RootOK, Call, Asking
<1> QED
  BY <1>1, <1>2, <1>3, <1>4, <1>5

(***************************************************************************)
(* What every step does to the storage.                                    *)
(***************************************************************************)
LEMMA LinksBackStep ==
    ASSUME BlockchainAssumption, TypeInv, RootInv, NEW c \in Calls, Start(c) \/ Continue(c)
    PROVE  /\ LinksBack(store')
           /\ \A b \in DOMAIN store : b \in DOMAIN store' /\ store'[b] = store[b]
<1>. DEFINE e == [prev |-> calls[c].arg, seq |-> calls[c].seq, ts |-> calls[c].ts]
<1>1. CASE store' = store
  BY <1>1 DEF RootInv
<1>2. CASE Len(store) < MaxBlocks /\ e \in Block /\ store' = Append(store, e)
  <2>0. store \in Seq(Block) /\ Len(store) \in Nat /\ MaxBlocks \in Nat
    BY DEF TypeInv, TypeOK, BlockchainAssumption
  <2>1. /\ store' \in Seq(Block) /\ Len(store') = Len(store) + 1
        /\ DOMAIN store' = 1 .. Len(store) + 1 /\ DOMAIN store = 1 .. Len(store)
        /\ \A b \in DOMAIN store : store'[b] = store[b]
        /\ store'[Len(store) + 1] = e
    BY <1>2, <2>0, StoreGrows
  <2>2. e.prev \in DOMAIN store \cup {0, Unknown}
    BY DEF RootInv, RootOK
  <2>3. \A b \in DOMAIN store' : store'[b].prev \in 0 .. b - 1 \cup {Unknown}
    <3>1. ASSUME NEW b \in DOMAIN store
          PROVE  store'[b].prev \in 0 .. b - 1 \cup {Unknown}
      BY <2>1 DEF RootInv, LinksBack
    <3>2. store'[Len(store) + 1].prev \in 0 .. Len(store) \cup {Unknown}
      BY <2>0, <2>1, <2>2
    <3> QED
      BY <2>0, <2>1, <3>1, <3>2
  <2> QED
    BY <1>2, <2>0, <2>1, <2>3 DEF LinksBack
<1> QED
  BY <1>1, <1>2, StoreOrStutter

(* What another call knows stays true. *)
LEMMA RootOKStable ==
    ASSUME BlockchainAssumption, NEW s, NEW t, LinksBack(s), LinksBack(t),
           \A b \in DOMAIN s : b \in DOMAIN t /\ t[b] = s[b],
           NEW k, CallOK(s, k), RootOK(s, k)
    PROVE  RootOK(t, k)
<1>1. \A b \in DOMAIN s : RootIn(t, b) = RootIn(s, b)
  BY RootInStable
<1>2. k.pc \in {"putRoot", "cacheHead"} => k.block \in DOMAIN s
  BY DEF CallOK, Linked, Written
<1> QED
  BY <1>1, <1>2 DEF RootOK

LEMMA CachesStable ==
    ASSUME BlockchainAssumption, NEW s, NEW t, LinksBack(s), LinksBack(t),
           \A b \in DOMAIN s : b \in DOMAIN t /\ t[b] = s[b],
           NEW cache
    PROVE  /\ CachedRoots(s, cache) => CachedRoots(t, cache)
           /\ CachedHeads(s, cache) => CachedHeads(t, cache)
<1>1. \A b \in DOMAIN s : RootIn(t, b) = RootIn(s, b)
  BY RootInStable
<1> QED
  BY <1>1 DEF CachedRoots, CachedHeads

(* The root cached for prev is the root a walk would find. *)
LEMMA RootFromPrevExact ==
    ASSUME BlockchainAssumption, RootInv, NEW k \in Call, k.arg # 0,
           k.block \in DOMAIN store, store[k.block].prev = k.arg
    PROVE  RootFromPrev(k) = RootIn(store, k.block)
<1>0. LinksBack(store) /\ k.arg \in Hash
  BY DEF RootInv, Call
<1>1. CASE rootCache[k.arg] # NotCached
  <2>1. k.arg \in DOMAIN store /\ rootCache[k.arg] = RootIn(store, k.arg)
    BY <1>0, <1>1 DEF RootInv, CachedRoots
  <2>2. RootIn(store, k.block) = RootIn(store, k.arg)
    BY <1>0, <2>1, RootInStep
  <2> QED
    BY <1>1, <2>1, <2>2 DEF RootFromPrev
<1>2. CASE rootCache[k.arg] = NotCached
  BY <1>2, GetRootBlockIn DEF RootFromPrev
<1> QED
  BY <1>1, <1>2

(***************************************************************************)
(* What the stretch a call runs leaves it with.                            *)
(***************************************************************************)
LEMMA OwnRootOK ==
    ASSUME BlockchainAssumption, TypeInv, CallInv, NextCacheSound, RootInv,
           NEW c \in Calls, Start(c) \/ Continue(c)
    PROVE  RootOK(store', calls'[c])
<1>. DEFINE k == calls[c]
<1>0. /\ k \in Call /\ CallTyped(k) /\ CallOK(store, k) /\ RootOK(store, k)
      /\ DOMAIN calls = Calls /\ LinksBack(store)
      /\ DOMAIN store \subseteq Place /\ 0 \notin DOMAIN store /\ Unknown \notin Place
      /\ 0 \notin Place /\ Place \subseteq Hash
      /\ headCache \in [Hash -> 0 .. MaxBlocks \cup {NotCached}]
  BY DEF TypeInv, TypeOK, CallInv, RootInv, BlockchainAssumption, Place, Unknown, Hash
<1>a. \A r : Set(c, r) => calls'[c] = r
  BY <1>0 DEF Set
<1>b. \A p : Goto(c, p) => calls'[c] = [k EXCEPT !.pc = p]
  BY <1>0 DEF Goto, Call
<1>c. \A e, b : RootOK(store, Reject(k, e)) /\ RootOK(store, Return(k, b))
  BY ReturnRootOK
<1>1. ASSUME NEW p \in DOMAIN store \cup {0, Unknown}, NEW o, StartWrite(c, p, o)
      PROVE  RootOK(store', calls'[c])
  <2>1. calls'[c].pc = "begin" /\ calls'[c].arg = p /\ store' = store
    BY <1>a, <1>1 DEF StartWrite, NewCall
  <2> QED
    BY <2>1, IdleRootOK
<1>2. ASSUME NEW b \in DOMAIN store, NEW op, StartHead(c, b, op)
      PROVE  RootOK(store', calls'[c])
  <2>. DEFINE r == [NewCall EXCEPT !.op = op, !.pc = "readHead", !.ret = "head",
                                   !.arg = b, !.root = GetRootBlock(b)]
  <2>1. /\ store' = store
        /\ calls'[c] = IF GetRootBlock(b) = 0 THEN Reject(r, "notFound") ELSE r
    BY <1>a, <1>2 DEF StartHead
  <2>2. RootOK(store, Reject(r, "notFound"))
    BY ReturnRootOK
  <2>3. r.pc = "readHead" /\ r.arg = b /\ r.root = RootIn(store, b)
    BY GetRootBlockIn DEF NewCall
  <2>4. RootOK(store, r)
    BY <2>3 DEF RootOK
  <2>. HIDE DEF r
  <2> QED
    BY <2>1, <2>2, <2>4
<1>3. ASSUME NEW b \in DOMAIN store, StartNext(c, b) PROVE RootOK(store', calls'[c])
  <2>1. calls'[c].pc = "readNext" /\ calls'[c].ret = "next" /\ calls'[c].arg = b
        /\ store' = store
    BY <1>a, <1>3 DEF StartNext, NewCall
  <2> QED
    BY <2>1 DEF RootOK
<1>4. CASE ReadHead(c)
  <2>0. k.pc = "readHead" /\ k.ret = "head" /\ k.root \in Hash /\ store' = store
    BY <1>0, <1>4 DEF ReadHead, At, CallTyped
  <2>1. CASE headCache[k.root] = NotCached
    <3>1. calls'[c] = [k EXCEPT !.pc = "readNext"]
      BY <1>4, <1>b, <2>1 DEF ReadHead
    <3> QED
      BY <1>0, <2>0, <3>1 DEF RootOK, Call, Asking
  <2>2. CASE headCache[k.root] # NotCached
    <3>1. calls'[c] = AfterHead(k, headCache[k.root])
      BY <1>4, <1>a, <2>2 DEF ReadHead
    <3>2. headCache[k.root] \in DOMAIN store
      BY <2>0, <2>2 DEF RootInv, CachedHeads
    <3> QED
      BY <2>0, <3>1, <3>2, AfterHeadRootOK
  <2> QED
    BY <2>1, <2>2
<1>5. CASE FillHead(c)
  <2>1. k.pc = "fillHead" /\ k.ret = "head" /\ store' = store
        /\ calls'[c] = AfterHead(k, k.arg)
    BY <1>0, <1>5, <1>a DEF FillHead, At, CallTyped
  <2>2. k.arg \in DOMAIN store
    BY <1>0, <2>1 DEF RootOK
  <2> QED
    BY <2>1, <2>2, AfterHeadRootOK
<1>6. CASE ReadNext(c)
  <2>0. k.pc \in Asking /\ k.pc = "readNext" /\ store' = store /\ k.arg \in Hash
        /\ k.ret \in {"head", "next", "write"}
    BY <1>0, <1>6 DEF ReadNext, At, CallTyped, Asking
  <2>1. CASE nextCache[k.arg] = NotCached
    <3>1. calls'[c] = [k EXCEPT !.pc = "scanNext"]
      BY <1>6, <1>b, <2>1 DEF ReadNext
    <3> QED
      BY <1>0, <2>0, <3>1 DEF RootOK, Call, Asking
  <2>2. CASE nextCache[k.arg] # NotCached
    <3>. DEFINE n == nextCache[k.arg]
    <3>1. calls'[c] = AfterNext(k, n)
      BY <1>6, <1>a, <2>2 DEF ReadNext
    <3>2. n # 0 => n \in Hash
      BY <2>0, <2>2 DEF TypeInv, TypeOK, Hash, Unknown, BlockchainAssumption
    <3>3. n # 0 => n \in DOMAIN store /\ store[n].prev = k.arg
      BY <2>0, <3>2 DEF NextCacheSound, IsStored
    <3>. HIDE DEF n
    <3> QED
      BY <1>0, <2>0, <3>1, <3>3, AfterNextRootOK
  <2> QED
    BY <2>1, <2>2
<1>7. CASE ScanNext(c)
  <2>0. k.pc \in Asking /\ k.pc = "scanNext" /\ store' = store
        /\ k.ret \in {"head", "next", "write"}
    BY <1>0, <1>7 DEF ScanNext, At, CallTyped, Asking
  <2>1. CASE FindNext(k.arg) = 0
    <3>1. calls'[c] = AfterNext(k, 0)
      BY <1>7, <1>a, <2>1 DEF ScanNext
    <3> QED
      BY <1>0, <2>0, <3>1, AfterNextRootOK
  <2>2. CASE FindNext(k.arg) # 0
    <3>1. calls'[c] = [k EXCEPT !.pc = "fillNext", !.block = FindNext(k.arg)]
      BY <1>7, <1>a, <2>2 DEF ScanNext
    <3> QED
      BY <1>0, <2>0, <3>1 DEF RootOK, Call, Asking
  <2> QED
    BY <2>1, <2>2
<1>8. CASE FillNext(c)
  <2>. DEFINE r == [k EXCEPT !.block = 0]
  <2>0. k.pc \in Asking /\ k.pc = "fillNext" /\ store' = store
        /\ k.ret \in {"head", "next", "write"}
    BY <1>0, <1>8 DEF FillNext, At, CallTyped, Asking
  <2>1. calls'[c] = AfterNext(r, k.block)
    BY <1>8, <1>a DEF FillNext
  <2>2. k.block \in DOMAIN store /\ store[k.block].prev = k.arg
    BY <1>0, <2>0 DEF CallOK, Linked
  <2>3. r \in Call /\ r.arg = k.arg /\ r.pc = k.pc /\ r.ret = k.ret /\ r.root = k.root
    BY <1>0 DEF Call
  <2>4. RootOK(store, r)
    BY <1>0, <2>0, <2>3 DEF RootOK, Asking
  <2>. HIDE DEF r
  <2> QED
    BY <1>0, <2>0, <2>1, <2>2, <2>3, <2>4, AfterNextRootOK
<1>9. ASSUME NEW t \in Times, Begin(c, t) PROVE RootOK(store', calls'[c])
  <2>. DEFINE e == CheckPrev(k.arg, t, k.opt)
              w == [k EXCEPT !.ts = t, !.seq = SeqAfter(k.arg), !.ret = "write",
                       !.pc = IF k.opt # "noValidate" /\ k.arg # 0
                              THEN "readNext" ELSE "store"]
  <2>1. store' = store /\ (calls'[c] = w \/ calls'[c] = Reject(k, e))
    BY <1>9, <1>a DEF Begin
  <2>2. RootOK(store, w)
    BY <1>0 DEF RootOK, Call, Asking
  <2> QED
    BY <1>c, <2>1, <2>2
<1>10. CASE Store(c)
  <2>1. CASE Len(store) < MaxBlocks
    <3>1. /\ calls'[c].pc \in Written \ {"putRoot", "cacheHead"}
          /\ calls'[c].arg = k.arg
      <4>. DEFINE pc == IF CachesRoot(k.opt) THEN "cacheRoot" ELSE AfterHeadCached(k)
      <4>1. pc \in Written \ {"putRoot", "cacheHead"}
        BY DEF Written, AfterHeadCached
      <4>. HIDE DEF pc
      <4>2. calls'[c] = [k EXCEPT !.block = Len(store) + 1, !.pc = pc]
        BY <1>a, <1>10, <2>1 DEF Store, pc
      <4> QED
        BY <1>0, <4>1, <4>2 DEF Call
    <3>2. DOMAIN store \subseteq DOMAIN store'
      BY LinksBackStep
    <3> QED
      BY <1>0, <3>1, <3>2 DEF RootOK, Written, Asking
  <2>2. CASE ~ (Len(store) < MaxBlocks)
    BY <1>10, <1>a, <1>c, <2>2 DEF Store
  <2> QED
    BY <2>1, <2>2
<1>11. CASE CacheRoot(c)
  <2>0. /\ k.pc = "cacheRoot" /\ store' = store
        /\ k.block \in DOMAIN store /\ store[k.block].prev = k.arg
    BY <1>0, <1>11 DEF CacheRoot, At, CallOK, Linked, Written
  <2>1. CASE k.arg = 0
    <3>1. calls'[c] = [k EXCEPT !.pc = "cacheHead", !.root = k.block]
      BY <1>11, <1>a, <2>1 DEF CacheRoot
    <3>2. RootIn(store, k.block) = k.block
      BY <1>0, <2>0, <2>1, RootInStep
    <3> QED
      BY <1>0, <2>0, <3>1, <3>2 DEF RootOK, Call, Asking
  <2>2. CASE k.arg # 0 /\ RootFromPrev(k) # 0
    <3>1. calls'[c] = [k EXCEPT !.pc = "putRoot", !.root = RootFromPrev(k)]
      BY <1>11, <1>a, <2>2 DEF CacheRoot
    <3>2. RootFromPrev(k) = RootIn(store, k.block)
      BY <1>0, <2>0, <2>2, RootFromPrevExact
    <3> QED
      BY <1>0, <2>0, <3>1, <3>2 DEF RootOK, Call, Asking
  <2>3. CASE k.arg # 0 /\ RootFromPrev(k) = 0
    BY <1>11, <1>a, <1>c, <2>0, <2>3 DEF CacheRoot
  <2> QED
    BY <2>1, <2>2, <2>3
<1>12. CASE PutRoot(c)
  <2>1. k.pc = "putRoot" /\ store' = store /\ calls'[c] = [k EXCEPT !.pc = "cacheHead"]
    BY <1>12, <1>b DEF PutRoot, At
  <2> QED
    BY <1>0, <2>1 DEF RootOK, Call, Asking
<1>13. CASE CacheHead(c) \/ CacheNext(c)
  <2>1. store' = store /\ \E p \in {"cacheNext", "cacheNull"} :
          calls'[c] = [k EXCEPT !.pc = p]
    BY <1>13, <1>b DEF CacheHead, CacheNext, AfterHeadCached
  <2> QED
    BY <1>0, <2>1 DEF RootOK, Call, Asking
<1>14. CASE CacheNull(c)
  BY <1>14, <1>a, <1>c DEF CacheNull
<1> QED
  BY <1>1, <1>2, <1>3, <1>4, <1>5, <1>6, <1>7, <1>8, <1>9, <1>10, <1>11, <1>12,
     <1>13, <1>14 DEF Start, Continue

(***************************************************************************)
(* The caches after a step.                                                *)
(***************************************************************************)
LEMMA CachedRootsStep ==
    ASSUME BlockchainAssumption, TypeInv, CallInv, RootInv,
           NEW c \in Calls, Start(c) \/ Continue(c)
    PROVE  CachedRoots(store, rootCache')
<1>. DEFINE k == calls[c]
<1>0. /\ k \in Call /\ CallTyped(k) /\ CallOK(store, k) /\ RootOK(store, k)
      /\ CachedRoots(store, rootCache) /\ LinksBack(store)
      /\ rootCache \in [Hash -> 0 .. MaxBlocks \cup {NotCached}]
  BY DEF TypeInv, TypeOK, CallInv, RootInv
<1>1. ASSUME NEW b \in DOMAIN store, rootCache' = WriteCache(rootCache, b, RootIn(store, b))
      PROVE  CachedRoots(store, rootCache')
  <2>1. ASSUME NEW a \in Hash
        PROVE  rootCache'[a] = rootCache[a] \/ (a = b /\ rootCache'[a] = RootIn(store, b))
    BY <1>0, <1>1 DEF WriteCache
  <2> QED
    BY <1>0, <2>1 DEF CachedRoots
<1>2. CASE CacheRoot(c)
  <2>1. k.block \in DOMAIN store /\ store[k.block].prev = k.arg
    BY <1>0, <1>2 DEF CacheRoot, At, CallOK, Linked, Written
  <2>2. CASE k.arg = 0
    <3>1. RootIn(store, k.block) = k.block
      BY <1>0, <2>1, <2>2, RootInStep
    <3> QED
      BY <1>1, <1>2, <2>1, <2>2, <3>1 DEF CacheRoot
  <2>3. CASE k.arg # 0
    BY <1>0, <1>2, <2>3 DEF CacheRoot
  <2> QED
    BY <2>2, <2>3
<1>3. CASE PutRoot(c)
  <2>1. k.block \in DOMAIN store /\ k.root = RootIn(store, k.block)
    BY <1>0, <1>3 DEF PutRoot, At, CallOK, Linked, Written, RootOK
  <2> QED
    BY <1>1, <1>3, <2>1 DEF PutRoot
<1>4. CASE ~ (CacheRoot(c) \/ PutRoot(c))
  <2>1. rootCache' = rootCache
    BY <1>4 DEF Start, StartWrite, StartHead, StartNext, Continue, Begin, ReadHead,
                FillHead, ReadNext, ScanNext, FillNext, Store, CacheHead, CacheNext,
                CacheNull, caches
  <2> QED
    BY <1>0, <2>1
<1> QED
  BY <1>2, <1>3, <1>4

LEMMA CachedHeadsStep ==
    ASSUME BlockchainAssumption, TypeInv, CallInv, RootInv,
           NEW c \in Calls, Start(c) \/ Continue(c)
    PROVE  CachedHeads(store, headCache')
<1>. DEFINE k == calls[c]
<1>0. /\ k \in Call /\ CallTyped(k) /\ CallOK(store, k) /\ RootOK(store, k)
      /\ CachedHeads(store, headCache)
      /\ headCache \in [Hash -> 0 .. MaxBlocks \cup {NotCached}]
  BY DEF TypeInv, TypeOK, CallInv, RootInv
<1>1. ASSUME NEW h \in DOMAIN store, headCache' = WriteCache(headCache, RootIn(store, h), h)
      PROVE  CachedHeads(store, headCache')
  <2>1. ASSUME NEW r \in Hash
        PROVE  headCache'[r] = headCache[r] \/ (r = RootIn(store, h) /\ headCache'[r] = h)
    BY <1>0, <1>1 DEF WriteCache
  <2> QED
    BY <1>0, <1>1, <2>1 DEF CachedHeads
<1>2. CASE FillHead(c)
  <2>1. k.arg \in DOMAIN store /\ k.root = RootIn(store, k.arg)
    BY <1>0, <1>2 DEF FillHead, At, CallTyped, RootOK
  <2> QED
    BY <1>1, <1>2, <2>1 DEF FillHead
<1>3. CASE CacheHead(c)
  <2>1. k.block \in DOMAIN store /\ k.root = RootIn(store, k.block)
    BY <1>0, <1>3 DEF CacheHead, At, CallOK, Linked, Written, RootOK
  <2> QED
    BY <1>1, <1>3, <2>1 DEF CacheHead
<1>4. CASE ~ (FillHead(c) \/ CacheHead(c))
  <2>1. headCache' = headCache
    BY <1>4 DEF Start, StartWrite, StartHead, StartNext, Continue, Begin, ReadHead,
                ReadNext, ScanNext, FillNext, Store, CacheRoot, PutRoot, CacheNext,
                CacheNull, caches
  <2> QED
    BY <1>0, <2>1
<1> QED
  BY <1>2, <1>3, <1>4

LEMMA RootInvStep ==
    ASSUME BlockchainAssumption, TypeInv, CallInv, NextCacheSound, RootInv,
           NEW c \in Calls, Start(c) \/ Continue(c)
    PROVE  RootInv'
<1>1. /\ LinksBack(store')
      /\ \A b \in DOMAIN store : b \in DOMAIN store' /\ store'[b] = store[b]
  BY LinksBackStep
<1>2. LinksBack(store)
  BY DEF RootInv
<1>3. CachedRoots(store', rootCache')
  <2>1. CachedRoots(store, rootCache')
    BY CachedRootsStep
  <2> QED
    BY <1>1, <1>2, <2>1, CachesStable
<1>4. CachedHeads(store', headCache')
  <2>1. CachedHeads(store, headCache')
    BY CachedHeadsStep
  <2> QED
    BY <1>1, <1>2, <2>1, CachesStable
<1>5. ASSUME NEW d \in Calls PROVE RootOK(store', calls'[d])
  <2>1. CASE d = c
    BY <2>1, OwnRootOK
  <2>2. CASE d # c
    <3>1. calls'[d] = calls[d] /\ CallOK(store, calls[d]) /\ RootOK(store, calls[d])
      BY <2>2, OthersKeep DEF CallInv, RootInv
    <3> QED
      BY <1>1, <1>2, <3>1, RootOKStable
  <2> QED
    BY <2>1, <2>2
<1> QED
  BY <1>1, <1>3, <1>4, <1>5 DEF RootInv

LEMMA RootInvariant == Spec => []RootInv
<1>1. Init => RootInv
  <2> SUFFICES ASSUME Init PROVE RootInv
    OBVIOUS
  <2>1. LinksBack(store)
    BY BlockchainAssumption DEF Init, LinksBack, BlockchainAssumption
  <2>2. CachedRoots(store, rootCache) /\ CachedHeads(store, headCache)
    BY DEF Init, CachedRoots, CachedHeads
  <2>3. \A c \in Calls : RootOK(store, calls[c])
    BY ReturnRootOK DEF Init
  <2> QED
    BY <2>1, <2>2, <2>3 DEF RootInv
<1>2. TypeInv /\ CallInv /\ NextCacheSound /\ RootInv /\ [Next]_vars => RootInv'
  <2>1. ASSUME TypeInv, CallInv, NextCacheSound, RootInv, Next PROVE RootInv'
    BY <2>1, BlockchainAssumption, RootInvStep DEF Next
  <2>2. ASSUME RootInv, UNCHANGED vars PROVE RootInv'
    BY <2>2 DEF RootInv, vars
  <2> QED
    BY <2>1, <2>2
<1> QED
  BY <1>1, <1>2, TypeInvariant, CallInvariant, NextCacheIsSound, PTL DEF Spec

(***************************************************************************)
(* The theorems.                                                           *)
(***************************************************************************)

(* cacheRootBlock copies the root that another call cached for prev, or    *)
(* walks back; either way it caches what the walk finds, for every set of  *)
(* options and every interleaving.                                         *)
THEOREM RootCacheIsExact == Spec => []RootCacheExact
<1>1. RootInv => RootCacheExact
  BY GetRootBlockIn DEF RootInv, CachedRoots, RootCacheExact
<1> QED
  BY <1>1, RootInvariant, PTL

(* The head that a writer or a reader caches for a root is a block of that *)
(* root's chain, though the reader follows links other calls have cached.  *)
THEOREM HeadCacheStaysInChain == Spec => []HeadCacheInChain
<1>1. RootInv => HeadCacheInChain
  BY GetRootBlockIn DEF RootInv, CachedHeads, HeadCacheInChain
<1> QED
  BY <1>1, RootInvariant, PTL

(* The report of validateBlockchain on a chain whose blocks are numbered   *)
(* and dated one after the other.                                          *)
LEMMA WellFormedValidates ==
    ASSUME BlockchainAssumption, TypeOK, ChainsWellFormed
    PROVE  EveryBlockValidates
<1>. DEFINE D == DOMAIN store
            Report(f, n) ==
                LET p == store[n].prev IN
                CASE p = 0 /\ store[n].seq = 1          -> "valid"
                  [] p = 0 /\ store[n].seq # 1          -> "invalidSequence"
                  [] p # 0 /\ ~IsStored(p)              -> "missingBlock"
                  [] IsStored(p) /\ store[n].ts < store[p].ts -> "invalidTimestamp"
                  [] IsStored(p) /\ store[n].ts >= store[p].ts
                     /\ store[n].seq # store[p].seq + 1 -> "invalidSequence"
                  [] OTHER                              -> f[p]
            report[n \in D] == Report(report, n)
<1>0. D = 1 .. Len(store) /\ Len(store) \in Nat
  BY DEF TypeOK
<1>1. ASSUME NEW f, NEW n \in D
      PROVE  Report(f, n) = IF store[n].prev = 0 THEN "valid" ELSE f[store[n].prev]
  <2>. DEFINE p == store[n].prev
  <2>1. CASE p = 0 /\ store[n].seq = 1
    <3>1. ~ IsStored(p)
      BY <1>0, <2>1 DEF IsStored
    <3> QED
      BY <2>1, <3>1
  <2>2. CASE p \in 1 .. n - 1 /\ store[n].seq = store[p].seq + 1 /\ store[p].ts <= store[n].ts
    <3>1. p # 0 /\ IsStored(p) /\ n \in D
      BY <1>0, <2>2 DEF IsStored
    <3>2. store[p] \in Block /\ store[n] \in Block
      BY <3>1 DEF TypeOK, IsStored
    <3>3. store[p].ts \in Nat /\ store[n].ts \in Nat
      BY <3>2 DEF Block, BlockchainAssumption
    <3>4. ~ (store[n].ts < store[p].ts)
      BY <2>2, <3>3
    <3> QED
      BY <2>2, <3>1, <3>4
  <2> QED
    BY <2>1, <2>2 DEF ChainsWellFormed
<1>2. report = [n \in D |-> Report(report, n)]
  <2>1. [n \in D |-> "valid"] = [n \in D |-> Report([m \in D |-> "valid"], n)]
    <3>. DEFINE f == [m \in D |-> "valid"]
    <3>1. ASSUME NEW n \in D PROVE Report(f, n) = "valid"
      <4>1. Report(f, n) = IF store[n].prev = 0 THEN "valid" ELSE f[store[n].prev]
        BY <1>1
      <4>2. store[n].prev = 0 \/ store[n].prev \in D
        BY <1>0 DEF ChainsWellFormed
      <4> QED
        BY <4>1, <4>2
    <3>. HIDE DEF Report
    <3> QED
      BY <3>1
  <2>2. \E f : f = [n \in D |-> Report(f, n)]
    BY <2>1
  <2> QED
    BY <2>2 DEF report
<1>3. \A b \in D : ValidateBlockchain(b) = report[b]
  BY DEF ValidateBlockchain, IsStored
<1>. DEFINE Valid == {b \in D : report[b] = "valid"}
<1>. HIDE DEF report, Report
<1>4. ASSUME NEW b \in 1 .. Len(store), \A m \in 1 .. b - 1 : m \in Valid
      PROVE  b \in Valid
  <2>1. b \in D /\ report[b] = IF store[b].prev = 0 THEN "valid" ELSE report[store[b].prev]
    BY <1>0, <1>1, <1>2
  <2>2. store[b].prev = 0 \/ store[b].prev \in 1 .. b - 1
    BY <1>0 DEF ChainsWellFormed
  <2> QED
    BY <1>4, <2>1, <2>2
<1>5. \A b \in 1 .. Len(store) : b \in Valid
  <2>. HIDE DEF Valid
  <2> QED
    BY <1>0, <1>4, InductionUpTo
<1> QED
  BY <1>0, <1>3, <1>5 DEF EveryBlockValidates

(* What writeBlock checks on the way in is all that validateBlockchain     *)
(* asks for on the way back: when every write is validated, every stored   *)
(* block validates, whatever was stored between the check and the write.   *)
THEOREM EveryStoredBlockValidates ==
    ASSUME "noValidate" \notin Options
    PROVE  Spec => []EveryBlockValidates
<1>1. TypeOK /\ ChainsWellFormed => EveryBlockValidates
  BY BlockchainAssumption, WellFormedValidates
<1> QED
  BY <1>1, TypeCorrect, ChainsAreWellFormed, PTL
=============================================================================
