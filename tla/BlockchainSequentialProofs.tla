--------------------- MODULE BlockchainSequentialProofs ---------------------
(***************************************************************************)
(* What a caller may rely on who awaits each call before the next, and     *)
(* leaves the options of writeBlock alone: chains do not fork, the cached  *)
(* successor and the cached head are exact between calls, an append is     *)
(* never refused for its prev, and the ledger is linear.                   *)
(*                                                                         *)
(* The argument: the caches are behind the storage only for the            *)
(* predecessor of the block that is being written, and nobody else is      *)
(* there to read them.                                                     *)
(***************************************************************************)
EXTENDS BlockchainProofs

OneCaller == (\E c : Calls = {c}) /\ Options \subseteq {"default"}

(* No block of s names b as its predecessor. *)
LastIn(s, b) == \A n \in DOMAIN s : s[n].prev # b

(* n is what a scan for the successor of b may answer. *)
IsNext(s, b, n) ==
    \/ n = 0 /\ LastIn(s, b)
    \/ n \in DOMAIN s /\ s[n].prev = b

NoForkIn(s) ==
    \A m, n \in DOMAIN s : s[m].prev = s[n].prev /\ s[m].prev # 0 => m = n

(* Between the store and the two writes to the caches that make up for it. *)
NextPending(k) == k.pc \in Written \ {"cacheNull"}
HeadPending(k) == k.pc \in {"cacheRoot", "putRoot", "cacheHead"}

NextCached(s, cache, k) ==
    /\ Caching \/ \A b \in Hash : cache[b] = NotCached
    /\ \A b \in Hash \ DOMAIN s : cache[b] = NotCached
    /\ \A b \in DOMAIN s : \/ cache[b] = NotCached
                           \/ IsNext(s, b, cache[b])
                           \/ NextPending(k) /\ b = k.arg

HeadCached(s, cache, k) ==
    /\ Caching \/ \A r \in Hash : cache[r] = NotCached
    /\ \A r \in Hash : \/ cache[r] = NotCached
                       \/ LastIn(s, cache[r])
                       \/ HeadPending(k) /\ cache[r] = k.arg

(* What the call that runs alone knows.  An append was given a free head,  *)
(* and looks the head up only when none is cached.                         *)
Alone(s, heads, k) ==
    /\ k.pc \in Asking => k.arg \in DOMAIN s
    /\ k.pc = "store" /\ k.arg # 0 => LastIn(s, k.arg)
    /\ k.pc = "fillHead" => LastIn(s, k.arg)
    /\ k.pc \in Asking \cup {"fillHead"} /\ k.ret = "head" => heads[k.root] = NotCached
    /\ k.pc \in Written => LastIn(s, k.block)
    /\ k.op = "append" =>
          /\ k.err \notin {"notFound", "nextBlockExists"}
          /\ k.pc = "begin" \/ (k.pc \in Asking /\ k.ret = "write") =>
                k.arg \in DOMAIN s /\ LastIn(s, k.arg)

SeqInv ==
    /\ NoForkIn(store)
    /\ \A c \in Calls : /\ NextCached(store, nextCache, calls[c])
                        /\ HeadCached(store, headCache, calls[c])
                        /\ Alone(store, headCache, calls[c])

(* All that is known before a step. *)
AllInv ==
    /\ TypeInv /\ CallInv /\ NextCacheSound /\ RootInv
    /\ ChainsWellFormed /\ SeqInv

(***************************************************************************)
(* Chains.                                                                 *)
(***************************************************************************)

(* Every walk ends at a root. *)
LEMMA RootsFound ==
    ASSUME BlockchainAssumption, TypeOK, ChainsWellFormed, LinksBack(store)
    PROVE  \A b \in DOMAIN store : RootIn(store, b) \in 1 .. b
<1>. DEFINE Found == {b \in DOMAIN store : RootIn(store, b) \in 1 .. b}
<1>0. DOMAIN store = 1 .. Len(store) /\ Len(store) \in Nat
  BY DEF TypeOK
<1>1. ASSUME NEW b \in 1 .. Len(store), \A m \in 1 .. b - 1 : m \in Found
      PROVE  b \in Found
  <2>1. store[b].prev = 0 \/ store[b].prev \in 1 .. b - 1
    BY <1>0 DEF ChainsWellFormed
  <2>2. CASE store[b].prev = 0
    <3>1. RootIn(store, b) = b
      BY <1>0, <2>2, RootInStep
    <3> QED
      BY <1>0, <3>1
  <2>3. CASE store[b].prev \in 1 .. b - 1
    <3>. DEFINE p == store[b].prev
    <3>1. RootIn(store, b) = RootIn(store, p)
      BY <1>0, <2>3, RootInStep
    <3>2. RootIn(store, p) \in 1 .. p
      BY <1>1, <2>3
    <3> QED
      BY <1>0, <2>3, <3>1, <3>2
  <2> QED
    BY <2>1, <2>2, <2>3
<1>. HIDE DEF Found
<1>2. \A b \in 1 .. Len(store) : b \in Found
  BY <1>0, <1>1, InductionUpTo
<1> QED
  BY <1>0, <1>2 DEF Found

(* In a chain that does not fork, an earlier block of the chain has a      *)
(* successor among the blocks up to a later one.                           *)
LEMMA EarlierHasNext ==
    ASSUME BlockchainAssumption, TypeOK, ChainsWellFormed, LinksBack(store),
           NoForkIn(store)
    PROVE  \A n \in DOMAIN store : \A m \in 1 .. n - 1 :
               RootIn(store, m) = RootIn(store, n) =>
                   \E q \in m + 1 .. n : store[q].prev = m
<1>. DEFINE Holds(n) == \A m \in 1 .. n - 1 : RootIn(store, m) = RootIn(store, n) =>
                            \E q \in m + 1 .. n : store[q].prev = m
            Good == {n \in DOMAIN store : Holds(n)}
<1>0. DOMAIN store = 1 .. Len(store) /\ Len(store) \in Nat
  BY DEF TypeOK
<1>1. ASSUME NEW n \in 1 .. Len(store), \A i \in 1 .. n - 1 : i \in Good,
             NEW m \in 1 .. n - 1, RootIn(store, m) = RootIn(store, n)
      PROVE  \E q \in m + 1 .. n : store[q].prev = m
  <2>. DEFINE p == store[n].prev
  <2>0. m \in DOMAIN store /\ n \in DOMAIN store /\ RootIn(store, m) \in 1 .. m
    BY <1>0, RootsFound
  <2>1. p \in 1 .. n - 1
    <3>1. p = 0 \/ p \in 1 .. n - 1
      BY <2>0 DEF ChainsWellFormed
    <3>2. p # 0
      <4> SUFFICES ASSUME p = 0 PROVE FALSE
        OBVIOUS
      <4>1. RootIn(store, n) = n
        BY <2>0, RootInStep
      <4> QED
        BY <1>0, <1>1, <2>0, <4>1
    <3> QED
      BY <3>1, <3>2
  <2>2. RootIn(store, p) = RootIn(store, n) /\ p \in DOMAIN store
    BY <1>0, <2>0, <2>1, RootInStep
  <2>3. CASE m = p
    BY <1>0, <2>0, <2>3
  <2>4. CASE m < p
    <3>1. Holds(p)
      BY <1>1, <2>1
    <3>2. m \in 1 .. p - 1 /\ RootIn(store, m) = RootIn(store, p)
      BY <1>0, <1>1, <2>1, <2>2, <2>4
    <3>3. \E q \in m + 1 .. p : store[q].prev = m
      BY <3>1, <3>2
    <3> QED
      BY <1>0, <2>1, <3>3
  <2>5. CASE p < m
    <3>1. Holds(m)
      BY <1>1
    <3>2. p \in 1 .. m - 1 /\ RootIn(store, p) = RootIn(store, m)
      BY <1>0, <1>1, <2>1, <2>2, <2>5
    <3>3. PICK q \in p + 1 .. m : store[q].prev = p
      BY <3>1, <3>2
    <3>4. q \in DOMAIN store
      BY <1>0, <2>0, <2>1, <3>3
    <3>5. q = n
      BY <2>0, <2>1, <3>3, <3>4 DEF NoForkIn
    <3> QED
      BY <1>0, <3>3, <3>5
  <2> QED
    BY <1>0, <2>1, <2>3, <2>4, <2>5
<1>2. \A n \in 1 .. Len(store) : n \in Good
  <2>1. \A n \in 1 .. Len(store) : (\A i \in 1 .. n - 1 : i \in Good) => n \in Good
    BY <1>0, <1>1
  <2>. HIDE DEF Good
  <2> QED
    BY <1>0, <2>1, InductionUpTo
<1> QED
  BY <1>0, <1>2

(* A chain that does not fork has one last block. *)
LEMMA OneLast ==
    ASSUME BlockchainAssumption, TypeOK, ChainsWellFormed, LinksBack(store),
           NoForkIn(store), NEW m \in DOMAIN store, NEW n \in DOMAIN store,
           RootIn(store, m) = RootIn(store, n), LastIn(store, m), LastIn(store, n)
    PROVE  m = n
<1>0. DOMAIN store = 1 .. Len(store) /\ Len(store) \in Nat
  BY DEF TypeOK
<1>1. ASSUME NEW i \in DOMAIN store, NEW j \in DOMAIN store, i < j,
             RootIn(store, i) = RootIn(store, j), LastIn(store, i)
      PROVE  FALSE
  <2>1. i \in 1 .. j - 1
    BY <1>0, <1>1
  <2>2. PICK q \in i + 1 .. j : store[q].prev = i
    BY <1>1, <2>1, EarlierHasNext
  <2>3. q \in DOMAIN store
    BY <1>0, <1>1, <2>2
  <2> QED
    BY <1>1, <2>2, <2>3 DEF LastIn
<1> QED
  BY <1>0, <1>1

LEMMA NextIsFindNext ==
    ASSUME store \in Seq(Block), NoForkIn(store),
           NEW b, b # 0, NEW n, IsNext(store, b, n)
    PROVE  n = FindNext(b)
BY FindNextSpec DEF IsNext, LastIn, NoForkIn, Successors

LEMMA FindNextIsNext ==
    ASSUME store \in Seq(Block), NEW b
    PROVE  IsNext(store, b, FindNext(b))
BY FindNextSpec DEF IsNext, LastIn, Successors

(***************************************************************************)
(* What the call that runs alone knows after a stretch.                    *)
(***************************************************************************)
LEMMA IdleAlone ==
    ASSUME NEW s, NEW heads, NEW k, k.pc = "idle",
           k.op = "append" => k.err \notin {"notFound", "nextBlockExists"}
    PROVE  Alone(s, heads, k)
BY DEF Alone, Asking, Written

LEMMA ReturnAlone ==
    ASSUME NEW s, NEW heads, NEW k, NEW b
    PROVE  Alone(s, heads, Return(k, b))
<1>1. Return(k, b).pc = "idle" /\ Return(k, b).err = "none"
  BY DEF Return, NewCall
<1> QED
  BY <1>1, IdleAlone

LEMMA RejectAlone ==
    ASSUME NEW s, NEW heads, NEW k, NEW e,
           k.op = "append" => e \notin {"notFound", "nextBlockExists"}
    PROVE  Alone(s, heads, Reject(k, e))
<1>1. Reject(k, e).pc = "idle" /\ Reject(k, e).err = e /\ Reject(k, e).op = k.op
  BY DEF Reject, NewCall
<1> QED
  BY <1>1, IdleAlone

LEMMA AfterHeadAlone ==
    ASSUME NEW s, NEW heads, NEW k, NEW h \in DOMAIN s, LastIn(s, h)
    PROVE  Alone(s, heads, AfterHead(k, h))
<1>1. CASE k.op = "append"
  <2>1. /\ AfterHead(k, h).pc = "begin" /\ AfterHead(k, h).arg = h
        /\ AfterHead(k, h).err = "none"
    BY <1>1 DEF AfterHead, NewCall
  <2> QED
    BY <2>1 DEF Alone, Asking, Written
<1>2. CASE k.op # "append"
  BY <1>2, ReturnAlone DEF AfterHead
<1> QED
  BY <1>1, <1>2

LEMMA AfterNextAlone ==
    ASSUME NEW s, NEW heads, NEW k \in Call, Alone(s, heads, k),
           k.pc \in Asking, k.ret \in {"head", "next", "write"},
           0 \notin DOMAIN s, NEW n, IsNext(s, k.arg, n)
    PROVE  Alone(s, heads, AfterNext(k, n))
<1>0. \/ n = 0 /\ LastIn(s, k.arg)
      \/ n # 0 /\ n \in DOMAIN s /\ ~ LastIn(s, k.arg)
  BY DEF IsNext, LastIn
<1>1. CASE k.ret = "write" /\ n = 0
  <2>1. AfterNext(k, n) = [k EXCEPT !.pc = "store"]
    BY <1>1 DEF AfterNext
  <2> QED
    BY <1>0, <1>1, <2>1 DEF Alone, Call, Asking, Written
<1>2. CASE k.ret = "write" /\ n # 0
  <2>1. k.op # "append"
    BY <1>0, <1>2 DEF Alone
  <2> QED
    BY <1>2, <2>1, RejectAlone DEF AfterNext
<1>3. CASE k.ret = "next"
  BY <1>3, ReturnAlone DEF AfterNext
<1>4. CASE k.ret = "head" /\ n = 0
  <2>1. AfterNext(k, n) = [k EXCEPT !.pc = "fillHead"]
    BY <1>4 DEF AfterNext
  <2> QED
    BY <1>0, <1>4, <2>1 DEF Alone, Call, Asking, Written
<1>5. CASE k.ret = "head" /\ n # 0
  <2>1. AfterNext(k, n) = [k EXCEPT !.pc = "readNext", !.arg = n]
    BY <1>5 DEF AfterNext
  <2> QED
    BY <1>0, <1>5, <2>1 DEF Alone, Call, Asking, Written
<1> QED
  BY <1>1, <1>2, <1>3, <1>4, <1>5

(* What every step starts from. *)
LEMMA CallFacts ==
    ASSUME BlockchainAssumption, OneCaller, AllInv, NEW c \in Calls
    PROVE  /\ calls[c] \in Call /\ CallTyped(calls[c])
           /\ CallOK(store, calls[c]) /\ RootOK(store, calls[c])
           /\ Alone(store, headCache, calls[c])
           /\ NextCached(store, nextCache, calls[c])
           /\ HeadCached(store, headCache, calls[c])
           /\ calls[c].opt = "default"
           /\ DOMAIN calls = Calls /\ LinksBack(store) /\ NoForkIn(store)
           /\ DOMAIN store = 1 .. Len(store) /\ Len(store) \in Nat
           /\ store \in Seq(Block)
           /\ DOMAIN store \subseteq Hash /\ 0 \notin Hash
           /\ Unknown \notin DOMAIN store
           /\ nextCache \in [Hash -> 0 .. MaxBlocks \cup {NotCached}]
           /\ headCache \in [Hash -> 0 .. MaxBlocks \cup {NotCached}]
<1>1. TypeInv /\ CallInv /\ RootInv /\ SeqInv
  BY DEF AllInv
<1>2. calls[c] \in Call /\ CallTyped(calls[c]) /\ DOMAIN calls = Calls
  BY <1>1 DEF TypeInv, TypeOK
<1>3. calls[c].opt = "default"
  BY <1>2 DEF Call, OneCaller
<1>4. CallOK(store, calls[c]) /\ RootOK(store, calls[c]) /\ LinksBack(store)
  BY <1>1 DEF CallInv, RootInv
<1>5. /\ Alone(store, headCache, calls[c]) /\ NoForkIn(store)
      /\ NextCached(store, nextCache, calls[c]) /\ HeadCached(store, headCache, calls[c])
  BY <1>1 DEF SeqInv
<1>6. /\ DOMAIN store = 1 .. Len(store) /\ Len(store) \in Nat
      /\ store \in Seq(Block) /\ Len(store) <= MaxBlocks
      /\ nextCache \in [Hash -> 0 .. MaxBlocks \cup {NotCached}]
      /\ headCache \in [Hash -> 0 .. MaxBlocks \cup {NotCached}]
  BY <1>1 DEF TypeInv, TypeOK
<1>7. DOMAIN store \subseteq Hash /\ 0 \notin Hash /\ Unknown \notin DOMAIN store
  BY <1>6 DEF Hash, Unknown, BlockchainAssumption
<1> QED
  BY <1>2, <1>3, <1>4, <1>5, <1>6, <1>7

LEMMA ReadersAlone ==
    ASSUME BlockchainAssumption, OneCaller, AllInv, NEW c \in Calls,
           \/ ReadHead(c) \/ FillHead(c)
           \/ ReadNext(c) \/ ScanNext(c) \/ FillNext(c)
    PROVE  Alone(store', headCache', calls'[c])
<1>. DEFINE k == calls[c]
<1>0. /\ k \in Call /\ CallTyped(k) /\ CallOK(store, k) /\ RootOK(store, k)
      /\ Alone(store, headCache, k) /\ NextCached(store, nextCache, k)
      /\ HeadCached(store, headCache, k) /\ DOMAIN calls = Calls
      /\ store \in Seq(Block) /\ DOMAIN store \subseteq Hash /\ 0 \notin Hash
  BY CallFacts
<1>a. \A r : Set(c, r) => calls'[c] = r
  BY <1>0 DEF Set
<1>b. \A p : Goto(c, p) => calls'[c] = [k EXCEPT !.pc = p]
  BY <1>0 DEF Goto, Call
<1>1. CASE ReadHead(c)
  <2>0. /\ k.pc = "readHead" /\ k.ret = "head" /\ k.root \in Hash
        /\ k.arg \in DOMAIN store /\ UNCHANGED <<store, headCache>>
    BY <1>0, <1>1 DEF ReadHead, At, CallTyped, Place, Hash, Unknown, RootOK, caches,
                      BlockchainAssumption
  <2>1. CASE headCache[k.root] = NotCached
    <3>1. calls'[c] = [k EXCEPT !.pc = "readNext"]
      BY <1>1, <1>b, <2>1 DEF ReadHead
    <3> QED
      BY <1>0, <2>0, <2>1, <3>1 DEF Alone, Call, Asking, Written
  <2>2. CASE headCache[k.root] # NotCached
    <3>. DEFINE h == headCache[k.root]
    <3>1. calls'[c] = AfterHead(k, h)
      BY <1>1, <1>a, <2>2 DEF ReadHead
    <3>2. h \in DOMAIN store
      BY <2>0, <2>2 DEF AllInv, RootInv, CachedHeads
    <3>3. LastIn(store, h)
      BY <1>0, <2>0, <2>2 DEF HeadCached, HeadPending
    <3>. HIDE DEF h
    <3> QED
      BY <2>0, <3>1, <3>2, <3>3, AfterHeadAlone
  <2> QED
    BY <2>1, <2>2
<1>2. CASE FillHead(c)
  <2>1. k.pc = "fillHead" /\ store' = store /\ calls'[c] = AfterHead(k, k.arg)
    BY <1>2, <1>a DEF FillHead, At
  <2>2. k.arg \in DOMAIN store /\ LastIn(store, k.arg)
    BY <1>0, <2>1 DEF RootOK, CallTyped, Alone
  <2> QED
    BY <2>1, <2>2, AfterHeadAlone
<1>3. CASE ReadNext(c)
  <2>0. /\ k.pc = "readNext" /\ k.pc \in Asking /\ k.arg \in DOMAIN store
        /\ k.ret \in {"head", "next", "write"} /\ UNCHANGED <<store, headCache>>
    BY <1>0, <1>3 DEF ReadNext, At, CallTyped, Alone, Asking, caches
  <2>1. CASE nextCache[k.arg] = NotCached
    <3>1. calls'[c] = [k EXCEPT !.pc = "scanNext"]
      BY <1>3, <1>b, <2>1 DEF ReadNext
    <3> QED
      BY <1>0, <2>0, <3>1 DEF Alone, Call, Asking, Written
  <2>2. CASE nextCache[k.arg] # NotCached
    <3>1. calls'[c] = AfterNext(k, nextCache[k.arg])
      BY <1>3, <1>a, <2>2 DEF ReadNext
    <3>2. IsNext(store, k.arg, nextCache[k.arg])
      BY <1>0, <2>0, <2>2 DEF NextCached, NextPending, Written
    <3> QED
      BY <1>0, <2>0, <3>1, <3>2, AfterNextAlone
  <2> QED
    BY <2>1, <2>2
<1>4. CASE ScanNext(c)
  <2>0. /\ k.pc = "scanNext" /\ k.pc \in Asking /\ UNCHANGED <<store, headCache>>
        /\ k.ret \in {"head", "next", "write"}
    BY <1>0, <1>4 DEF ScanNext, At, CallTyped, Asking, caches
  <2>1. CASE FindNext(k.arg) = 0
    <3>1. calls'[c] = AfterNext(k, 0) /\ IsNext(store, k.arg, 0)
      BY <1>0, <1>4, <1>a, <2>1, FindNextIsNext DEF ScanNext
    <3> QED
      BY <1>0, <2>0, <3>1, AfterNextAlone
  <2>2. CASE FindNext(k.arg) # 0
    <3>1. calls'[c] = [k EXCEPT !.pc = "fillNext", !.block = FindNext(k.arg)]
      BY <1>4, <1>a, <2>2 DEF ScanNext
    <3> QED
      BY <1>0, <2>0, <3>1 DEF Alone, Call, Asking, Written
  <2> QED
    BY <2>1, <2>2
<1>5. CASE FillNext(c)
  <2>. DEFINE r == [k EXCEPT !.block = 0]
  <2>0. /\ k.pc = "fillNext" /\ k.pc \in Asking /\ UNCHANGED <<store, headCache>>
        /\ k.ret \in {"head", "next", "write"}
    BY <1>0, <1>5 DEF FillNext, At, CallTyped, Asking
  <2>1. calls'[c] = AfterNext(r, k.block)
    BY <1>5, <1>a DEF FillNext
  <2>2. IsNext(store, k.arg, k.block)
    BY <1>0, <2>0 DEF CallOK, Linked, IsNext
  <2>3. /\ r \in Call /\ r.arg = k.arg /\ r.pc = k.pc /\ r.ret = k.ret
        /\ r.root = k.root /\ r.op = k.op /\ r.err = k.err
    BY <1>0 DEF Call
  <2>4. Alone(store, headCache, r)
    BY <1>0, <2>0, <2>3 DEF Alone, Asking, Written
  <2>. HIDE DEF r
  <2> QED
    BY <1>0, <2>0, <2>1, <2>2, <2>3, <2>4, AfterNextAlone
<1> QED
  BY <1>1, <1>2, <1>3, <1>4, <1>5

LEMMA StartsAlone ==
    ASSUME BlockchainAssumption, OneCaller, AllInv, NEW c \in Calls, Start(c)
    PROVE  Alone(store', headCache', calls'[c])
<1>0. DOMAIN calls = Calls /\ LinksBack(store)
  BY CallFacts
<1>a. \A r : Set(c, r) => calls'[c] = r
  BY <1>0 DEF Set
<1>1. ASSUME NEW p, NEW o, StartWrite(c, p, o)
      PROVE  Alone(store', headCache', calls'[c])
  <2>1. calls'[c].pc = "begin" /\ calls'[c].op = "write"
    BY <1>1, <1>a DEF StartWrite, NewCall
  <2> QED
    BY <2>1 DEF Alone, Asking, Written
<1>2. ASSUME NEW b \in DOMAIN store, NEW op, StartHead(c, b, op)
      PROVE  Alone(store', headCache', calls'[c])
  <2>. DEFINE r == [NewCall EXCEPT !.op = op, !.pc = "readHead", !.ret = "head",
                                   !.arg = b, !.root = GetRootBlock(b)]
  <2>1. GetRootBlock(b) # 0
    BY <1>0, RootsFound, GetRootBlockIn DEF AllInv, TypeInv, TypeOK
  <2>2. calls'[c] = r
    BY <1>2, <1>a, <2>1 DEF StartHead
  <2>3. r.pc = "readHead" /\ r.err = "none"
    BY DEF NewCall
  <2>. HIDE DEF r
  <2> QED
    BY <2>2, <2>3 DEF Alone, Asking, Written
<1>3. ASSUME NEW b \in DOMAIN store, StartNext(c, b)
      PROVE  Alone(store', headCache', calls'[c])
  <2>1. /\ calls'[c].pc = "readNext" /\ calls'[c].ret = "next"
        /\ calls'[c].op = "next" /\ calls'[c].arg = b /\ store' = store
    BY <1>3, <1>a DEF StartNext, NewCall
  <2> QED
    BY <2>1 DEF Alone, Asking, Written
<1> QED
  BY <1>1, <1>2, <1>3 DEF Start

(* The check of prev. *)
LEMMA BeginAlone ==
    ASSUME BlockchainAssumption, OneCaller, AllInv, NEW c \in Calls,
           NEW t \in Times, Begin(c, t)
    PROVE  Alone(store', headCache', calls'[c])
<1>. DEFINE k == calls[c]
            e == CheckPrev(k.arg, t, k.opt)
            w == [k EXCEPT !.ts = t, !.seq = SeqAfter(k.arg), !.ret = "write",
                       !.pc = IF k.opt # "noValidate" /\ k.arg # 0
                              THEN "readNext" ELSE "store"]
<1>0. /\ k \in Call /\ Alone(store, headCache, k) /\ k.opt = "default"
      /\ DOMAIN calls = Calls /\ k.pc = "begin" /\ 0 \notin DOMAIN store
      /\ UNCHANGED <<store, headCache>>
  BY CallFacts DEF Begin, At, caches
<1>1. calls'[c] = IF e = "none" THEN w ELSE Reject(k, e)
  BY <1>0 DEF Begin, Set
<1>2. CASE e # "none"
  <2>1. k.op = "append" => e \notin {"notFound", "nextBlockExists"}
    BY <1>0 DEF Alone, CheckPrev, IsStored
  <2> QED
    BY <1>1, <1>2, <2>1, RejectAlone
<1>3. CASE e = "none"
  <2>1. k.arg # 0 => k.arg \in DOMAIN store
    BY <1>0, <1>3 DEF CheckPrev, IsStored
  <2>2. /\ w.arg = k.arg /\ w.op = k.op /\ w.err = k.err /\ w.ret = "write"
        /\ w.pc = IF k.arg # 0 THEN "readNext" ELSE "store"
    BY <1>0 DEF Call
  <2>3. k.arg # 0 => w.pc \in Asking /\ w.pc \notin Written \cup {"store", "begin", "fillHead"}
    BY <2>2 DEF Asking, Written
  <2>4. k.arg = 0 => w.pc = "store"
    BY <2>2
  <2>. HIDE DEF w, e
  <2>5. CASE k.arg # 0
    BY <1>0, <1>1, <1>3, <2>1, <2>2, <2>3, <2>5 DEF Alone
  <2>6. CASE k.arg = 0
    BY <1>0, <1>1, <1>3, <2>2, <2>4, <2>6 DEF Alone, Asking, Written
  <2> QED
    BY <2>5, <2>6
<1> QED
  BY <1>2, <1>3

(* The new block has no successor, and prev had none. *)
LEMMA StoreFacts ==
    ASSUME BlockchainAssumption, OneCaller, AllInv, NEW c \in Calls, Store(c),
           Len(store) < MaxBlocks
    PROVE  LET k == calls[c]
               b == Len(store) + 1
           IN  /\ calls'[c] = [k EXCEPT !.block = b, !.pc = "cacheRoot"]
               /\ DOMAIN store' = 1 .. b /\ DOMAIN store = 1 .. Len(store)
               /\ Len(store) \in Nat
               /\ \A n \in DOMAIN store : store'[n] = store[n]
               /\ store'[b] = [prev |-> k.arg, seq |-> k.seq, ts |-> k.ts]
               /\ k.arg = 0 \/ k.arg \in DOMAIN store
               /\ k.arg # 0 => LastIn(store, k.arg)
               /\ LastIn(store', b) /\ b \in Hash
               /\ \A a \in DOMAIN store : LastIn(store, a) /\ a # k.arg => LastIn(store', a)
<1>. DEFINE k == calls[c]
            b == Len(store) + 1
            e == [prev |-> k.arg, seq |-> k.seq, ts |-> k.ts]
<1>0. /\ k \in Call /\ CallTyped(k) /\ CallOK(store, k) /\ k.opt = "default"
      /\ Alone(store, headCache, k)
      /\ DOMAIN calls = Calls /\ LinksBack(store) /\ store \in Seq(Block)
      /\ DOMAIN store = 1 .. Len(store) /\ Len(store) \in Nat /\ k.pc = "store"
  BY CallFacts DEF Store, At
<1>1. calls'[c] = [k EXCEPT !.block = b, !.pc = "cacheRoot"] /\ store' = Append(store, e)
  BY <1>0 DEF Store, Set, CachesRoot
<1>2. e \in Block
  BY <1>0 DEF Call, CallTyped, Block
<1>3. /\ DOMAIN store' = 1 .. b
      /\ \A n \in DOMAIN store : store'[n] = store[n]
      /\ store'[b] = e
  BY <1>0, <1>1, <1>2, StoreGrows
<1>4. k.arg = 0 \/ k.arg \in DOMAIN store
  BY <1>0 DEF CallOK, Ready
<1>5. k.arg # 0 => LastIn(store, k.arg)
  BY <1>0 DEF Alone
<1>6. ASSUME NEW n \in DOMAIN store' PROVE store'[n].prev # b
  <2>1. CASE n = b
    BY <1>0, <1>3, <1>4, <2>1
  <2>2. CASE n \in DOMAIN store
    <3>1. store[n].prev \in 0 .. n - 1 \cup {Unknown}
      BY <1>0, <2>2 DEF LinksBack
    <3>2. Unknown # b /\ n \in 1 .. Len(store)
      BY <1>0, <2>2 DEF Unknown, BlockchainAssumption
    <3> QED
      BY <1>0, <1>3, <2>2, <3>1, <3>2
  <2> QED
    BY <1>0, <1>3, <2>1, <2>2
<1>7. ASSUME NEW a \in DOMAIN store, LastIn(store, a), a # k.arg
      PROVE  LastIn(store', a)
  BY <1>0, <1>3, <1>7 DEF LastIn
<1>8. b \in Hash
  BY <1>0 DEF Hash, Unknown, BlockchainAssumption
<1> QED
  BY <1>0, <1>1, <1>3, <1>4, <1>5, <1>6, <1>7, <1>8 DEF LastIn

LEMMA WritersAlone ==
    ASSUME BlockchainAssumption, OneCaller, AllInv, NEW c \in Calls,
           \/ Store(c) \/ CacheRoot(c) \/ PutRoot(c) \/ CacheHead(c)
           \/ CacheNext(c) \/ CacheNull(c)
    PROVE  Alone(store', headCache', calls'[c])
<1>. DEFINE k == calls[c]
<1>0. /\ k \in Call /\ CallTyped(k) /\ CallOK(store, k) /\ RootOK(store, k)
      /\ Alone(store, headCache, k) /\ DOMAIN calls = Calls /\ LinksBack(store)
  BY CallFacts
<1>a. \A r : Set(c, r) => calls'[c] = r
  BY <1>0 DEF Set
<1>b. \A p : Goto(c, p) => calls'[c] = [k EXCEPT !.pc = p]
  BY <1>0 DEF Goto, Call
<1>c. ASSUME NEW r, store' = store, calls'[c] = r, k.pc \in Written, r.pc \in Written,
             r.block = k.block, r.op = k.op, r.err = k.err
      PROVE  Alone(store', headCache', calls'[c])
  BY <1>0, <1>c DEF Alone, Asking, Written
<1>1. CASE Store(c)
  <2>1. CASE Len(store) < MaxBlocks
    <3>. DEFINE b == Len(store) + 1
    <3>1. calls'[c] = [k EXCEPT !.block = b, !.pc = "cacheRoot"] /\ LastIn(store', b)
      BY <1>1, <2>1, StoreFacts
    <3>2. /\ calls'[c].pc = "cacheRoot" /\ calls'[c].block = b
          /\ calls'[c].op = k.op /\ calls'[c].err = k.err
      BY <1>0, <3>1 DEF Call
    <3> QED
      BY <1>0, <3>1, <3>2 DEF Alone, Asking, Written
  <2>2. CASE ~ (Len(store) < MaxBlocks)
    BY <1>1, <1>a, <2>2, RejectAlone DEF Store
  <2> QED
    BY <2>1, <2>2
<1>2. CASE CacheRoot(c)
  <2>0. /\ k.pc = "cacheRoot" /\ store' = store
        /\ k.block \in DOMAIN store /\ store[k.block].prev = k.arg
    BY <1>0, <1>2 DEF CacheRoot, At, CallOK, Linked, Written
  <2>1. k.arg # 0 => RootFromPrev(k) # 0
    <3>1. k.arg # 0 => RootFromPrev(k) = RootIn(store, k.block)
      BY <1>0, <2>0, RootFromPrevExact DEF AllInv
    <3>2. RootIn(store, k.block) # 0
      BY <1>0, <2>0, RootsFound DEF AllInv, TypeInv, TypeOK
    <3> QED
      BY <3>1, <3>2
  <2>2. \/ calls'[c] = [k EXCEPT !.pc = "cacheHead", !.root = k.block]
        \/ calls'[c] = [k EXCEPT !.pc = "putRoot", !.root = RootFromPrev(k)]
    BY <1>2, <1>a, <2>1 DEF CacheRoot
  <2>3. /\ calls'[c].pc \in Written /\ calls'[c].block = k.block
        /\ calls'[c].op = k.op /\ calls'[c].err = k.err
    BY <1>0, <2>2 DEF Call, Written
  <2> QED
    BY <1>c, <2>0, <2>3 DEF Written
<1>3. CASE PutRoot(c) \/ CacheHead(c) \/ CacheNext(c)
  <2>0. k.pc \in Written /\ store' = store
    BY <1>3 DEF PutRoot, CacheHead, CacheNext, At, Written
  <2>1. PICK p \in Written : calls'[c] = [k EXCEPT !.pc = p]
    BY <1>3, <1>b DEF PutRoot, CacheHead, CacheNext, AfterHeadCached, Written
  <2>2. /\ calls'[c].pc \in Written /\ calls'[c].block = k.block
        /\ calls'[c].op = k.op /\ calls'[c].err = k.err
    BY <1>0, <2>1 DEF Call
  <2> QED
    BY <1>c, <2>0, <2>2
<1>4. CASE CacheNull(c)
  BY <1>4, <1>a, ReturnAlone DEF CacheNull
<1> QED
  BY <1>1, <1>2, <1>3, <1>4

LEMMA AloneStep ==
    ASSUME BlockchainAssumption, OneCaller, AllInv, NEW c \in Calls,
           Start(c) \/ Continue(c)
    PROVE  Alone(store', headCache', calls'[c])
BY StartsAlone, BeginAlone, ReadersAlone, WritersAlone DEF Continue

(***************************************************************************)
(* The storage and the caches after a step.                                *)
(***************************************************************************)
LEMMA NoForkStep ==
    ASSUME BlockchainAssumption, OneCaller, AllInv, NEW c \in Calls,
           Start(c) \/ Continue(c)
    PROVE  NoForkIn(store')
<1>. DEFINE k == calls[c]
<1>0. NoForkIn(store)
  BY CallFacts
<1>1. CASE store' = store
  BY <1>0, <1>1
<1>2. CASE Store(c) /\ Len(store) < MaxBlocks
  <2>. DEFINE b == Len(store) + 1
  <2>0. /\ DOMAIN store' = 1 .. b /\ DOMAIN store = 1 .. Len(store) /\ Len(store) \in Nat
        /\ \A n \in DOMAIN store : store'[n] = store[n]
        /\ store'[b] = [prev |-> k.arg, seq |-> k.seq, ts |-> k.ts]
        /\ k.arg # 0 => LastIn(store, k.arg)
    BY <1>2, StoreFacts
  <2>1. /\ DOMAIN store' = 1 .. b /\ DOMAIN store = 1 .. Len(store) /\ Len(store) \in Nat
        /\ \A n \in DOMAIN store : store'[n] = store[n]
        /\ store'[b].prev = k.arg
        /\ k.arg # 0 => LastIn(store, k.arg)
    BY <2>0
  <2>2. \A n \in DOMAIN store' : n = b \/ n \in DOMAIN store
    BY <2>1
  <2>. HIDE DEF b
  <2> QED
    BY <1>0, <2>1, <2>2 DEF NoForkIn, LastIn
<1>3. store' = store \/ (Store(c) /\ Len(store) < MaxBlocks)
  BY DEF Start, StartWrite, StartHead, StartNext, Continue, Begin, ReadHead,
         FillHead, ReadNext, ScanNext, FillNext, Store, CacheRoot, PutRoot,
         CacheHead, CacheNext, CacheNull
<1> QED
  BY <1>1, <1>2, <1>3

LEMMA NextCachedStep ==
    ASSUME BlockchainAssumption, OneCaller, AllInv, NEW c \in Calls,
           Start(c) \/ Continue(c)
    PROVE  NextCached(store', nextCache', calls'[c])
<1>. DEFINE k == calls[c]
<1>0. /\ k \in Call /\ CallTyped(k) /\ CallOK(store, k) /\ Alone(store, headCache, k)
      /\ NextCached(store, nextCache, k) /\ k.opt = "default"
      /\ DOMAIN calls = Calls /\ LinksBack(store) /\ DOMAIN store \subseteq Hash
      /\ Unknown \notin DOMAIN store /\ 0 \notin Hash
      /\ nextCache \in [Hash -> 0 .. MaxBlocks \cup {NotCached}]
  BY CallFacts
<1>a. \A r : Set(c, r) => calls'[c] = r
  BY <1>0 DEF Set
<1>b. \A p : Goto(c, p) => calls'[c] = [k EXCEPT !.pc = p]
  BY <1>0 DEF Goto, Call
<1>1. ASSUME store' = store, nextCache' = nextCache, ~ NextPending(k)
      PROVE  NextCached(store', nextCache', calls'[c])
  BY <1>0, <1>1 DEF NextCached
<1>2. ASSUME NEW b \in DOMAIN store, NEW n, nextCache' = WriteCache(nextCache, b, n),
             store' = store, IsNext(store, b, n), NextPending(k) => b = k.arg \/ k.arg = 0
      PROVE  NextCached(store', nextCache', calls'[c])
  <2>1. CASE ~ Caching
    BY <1>0, <1>2, <2>1 DEF NextCached, WriteCache
  <2>2. CASE Caching
    <3>1. \A a \in Hash : nextCache'[a] = IF a = b THEN n ELSE nextCache[a]
      BY <1>0, <1>2, <2>2 DEF WriteCache
    <3> QED
      BY <1>0, <1>2, <2>2, <3>1 DEF NextCached
  <2> QED
    BY <2>1, <2>2
<1>3. CASE FillNext(c)
  <2>1. /\ k.block \in DOMAIN store /\ store[k.block].prev = k.arg /\ k.pc = "fillNext"
        /\ k.arg \in DOMAIN store
    BY <1>0, <1>3 DEF FillNext, At, CallOK, Linked, Alone, Asking
  <2> QED
    BY <1>2, <1>3, <2>1 DEF FillNext, IsNext, NextPending, Written
<1>4. CASE CacheNext(c)
  <2>1. k.block \in DOMAIN store /\ store[k.block].prev = k.arg /\ k.arg \in Hash
    BY <1>0, <1>4 DEF CacheNext, At, CallOK, CallTyped, Linked, Written
  <2>2. k.arg \in DOMAIN store
    <3>1. k.arg = 0 \/ k.arg \in 1 .. k.block - 1
      BY <2>1 DEF AllInv, ChainsWellFormed
    <3>2. DOMAIN store = 1 .. Len(store) /\ Len(store) \in Nat
      BY CallFacts
    <3> QED
      BY <1>0, <2>1, <3>1, <3>2
  <2> QED
    BY <1>2, <1>4, <2>1, <2>2 DEF CacheNext, IsNext
<1>5. CASE CacheNull(c)
  <2>1. k.block \in DOMAIN store /\ LastIn(store, k.block) /\ k.pc = "cacheNull"
    BY <1>0, <1>5 DEF CacheNull, At, CallOK, Linked, Alone, Written
  <2> QED
    BY <1>2, <1>5, <2>1 DEF CacheNull, IsNext, NextPending
<1>6. CASE Store(c)
  <2>1. CASE ~ (Len(store) < MaxBlocks)
    BY <1>1, <1>6, <2>1 DEF Store, At, NextPending, Written, caches
  <2>2. CASE Len(store) < MaxBlocks
    <3>. DEFINE b == Len(store) + 1
    <3>1. /\ calls'[c] = [k EXCEPT !.block = b, !.pc = "cacheRoot"]
          /\ DOMAIN store' = 1 .. b /\ DOMAIN store = 1 .. Len(store)
          /\ Len(store) \in Nat /\ b \in Hash
          /\ \A n \in DOMAIN store : store'[n] = store[n]
          /\ \A a \in DOMAIN store : LastIn(store, a) /\ a # k.arg => LastIn(store', a)
      BY <1>6, <2>2, StoreFacts
    <3>2. NextPending(calls'[c]) /\ calls'[c].arg = k.arg
      BY <1>0, <3>1 DEF Call, NextPending, Written
    <3>3. nextCache' = nextCache /\ ~ NextPending(k)
      BY <1>6 DEF Store, At, NextPending, Written, caches
    <3>4. nextCache[b] = NotCached
      BY <1>0, <3>1 DEF NextCached
    <3>5. ASSUME NEW a \in DOMAIN store, a # k.arg, IsNext(store, a, nextCache[a])
          PROVE  IsNext(store', a, nextCache[a])
      BY <3>1, <3>5 DEF IsNext
    <3>6. \A a \in DOMAIN store' : a = b \/ a \in DOMAIN store
      BY <3>1
    <3>7. DOMAIN store \subseteq DOMAIN store'
      BY <3>1
    <3>. HIDE DEF b
    <3>8. \A a \in Hash \ DOMAIN store' : nextCache[a] = NotCached
      BY <1>0, <3>7 DEF NextCached
    <3>9. \A a \in DOMAIN store' : \/ nextCache[a] = NotCached
                                   \/ IsNext(store', a, nextCache[a])
                                   \/ a = k.arg
      BY <1>0, <3>3, <3>4, <3>5, <3>6 DEF NextCached
    <3> QED
      BY <1>0, <3>2, <3>3, <3>8, <3>9 DEF NextCached
  <2> QED
    BY <2>1, <2>2
<1>7. CASE CacheRoot(c) \/ PutRoot(c)
  <2>1. /\ store' = store /\ nextCache' = nextCache
        /\ k.block \in DOMAIN store /\ store[k.block].prev = k.arg
        /\ k.pc \in {"cacheRoot", "putRoot"}
    BY <1>0, <1>7 DEF CacheRoot, PutRoot, At, CallOK, Linked, Written
  <2>2. k.arg # 0 => RootFromPrev(k) # 0
    <3>1. k.arg # 0 => RootFromPrev(k) = RootIn(store, k.block)
      BY <1>0, <2>1, RootFromPrevExact DEF AllInv
    <3>2. RootIn(store, k.block) # 0
      BY <1>0, <2>1, RootsFound DEF AllInv, TypeInv, TypeOK
    <3> QED
      BY <3>1, <3>2
  <2>3. \/ calls'[c] = [k EXCEPT !.pc = "cacheHead", !.root = k.block]
        \/ calls'[c] = [k EXCEPT !.pc = "putRoot", !.root = RootFromPrev(k)]
        \/ calls'[c] = [k EXCEPT !.pc = "cacheHead"]
    BY <1>7, <1>a, <1>b, <2>2 DEF CacheRoot, PutRoot
  <2>4. calls'[c].arg = k.arg /\ NextPending(calls'[c])
    BY <1>0, <2>3 DEF Call, NextPending, Written
  <2> QED
    BY <1>0, <2>1, <2>4 DEF NextCached
<1>8. CASE CacheHead(c)
  <2>1. store' = store /\ nextCache' = nextCache
        /\ calls'[c] = [k EXCEPT !.pc = AfterHeadCached(k)]
    BY <1>8, <1>b DEF CacheHead
  <2>2. CASE k.arg = 0
    BY <1>0, <2>1, <2>2 DEF NextCached
  <2>3. CASE k.arg # 0
    <3>1. calls'[c].arg = k.arg /\ calls'[c].pc = "cacheNext"
      BY <1>0, <2>1, <2>3 DEF Call, AfterHeadCached, CachesNext
    <3> QED
      BY <1>0, <2>1, <3>1 DEF NextCached, NextPending, Written
  <2> QED
    BY <2>2, <2>3
<1>9. CASE \/ Start(c) \/ ReadHead(c) \/ FillHead(c) \/ ReadNext(c) \/ ScanNext(c)
           \/ \E t \in Times : Begin(c, t)
  <2>1. store' = store /\ nextCache' = nextCache
        /\ k.pc \in {"idle", "readHead", "fillHead", "readNext", "scanNext", "begin"}
    BY <1>9 DEF Start, StartWrite, StartHead, StartNext, ReadHead, FillHead, ReadNext,
                ScanNext, Begin, At, caches
  <2> QED
    BY <1>1, <2>1 DEF NextPending, Written
<1> QED
  BY <1>3, <1>4, <1>5, <1>6, <1>7, <1>8, <1>9 DEF Continue

LEMMA HeadCachedStep ==
    ASSUME BlockchainAssumption, OneCaller, AllInv, NEW c \in Calls,
           Start(c) \/ Continue(c)
    PROVE  HeadCached(store', headCache', calls'[c])
<1>. DEFINE k == calls[c]
<1>0. /\ k \in Call /\ CallTyped(k) /\ CallOK(store, k) /\ RootOK(store, k)
      /\ Alone(store, headCache, k) /\ HeadCached(store, headCache, k)
      /\ k.opt = "default" /\ DOMAIN calls = Calls
      /\ DOMAIN store \subseteq Hash
      /\ headCache \in [Hash -> 0 .. MaxBlocks \cup {NotCached}]
  BY CallFacts
<1>a. \A r : Set(c, r) => calls'[c] = r
  BY <1>0 DEF Set
<1>b. \A p : Goto(c, p) => calls'[c] = [k EXCEPT !.pc = p]
  BY <1>0 DEF Goto, Call
<1>1. ASSUME store' = store, headCache' = headCache, ~ HeadPending(k)
      PROVE  HeadCached(store', headCache', calls'[c])
  BY <1>0, <1>1 DEF HeadCached
<1>2. CASE FillHead(c)
  <2>1. /\ k.pc = "fillHead" /\ LastIn(store, k.arg) /\ store' = store
        /\ headCache' = WriteCache(headCache, k.root, k.arg)
    BY <1>0, <1>2 DEF FillHead, At, Alone
  <2>2. CASE ~ Caching
    BY <1>0, <2>1, <2>2 DEF HeadCached, HeadPending, WriteCache
  <2>3. CASE Caching
    <3>1. \A r \in Hash : headCache'[r] = IF r = k.root THEN k.arg ELSE headCache[r]
      BY <1>0, <2>1, <2>3 DEF WriteCache
    <3> QED
      BY <1>0, <2>1, <2>3, <3>1 DEF HeadCached, HeadPending
  <2> QED
    BY <2>2, <2>3
<1>3. CASE CacheHead(c)
  <2>1. /\ k.pc = "cacheHead" /\ LastIn(store, k.block) /\ store' = store
        /\ k.block \in DOMAIN store /\ store[k.block].prev = k.arg
        /\ k.root = RootIn(store, k.block)
        /\ headCache' = WriteCache(headCache, k.root, k.block)
    BY <1>0, <1>3 DEF CacheHead, At, Alone, CallOK, Linked, RootOK, Written
  <2>2. CASE ~ Caching
    BY <1>0, <2>1, <2>2 DEF HeadCached, WriteCache
  <2>3. CASE Caching
    <3>1. \A r \in Hash : headCache'[r] = IF r = k.root THEN k.block ELSE headCache[r]
      BY <1>0, <2>1, <2>3 DEF WriteCache
    <3>2. ASSUME NEW r \in Hash, headCache[r] = k.arg, headCache[r] # NotCached
          PROVE  r = k.root
      <4>1. k.arg \in DOMAIN store /\ RootIn(store, k.arg) = r
        BY <3>2 DEF AllInv, RootInv, CachedHeads
      <4>2. RootIn(store, k.block) = RootIn(store, k.arg)
        BY <2>1, <4>1, RootInStep DEF AllInv, RootInv
      <4> QED
        BY <2>1, <4>1, <4>2
    <3> QED
      BY <1>0, <2>1, <2>3, <3>1, <3>2 DEF HeadCached
  <2> QED
    BY <2>2, <2>3
<1>4. CASE Store(c)
  <2>1. CASE ~ (Len(store) < MaxBlocks)
    BY <1>1, <1>4, <2>1 DEF Store, At, HeadPending, caches
  <2>2. CASE Len(store) < MaxBlocks
    <3>. DEFINE b == Len(store) + 1
    <3>1. /\ calls'[c] = [k EXCEPT !.block = b, !.pc = "cacheRoot"]
          /\ \A a \in DOMAIN store : LastIn(store, a) /\ a # k.arg => LastIn(store', a)
      BY <1>4, <2>2, StoreFacts
    <3>2. HeadPending(calls'[c]) /\ calls'[c].arg = k.arg
      BY <1>0, <3>1 DEF Call, HeadPending
    <3>3. headCache' = headCache /\ ~ HeadPending(k)
      BY <1>4 DEF Store, At, HeadPending, caches
    <3>4. \A r \in Hash : headCache[r] # NotCached => headCache[r] \in DOMAIN store
      BY DEF AllInv, RootInv, CachedHeads
    <3> QED
      BY <1>0, <3>1, <3>2, <3>3, <3>4 DEF HeadCached
  <2> QED
    BY <2>1, <2>2
<1>5. CASE CacheRoot(c) \/ PutRoot(c)
  <2>1. /\ store' = store /\ headCache' = headCache
        /\ k.block \in DOMAIN store /\ store[k.block].prev = k.arg
    BY <1>0, <1>5 DEF CacheRoot, PutRoot, At, CallOK, Linked, Written
  <2>2. CacheRoot(c) /\ k.arg # 0 => RootFromPrev(k) # 0
    <3>1. CacheRoot(c) /\ k.arg # 0 => RootFromPrev(k) = RootIn(store, k.block)
      BY <1>0, <2>1, RootFromPrevExact DEF AllInv, CacheRoot, At
    <3>2. RootIn(store, k.block) # 0
      BY <1>0, <2>1, RootsFound DEF AllInv, RootInv, TypeInv, TypeOK
    <3> QED
      BY <3>1, <3>2
  <2>3. \/ calls'[c] = [k EXCEPT !.pc = "cacheHead", !.root = k.block]
        \/ calls'[c] = [k EXCEPT !.pc = "putRoot", !.root = RootFromPrev(k)]
        \/ calls'[c] = [k EXCEPT !.pc = "cacheHead"]
    BY <1>5, <1>a, <1>b, <2>2 DEF CacheRoot, PutRoot
  <2>4. calls'[c].arg = k.arg /\ HeadPending(calls'[c])
    BY <1>0, <2>3 DEF Call, HeadPending
  <2> QED
    BY <1>0, <2>1, <2>4 DEF HeadCached
<1>6. CASE \/ Start(c) \/ ReadHead(c) \/ ReadNext(c) \/ ScanNext(c) \/ FillNext(c)
           \/ CacheNext(c) \/ CacheNull(c)
           \/ \E t \in Times : Begin(c, t)
  <2>1. store' = store /\ headCache' = headCache
        /\ k.pc \in {"idle", "readHead", "readNext", "scanNext", "fillNext", "begin",
                     "cacheNext", "cacheNull"}
    BY <1>6 DEF Start, StartWrite, StartHead, StartNext, ReadHead, ReadNext,
                ScanNext, FillNext, CacheNext, CacheNull, Begin, At, caches
  <2> QED
    BY <1>1, <2>1 DEF HeadPending
<1> QED
  BY <1>2, <1>3, <1>4, <1>5, <1>6 DEF Continue

LEMMA SeqInvStep ==
    ASSUME BlockchainAssumption, OneCaller, AllInv, NEW c \in Calls,
           Start(c) \/ Continue(c)
    PROVE  SeqInv'
<1>1. /\ NoForkIn(store') /\ NextCached(store', nextCache', calls'[c])
      /\ HeadCached(store', headCache', calls'[c])
      /\ Alone(store', headCache', calls'[c])
  BY NoForkStep, NextCachedStep, HeadCachedStep, AloneStep
<1>2. \A d \in Calls : d = c
  BY DEF OneCaller
<1> QED
  BY <1>1, <1>2 DEF SeqInv

LEMMA SeqInvariant ==
    ASSUME OneCaller
    PROVE  Spec => []SeqInv
<1>1. Init => SeqInv
  <2> SUFFICES ASSUME Init PROVE SeqInv
    OBVIOUS
  <2>1. NoForkIn(store) /\ DOMAIN store = {}
    BY DEF Init, NoForkIn
  <2>2. ASSUME NEW c \in Calls
        PROVE  /\ NextCached(store, nextCache, calls[c])
               /\ HeadCached(store, headCache, calls[c])
               /\ Alone(store, headCache, calls[c])
    <3>1. calls[c].pc = "idle" /\ calls[c].err = "none"
      BY DEF Init, NewCall
    <3>2. Alone(store, headCache, calls[c])
      BY <3>1, IdleAlone
    <3> QED
      BY <2>1, <3>2 DEF Init, NextCached, HeadCached
  <2> QED
    BY <2>1, <2>2 DEF SeqInv
<1>2. AllInv /\ [Next]_vars => SeqInv'
  <2>1. ASSUME AllInv, Next PROVE SeqInv'
    BY <2>1, BlockchainAssumption, SeqInvStep DEF Next
  <2>2. ASSUME AllInv, UNCHANGED vars PROVE SeqInv'
    BY <2>2 DEF AllInv, SeqInv, vars, caches
  <2> QED
    BY <2>1, <2>2
<1>3. "noValidate" \notin Options
  BY DEF OneCaller
<1>4. Spec => []ChainsWellFormed
  BY <1>3, ChainsAreWellFormed
<1>5. Spec => [](TypeInv /\ CallInv /\ NextCacheSound /\ RootInv /\ ChainsWellFormed)
  BY <1>4, TypeInvariant, CallInvariant, NextCacheIsSound, RootInvariant, PTL
<1>6. TypeInv /\ CallInv /\ NextCacheSound /\ RootInv /\ ChainsWellFormed /\ SeqInv => AllInv
  BY DEF AllInv
<1> QED
  BY <1>1, <1>2, <1>5, <1>6, PTL DEF Spec

(***************************************************************************)
(* The theorems.                                                           *)
(***************************************************************************)
LEMMA AllInvariant ==
    ASSUME OneCaller
    PROVE  Spec => []AllInv
<1>1. "noValidate" \notin Options
  BY DEF OneCaller
<1>2. Spec => []ChainsWellFormed
  BY <1>1, ChainsAreWellFormed
<1>3. TypeInv /\ CallInv /\ NextCacheSound /\ RootInv /\ ChainsWellFormed /\ SeqInv => AllInv
  BY DEF AllInv
<1> QED
  BY <1>2, <1>3, TypeInvariant, CallInvariant, NextCacheIsSound, RootInvariant,
     SeqInvariant, PTL

(* One caller: writeBlock asks for the successor of prev and refuses when  *)
(* there is one, so no block has two.                                      *)
THEOREM OneCallerNeverForks ==
    ASSUME OneCaller
    PROVE  Spec => []NoFork
<1>1. AllInv => NoFork
  BY DEF AllInv, SeqInv, NoForkIn, NoFork
<1> QED
  BY <1>1, AllInvariant, PTL

(* One caller: between calls getNextBlock answers from the cache what a    *)
(* scan of the storage would; no 'null' outlives the block's successor.    *)
THEOREM NextCacheIsExact ==
    ASSUME OneCaller
    PROVE  Spec => []NextCacheExact
<1>1. ASSUME AllInv, Quiescent, NEW b \in DOMAIN store, nextCache[b] # NotCached
      PROVE  nextCache[b] = FindNext(b)
  <2>0. PICK c \in Calls : TRUE
    BY DEF OneCaller
  <2>1. NextCached(store, nextCache, calls[c]) /\ calls[c].pc = "idle"
    BY <1>1 DEF AllInv, SeqInv, Quiescent, At
  <2>2. IsNext(store, b, nextCache[b])
    BY <1>1, <2>1 DEF NextCached, NextPending, Written
  <2>3. store \in Seq(Block) /\ NoForkIn(store)
    BY <1>1 DEF AllInv, SeqInv, TypeInv, TypeOK
  <2>4. b # 0
    BY <1>1, <2>3
  <2> QED
    BY <2>2, <2>3, <2>4, NextIsFindNext
<1>2. AllInv => NextCacheExact
  BY <1>1 DEF NextCacheExact
<1> QED
  BY <1>2, AllInvariant, PTL

(* One caller: between calls the cached head of a chain is the block where *)
(* a new block would be added.                                             *)
THEOREM CachedHeadIsLast ==
    ASSUME OneCaller
    PROVE  Spec => []HeadCacheIsLast
<1>1. ASSUME AllInv, Quiescent, NEW r \in Hash, headCache[r] # NotCached
      PROVE  Successors(headCache[r]) = {}
  <2>0. PICK c \in Calls : TRUE
    BY DEF OneCaller
  <2>1. HeadCached(store, headCache, calls[c]) /\ calls[c].pc = "idle"
    BY <1>1 DEF AllInv, SeqInv, Quiescent, At
  <2> QED
    BY <1>1, <2>1 DEF HeadCached, HeadPending, LastIn, Successors
<1>2. AllInv => HeadCacheIsLast
  BY <1>1 DEF HeadCacheIsLast
<1> QED
  BY <1>2, AllInvariant, PTL

(* One caller: the head that getHeadBlock returns, cached or walked to, is *)
(* a stored block without successor, so the append on it is not refused.   *)
THEOREM AppendsAreAccepted ==
    ASSUME OneCaller
    PROVE  Spec => []AppendAccepted
<1>1. AllInv => AppendAccepted
  BY DEF AllInv, SeqInv, Alone, AppendAccepted
<1> QED
  BY <1>1, AllInvariant, PTL

(* A step that replaces a cached head.                                     *)
LEMMA HeadStep ==
    ASSUME BlockchainAssumption, OneCaller, AllInv, NEW c \in Calls,
           Start(c) \/ Continue(c),
           NEW r \in Hash, headCache[r] \notin {NotCached, headCache'[r]}
    PROVE  store'[headCache'[r]].prev = headCache[r]
<1>. DEFINE k == calls[c]
<1>0. /\ k \in Call /\ CallTyped(k) /\ CallOK(store, k) /\ RootOK(store, k)
      /\ Alone(store, headCache, k) /\ HeadCached(store, headCache, k)
      /\ headCache \in [Hash -> 0 .. MaxBlocks \cup {NotCached}]
  BY CallFacts
<1>1. CASE FillHead(c)
  <2>1. headCache[k.root] = NotCached
    BY <1>0, <1>1 DEF FillHead, At, CallTyped, Alone
  <2>2. headCache' = WriteCache(headCache, k.root, k.arg)
    BY <1>1 DEF FillHead
  <2> QED
    BY <1>0, <2>1, <2>2 DEF WriteCache
<1>2. CASE CacheHead(c)
  <2>1. /\ k.pc = "cacheHead" /\ LastIn(store, k.block) /\ store' = store
        /\ k.block \in DOMAIN store /\ store[k.block].prev = k.arg
        /\ k.root = RootIn(store, k.block)
        /\ headCache' = WriteCache(headCache, k.root, k.block)
    BY <1>0, <1>2 DEF CacheHead, At, Alone, CallOK, Linked, RootOK, Written
  <2>2. r = k.root /\ headCache'[r] = k.block
    BY <1>0, <2>1 DEF WriteCache
  <2>3. headCache[r] \in DOMAIN store /\ RootIn(store, headCache[r]) = r
    BY DEF AllInv, RootInv, CachedHeads
  <2>4. CASE LastIn(store, headCache[r])
    <3>1. headCache[r] = k.block
      BY <2>1, <2>2, <2>3, <2>4, OneLast DEF AllInv, TypeInv, RootInv, SeqInv
    <3> QED
      BY <2>2, <3>1
  <2>5. CASE headCache[r] = k.arg
    BY <2>1, <2>2, <2>5
  <2> QED
    BY <1>0, <2>4, <2>5 DEF HeadCached
<1>3. CASE ~ (FillHead(c) \/ CacheHead(c))
  <2>1. headCache' = headCache
    BY <1>3 DEF Start, StartWrite, StartHead, StartNext, Continue, Begin, ReadHead,
                ReadNext, ScanNext, FillNext, Store, CacheRoot, PutRoot, CacheNext,
                CacheNull, caches
  <2> QED
    BY <2>1
<1> QED
  BY <1>1, <1>2, <1>3

(* One caller: the cached head of a chain moves from a block to the one    *)
(* stored after it, never back and never past a block.                     *)
THEOREM CachedHeadOnlyAdvances ==
    ASSUME OneCaller
    PROVE  Spec => HeadOnlyAdvances
<1>1. AllInv /\ [Next]_vars =>
          [\A r \in Hash : headCache[r] \notin {NotCached, headCache'[r]} =>
              store'[headCache'[r]].prev = headCache[r]]_vars
  BY BlockchainAssumption, HeadStep DEF Next
<1> QED
  BY <1>1, AllInvariant, PTL DEF Spec, HeadOnlyAdvances

(* Each step starts a chain, extends the last block of one or leaves the   *)
(* ledger alone.                                                           *)
LEMMA LinearStep ==
    ASSUME BlockchainAssumption, OneCaller, AllInv, NEW c \in Calls,
           Start(c) \/ Continue(c)
    PROVE  Abstract!LinearNext \/ store' = store
<1>. DEFINE k == calls[c]
            e == [prev |-> k.arg, seq |-> k.seq, ts |-> k.ts]
<1>0. /\ CallTyped(k) /\ CallOK(store, k) /\ k.opt = "default"
      /\ Alone(store, headCache, k)
  BY CallFacts
<1>1. ASSUME At(c, "store"), store' = Append(store, e)
      PROVE  Abstract!LinearNext
  <2>1. Ready(store, k) /\ k.ts \in Times
    BY <1>0, <1>1 DEF CallOK, CallTyped, At
  <2>2. CASE k.arg = 0 /\ k.seq = 1
    BY <1>1, <2>1, <2>2 DEF Abstract!LinearNext, Abstract!StartChain
  <2>3. CASE /\ k.arg \in DOMAIN store /\ k.arg # 0
             /\ k.seq = store[k.arg].seq + 1
             /\ store[k.arg].ts <= k.ts
    <3>1. Abstract!Extend(k.arg, k.ts)
      BY <1>1, <2>3 DEF Abstract!Extend
    <3>2. Abstract!IsLast(k.arg)
      BY <1>0, <1>1, <2>3 DEF Abstract!IsLast, Alone, LastIn, At
    <3> QED
      BY <2>1, <2>3, <3>1, <3>2 DEF Abstract!LinearNext
  <2>4. 0 \notin DOMAIN store
    BY CallFacts
  <2> QED
    BY <2>1, <2>2, <2>3, <2>4 DEF Ready
<1>2. AllInv => TypeInv
  BY DEF AllInv
<1> QED
  BY <1>1, <1>2, StoreOrStutter

(* One caller: layer 1 implements the linear ledger; it starts chains and  *)
(* extends them at their last block, and does nothing else to the storage. *)
THEOREM ImplementsLinear ==
    ASSUME OneCaller
    PROVE  Spec => LinearRefinement
<1>1. Init => Abstract!Init
  BY DEF Init, Abstract!Init
<1>2. AllInv /\ [Next]_vars => [Abstract!LinearNext]_store
  <2>1. ASSUME AllInv, Next PROVE [Abstract!LinearNext]_store
    BY <2>1, BlockchainAssumption, LinearStep DEF Next
  <2>2. ASSUME UNCHANGED vars PROVE [Abstract!LinearNext]_store
    BY <2>2 DEF vars
  <2> QED
    BY <2>1, <2>2
<1> QED
  BY <1>1, <1>2, AllInvariant, PTL DEF Spec, LinearRefinement, Abstract!LinearSpec
=============================================================================
