------------------------ MODULE SecureBlocktreeProofs ------------------------
(***************************************************************************)
(* Proofs about SecureBlocktree, for every number of calls, every set of   *)
(* keys, grants and times, and every storage size.                         *)
(*                                                                         *)
(* The walks of the module are restated over a storage s, so that what a   *)
(* walk finds in the storage before a step can be compared with what it    *)
(* finds after it.                                                         *)
(***************************************************************************)
EXTENDS SecureBlocktree, LeastNumber, SequenceTheorems

RootIn(s, b) ==
    LET root[n \in DOMAIN s] == IF s[n].prev = 0 THEN n ELSE root[s[n].prev]
    IN  root[b]

ChainIn(s, b) ==
    LET chain[n \in DOMAIN s] == {n} \cup IF s[n].prev = 0 THEN {} ELSE chain[s[n].prev]
    IN  chain[b]

AboveIn(s, b) ==
    LET above[n \in DOMAIN s] ==
            LET p == s[n].parent IN {RootIn(s, n)} \cup IF p = 0 THEN {} ELSE above[p]
    IN  above[b]

EntriesIn(s, head, key, action) ==
    {n \in ChainIn(s, head) : /\ s[n].type \in {"root", "key"}
                              /\ s[n].grant.key = key
                              /\ s[n].grant.action \in {action, "*"}}

AllowedIn(s, type, r) ==
    \/ s[r].type \in ParentTypes(type)
    \/ type = "zone" /\ s[r].prev = 0 /\ s[r].parent = 0

LEMMA WalksIn ==
    /\ \A b : RootOf(b) = RootIn(blocks, b)
    /\ \A b : ChainBehind(b) = ChainIn(blocks, b)
    /\ \A b : Above(b) = AboveIn(blocks, b)
    /\ \A head, key, action : KeyEntries(head, key, action) =
                                  EntriesIn(blocks, head, key, action)
    /\ \A type, r : AllowedUnder(type, r) <=> AllowedIn(blocks, type, r)
<1>1. \A b : RootOf(b) = RootIn(blocks, b) /\ ChainBehind(b) = ChainIn(blocks, b)
  BY DEF RootOf, RootIn, ChainBehind, ChainIn
<1>2. \A b : Above(b) = AboveIn(blocks, b)
  BY <1>1 DEF Above, AboveIn
<1> QED
  BY <1>1, <1>2 DEF KeyEntries, EntriesIn, AllowedUnder, AllowedIn

(***************************************************************************)
(* The walks, one step at a time.  Every link goes to an earlier block.    *)
(***************************************************************************)
LinksBack(s) ==
    /\ s \in Seq(Block) /\ Len(s) <= MaxBlocks
    /\ \A b \in DOMAIN s : s[b].prev \in 0 .. b - 1 /\ s[b].parent \in 0 .. b - 1

LEMMA StorageFacts ==
    ASSUME SecureAssumption, NEW s, LinksBack(s)
    PROVE  /\ DOMAIN s = 1 .. Len(s) /\ Len(s) \in Nat /\ 0 \notin DOMAIN s
           /\ DOMAIN s \subseteq BlockId /\ DOMAIN s \subseteq Nat
           /\ \A b \in DOMAIN s : /\ s[b] \in Block
                                  /\ s[b].prev = 0 \/ s[b].prev \in DOMAIN s
                                  /\ s[b].parent = 0 \/ s[b].parent \in DOMAIN s
<1>1. DOMAIN s = 1 .. Len(s) /\ Len(s) \in Nat /\ MaxBlocks \in Nat /\ Len(s) <= MaxBlocks
  BY DEF LinksBack, SecureAssumption
<1> QED
  BY <1>1 DEF LinksBack, BlockId

(* A walk back along prev, or up along parent. *)
LEMMA RootStep ==
    ASSUME SecureAssumption, NEW s, LinksBack(s), NEW b \in DOMAIN s
    PROVE  RootIn(s, b) = IF s[b].prev = 0 THEN b ELSE RootIn(s, s[b].prev)
<1>. DEFINE D == DOMAIN s
            root[n \in D] == IF s[n].prev = 0 THEN n ELSE root[s[n].prev]
            up   == [n \in D |-> s[n].prev]
            last == [n \in D |-> n]
            next == [n \in D |-> [v \in D |-> v]]
<1>0. D = 1 .. Len(s) /\ Len(s) \in Nat /\ \A n \in D : s[n].prev \in 0 .. n - 1
  BY DEF LinksBack
<1>1. \E f \in [D -> D] : IsWalk(f, Len(s), up, last, next)
  <2>1. Descends(up, Len(s))
    BY <1>0 DEF Descends
  <2>2. last \in [D -> D] /\ next \in [D -> [D -> D]]
    OBVIOUS
  <2>. HIDE DEF up, last, next, D
  <2> QED
    BY <1>0, <2>1, <2>2, WalkExists
<1>2. \E f : f = [n \in D |-> IF s[n].prev = 0 THEN n ELSE f[s[n].prev]]
  <2>1. PICK f \in [D -> D] : IsWalk(f, Len(s), up, last, next)
    BY <1>1
  <2>2. ASSUME NEW n \in D
        PROVE  f[n] = IF s[n].prev = 0 THEN n ELSE f[s[n].prev]
    <3>1. f[n] = IF up[n] = 0 THEN last[n] ELSE next[n][f[up[n]]]
      BY <1>0, <2>1 DEF IsWalk
    <3> QED
      BY <1>0, <3>1
  <2>3. f = [n \in D |-> IF s[n].prev = 0 THEN n ELSE f[s[n].prev]]
    BY <2>2
  <2> QED
    BY <2>3
<1>3. root = [n \in D |-> IF s[n].prev = 0 THEN n ELSE root[s[n].prev]]
  BY <1>2 DEF root
<1>4. \A c : RootIn(s, c) = root[c]
  BY DEF RootIn
<1>. HIDE DEF root
<1> QED
  BY <1>3, <1>4

LEMMA ChainStep ==
    ASSUME SecureAssumption, NEW s, LinksBack(s), NEW b \in DOMAIN s
    PROVE  ChainIn(s, b) = {b} \cup IF s[b].prev = 0 THEN {} ELSE ChainIn(s, s[b].prev)
<1>. DEFINE D == DOMAIN s
            chain[n \in D] == {n} \cup IF s[n].prev = 0 THEN {} ELSE chain[s[n].prev]
            up   == [n \in D |-> s[n].prev]
            last == [n \in D |-> {n}]
            next == [n \in D |-> [v \in SUBSET D |-> {n} \cup v]]
<1>0. D = 1 .. Len(s) /\ Len(s) \in Nat /\ \A n \in D : s[n].prev \in 0 .. n - 1
  BY DEF LinksBack
<1>1. \E f \in [D -> SUBSET D] : IsWalk(f, Len(s), up, last, next)
  <2>1. Descends(up, Len(s))
    BY <1>0 DEF Descends
  <2>2. last \in [D -> SUBSET D] /\ next \in [D -> [SUBSET D -> SUBSET D]]
    OBVIOUS
  <2>. DEFINE V == SUBSET D
  <2>3. last \in [D -> V] /\ next \in [D -> [V -> V]]
    BY <2>2
  <2>. HIDE DEF up, last, next, D, V
  <2>4. \E f \in [D -> V] : IsWalk(f, Len(s), up, last, next)
    BY <1>0, <2>1, <2>3, WalkExists
  <2> QED
    BY <2>4 DEF V
<1>2. \E f : f = [n \in D |-> {n} \cup IF s[n].prev = 0 THEN {} ELSE f[s[n].prev]]
  <2>1. PICK f \in [D -> SUBSET D] : IsWalk(f, Len(s), up, last, next)
    BY <1>1
  <2>2. ASSUME NEW n \in D
        PROVE  f[n] = {n} \cup IF s[n].prev = 0 THEN {} ELSE f[s[n].prev]
    <3>1. f[n] = IF up[n] = 0 THEN last[n] ELSE next[n][f[up[n]]]
      BY <1>0, <2>1 DEF IsWalk
    <3>2. CASE s[n].prev = 0
      BY <3>1, <3>2
    <3>3. CASE s[n].prev # 0
      <4>1. s[n].prev \in D /\ f[s[n].prev] \in SUBSET D
        BY <1>0, <3>3
      <4> QED
        BY <3>1, <3>3, <4>1
    <3> QED
      BY <3>2, <3>3
  <2>3. f = [n \in D |-> {n} \cup IF s[n].prev = 0 THEN {} ELSE f[s[n].prev]]
    BY <2>2
  <2> QED
    BY <2>3
<1>3. chain = [n \in D |-> {n} \cup IF s[n].prev = 0 THEN {} ELSE chain[s[n].prev]]
  BY <1>2 DEF chain
<1>4. \A c : ChainIn(s, c) = chain[c]
  BY DEF ChainIn
<1>. HIDE DEF chain
<1> QED
  BY <1>3, <1>4

(* The root of a chain, and the blocks behind one. *)
LEMMA RootFacts ==
    ASSUME SecureAssumption, NEW s, LinksBack(s)
    PROVE  \A b \in DOMAIN s : /\ RootIn(s, b) \in DOMAIN s /\ RootIn(s, b) <= b
                               /\ s[RootIn(s, b)].prev = 0
                               /\ RootIn(s, RootIn(s, b)) = RootIn(s, b)
<1>. DEFINE Good == {b \in DOMAIN s : RootIn(s, b) \in DOMAIN s /\ RootIn(s, b) <= b
                                      /\ s[RootIn(s, b)].prev = 0}
<1>0. DOMAIN s = 1 .. Len(s) /\ Len(s) \in Nat /\ \A b \in DOMAIN s : s[b].prev \in 0 .. b - 1
  BY DEF LinksBack
<1>1. ASSUME NEW b \in 1 .. Len(s), \A m \in 1 .. b - 1 : m \in Good
      PROVE  b \in Good
  <2>1. RootIn(s, b) = IF s[b].prev = 0 THEN b ELSE RootIn(s, s[b].prev)
    BY <1>0, RootStep
  <2>2. CASE s[b].prev = 0
    BY <1>0, <2>1, <2>2
  <2>3. CASE s[b].prev # 0
    <3>1. s[b].prev \in 1 .. b - 1 /\ s[b].prev \in Good
      BY <1>0, <1>1, <2>3
    <3> QED
      BY <1>0, <2>1, <2>3, <3>1
  <2> QED
    BY <2>2, <2>3
<1>2. \A b \in 1 .. Len(s) : b \in Good
  <2>. HIDE DEF Good
  <2> QED
    BY <1>0, <1>1, InductionUpTo
<1> QED
  BY <1>0, <1>2, RootStep

LEMMA ChainFacts ==
    ASSUME SecureAssumption, NEW s, LinksBack(s)
    PROVE  \A b \in DOMAIN s :
               /\ b \in ChainIn(s, b)
               /\ \A n \in ChainIn(s, b) : n \in 1 .. b /\ RootIn(s, n) = RootIn(s, b)
<1>. DEFINE Good == {b \in DOMAIN s :
                        \A n \in ChainIn(s, b) : n \in 1 .. b /\ RootIn(s, n) = RootIn(s, b)}
<1>0. DOMAIN s = 1 .. Len(s) /\ Len(s) \in Nat /\ \A b \in DOMAIN s : s[b].prev \in 0 .. b - 1
  BY DEF LinksBack
<1>1. ASSUME NEW b \in 1 .. Len(s), \A m \in 1 .. b - 1 : m \in Good
      PROVE  b \in Good
  <2>1. /\ RootIn(s, b) = IF s[b].prev = 0 THEN b ELSE RootIn(s, s[b].prev)
        /\ ChainIn(s, b) = {b} \cup IF s[b].prev = 0 THEN {} ELSE ChainIn(s, s[b].prev)
    BY <1>0, RootStep, ChainStep
  <2>2. CASE s[b].prev = 0
    BY <1>0, <2>1, <2>2
  <2>3. CASE s[b].prev # 0
    <3>1. s[b].prev \in 1 .. b - 1 /\ s[b].prev \in Good
      BY <1>0, <1>1, <2>3
    <3> QED
      BY <1>0, <2>1, <2>3, <3>1
  <2> QED
    BY <2>2, <2>3
<1>2. \A b \in 1 .. Len(s) : b \in Good
  <2>. HIDE DEF Good
  <2> QED
    BY <1>0, <1>1, InductionUpTo
<1> QED
  BY <1>0, <1>2, ChainStep

LEMMA AboveStep ==
    ASSUME SecureAssumption, NEW s, LinksBack(s), NEW b \in DOMAIN s
    PROVE  AboveIn(s, b) =
               {RootIn(s, b)} \cup IF s[b].parent = 0 THEN {} ELSE AboveIn(s, s[b].parent)
<1>. DEFINE D == DOMAIN s
            Body(f, n) == LET p == s[n].parent IN
                          {RootIn(s, n)} \cup IF p = 0 THEN {} ELSE f[p]
            above[n \in D] == Body(above, n)
            up   == [n \in D |-> s[n].parent]
            last == [n \in D |-> {RootIn(s, n)}]
            next == [n \in D |-> [v \in SUBSET D |-> {RootIn(s, n)} \cup v]]
<1>0. D = 1 .. Len(s) /\ Len(s) \in Nat /\ \A n \in D : s[n].parent \in 0 .. n - 1
  BY DEF LinksBack
<1>1. \E f \in [D -> SUBSET D] : IsWalk(f, Len(s), up, last, next)
  <2>1. Descends(up, Len(s))
    BY <1>0 DEF Descends
  <2>2. last \in [D -> SUBSET D] /\ next \in [D -> [SUBSET D -> SUBSET D]]
    BY RootFacts
  <2>. DEFINE V == SUBSET D
  <2>3. last \in [D -> V] /\ next \in [D -> [V -> V]]
    BY <2>2
  <2>. HIDE DEF up, last, next, D, V
  <2>4. \E f \in [D -> V] : IsWalk(f, Len(s), up, last, next)
    BY <1>0, <2>1, <2>3, WalkExists
  <2> QED
    BY <2>4 DEF V
<1>2. \E f : f = [n \in D |-> Body(f, n)]
  <2>1. PICK f \in [D -> SUBSET D] : IsWalk(f, Len(s), up, last, next)
    BY <1>1
  <2>2. ASSUME NEW n \in D PROVE f[n] = Body(f, n)
    <3>1. f[n] = IF up[n] = 0 THEN last[n] ELSE next[n][f[up[n]]]
      BY <1>0, <2>1 DEF IsWalk
    <3>2. CASE s[n].parent = 0
      BY <3>1, <3>2
    <3>3. CASE s[n].parent # 0
      <4>1. s[n].parent \in D /\ f[s[n].parent] \in SUBSET D
        BY <1>0, <3>3
      <4> QED
        BY <3>1, <3>3, <4>1
    <3> QED
      BY <3>2, <3>3
  <2>3. f = [n \in D |-> Body(f, n)]
    BY <2>2
  <2> QED
    BY <2>3
<1>3. above = [n \in D |-> Body(above, n)]
  BY <1>2 DEF above
<1>4. \A c : AboveIn(s, c) = above[c]
  BY DEF AboveIn
<1>. HIDE DEF above
<1> QED
  BY <1>3, <1>4

(* A walk over stored blocks never changes as the storage grows. *)
Grows(s, t) == \A b \in DOMAIN s : b \in DOMAIN t /\ t[b] = s[b]

LEMMA WalksStable ==
    ASSUME SecureAssumption, NEW s, NEW t, LinksBack(s), LinksBack(t), Grows(s, t)
    PROVE  \A b \in DOMAIN s : /\ RootIn(t, b) = RootIn(s, b)
                               /\ ChainIn(t, b) = ChainIn(s, b)
                               /\ AboveIn(t, b) = AboveIn(s, b)
<1>. DEFINE Same == {b \in DOMAIN s : /\ RootIn(t, b) = RootIn(s, b)
                                      /\ ChainIn(t, b) = ChainIn(s, b)
                                      /\ AboveIn(t, b) = AboveIn(s, b)}
<1>0. /\ DOMAIN s = 1 .. Len(s) /\ Len(s) \in Nat
      /\ \A b \in DOMAIN s : s[b].prev \in 0 .. b - 1 /\ s[b].parent \in 0 .. b - 1
  BY DEF LinksBack
<1>1. ASSUME NEW b \in 1 .. Len(s), \A m \in 1 .. b - 1 : m \in Same
      PROVE  b \in Same
  <2>1. b \in DOMAIN s /\ b \in DOMAIN t /\ t[b] = s[b]
    BY <1>0 DEF Grows
  <2>2. /\ RootIn(s, b) = IF s[b].prev = 0 THEN b ELSE RootIn(s, s[b].prev)
        /\ ChainIn(s, b) = {b} \cup IF s[b].prev = 0 THEN {} ELSE ChainIn(s, s[b].prev)
        /\ AboveIn(s, b) = {RootIn(s, b)} \cup
               IF s[b].parent = 0 THEN {} ELSE AboveIn(s, s[b].parent)
    BY <2>1, RootStep, ChainStep, AboveStep
  <2>3. /\ RootIn(t, b) = IF s[b].prev = 0 THEN b ELSE RootIn(t, s[b].prev)
        /\ ChainIn(t, b) = {b} \cup IF s[b].prev = 0 THEN {} ELSE ChainIn(t, s[b].prev)
        /\ AboveIn(t, b) = {RootIn(t, b)} \cup
               IF s[b].parent = 0 THEN {} ELSE AboveIn(t, s[b].parent)
    BY <2>1, RootStep, ChainStep, AboveStep
  <2>4. s[b].prev # 0 => s[b].prev \in Same
    BY <1>0, <1>1, <2>1
  <2>5. s[b].parent # 0 => s[b].parent \in Same
    BY <1>0, <1>1, <2>1
  <2>6. RootIn(t, b) = RootIn(s, b) /\ ChainIn(t, b) = ChainIn(s, b)
    BY <2>2, <2>3, <2>4
  <2>7. AboveIn(t, b) = AboveIn(s, b)
    BY <2>2, <2>3, <2>5, <2>6
  <2> QED
    BY <2>1, <2>6, <2>7
<1>2. \A b \in 1 .. Len(s) : b \in Same
  <2>. HIDE DEF Same
  <2> QED
    BY <1>0, <1>1, InductionUpTo
<1> QED
  BY <1>0, <1>2

(***************************************************************************)
(* The invariant.  None of the properties is inductive by itself: a block  *)
(* is stored from what its call looked up several steps before, so the     *)
(* invariant says of every call what it has found out so far, and that the *)
(* storage cannot have made it untrue since.                               *)
(***************************************************************************)
ShapeIn(s) ==
    \A b \in DOMAIN s :
        /\ s[b].prev # 0 => /\ s[b].parent = s[s[b].prev].parent
                            /\ AllowedIn(s, s[b].type, RootIn(s, b))
        /\ s[b].prev = 0 /\ s[b].parent # 0 =>
              RootIn(s, s[b].parent) = s[b].parent /\ AllowedIn(s, s[b].type, s[b].parent)
        /\ s[b].prev = 0 /\ s[b].parent = 0 => s[b].type \in {"root", "key"}

(* Where the signer of a block or of a write has its key. *)
SignedAt(k) == IF k.type \in {"secret", "record"} THEN k.prev ELSE k.parent

(* One of the first n blocks grants the signer of k its key. *)
Granted(s, n, k) ==
    \E r \in AboveIn(s, SignedAt(k)) : \E e \in 1 .. n :
        /\ RootIn(s, e) = r /\ e \in EntriesIn(s, e, k.signer, "w")
        /\ \E now \in Times : IsKeyActive(s[e].grant, now)

SignersIn(s) ==
    \A b \in DOMAIN s : s[b].parent # 0 => SignedAt(s[b]) \in DOMAIN s /\ Granted(s, b - 1, s[b])

(* A head is cached for the chain of every block that another one names.   *)
Headed(s, h, b) == b \in DOMAIN s /\ h[RootIn(s, b)] # 0

HeadsOK(s, h) ==
    /\ \A r \in BlockId : h[r] # 0 =>
          r \in DOMAIN s /\ h[r] \in DOMAIN s /\ RootIn(s, h[r]) = r
    /\ \A b \in DOMAIN s : s[b].parent # 0 => Headed(s, h, s[b].parent)

(* The place of a write in the tree. *)
Placed(s, h, k) ==
    /\ k.type # "root" /\ Headed(s, h, k.parent) /\ SignedAt(k) \in DOMAIN s
    /\ k.type = "key" => k.prev # 0
    /\ k.prev = 0 => RootIn(s, k.parent) = k.parent /\ AllowedIn(s, k.type, k.parent)
    /\ k.prev # 0 => /\ Headed(s, h, k.prev) /\ k.parent = s[k.prev].parent
                     /\ AllowedIn(s, k.type, RootIn(s, k.prev))

TopLevel(k) == k.type \in {"root", "key"} /\ k.prev = 0 /\ k.parent = 0

CallOK(s, h, k) ==
    /\ k.pc = "count" => TopLevel(k)
    /\ k.pc \in {"seek", "nonce", "checkNext"} => Placed(s, h, k)
    /\ k.pc = "seek" =>
          /\ Headed(s, h, k.at)
          /\ k.goal # "granter" =>
                k.key = k.signer /\ RootIn(s, k.at) \in AboveIn(s, SignedAt(k))
          /\ k.goal = "granter" => Headed(s, h, k.base) /\ Granted(s, Len(s), k)
          /\ k.goal # "none"
    /\ k.pc \in {"nonce", "checkNext"} => Granted(s, Len(s), k)
    /\ k.pc = "store" => TopLevel(k) \/ (Placed(s, h, k) /\ Granted(s, Len(s), k))
    /\ k.pc = "publish" => k.block \in DOMAIN s

Inv ==
    /\ TypeOK /\ LinksBack(blocks) /\ ShapeIn(blocks) /\ SignersIn(blocks)
    /\ HeadsOK(blocks, headCache)
    /\ \A c \in Calls : CallOK(blocks, headCache, calls[c])

(***************************************************************************)
(* What the walks find in a tree of the right shape.                       *)
(***************************************************************************)

(* A chain hangs as a whole under one block. *)
LEMMA Inherits ==
    ASSUME SecureAssumption, NEW s, LinksBack(s), ShapeIn(s)
    PROVE  \A b \in DOMAIN s : s[RootIn(s, b)].parent = s[b].parent
<1>. DEFINE Good == {b \in DOMAIN s : s[RootIn(s, b)].parent = s[b].parent}
<1>0. DOMAIN s = 1 .. Len(s) /\ Len(s) \in Nat /\ \A b \in DOMAIN s : s[b].prev \in 0 .. b - 1
  BY DEF LinksBack
<1>1. ASSUME NEW b \in 1 .. Len(s), \A m \in 1 .. b - 1 : m \in Good
      PROVE  b \in Good
  <2>1. RootIn(s, b) = IF s[b].prev = 0 THEN b ELSE RootIn(s, s[b].prev)
    BY <1>0, RootStep
  <2>2. CASE s[b].prev = 0
    BY <1>0, <2>1, <2>2
  <2>3. CASE s[b].prev # 0
    <3>1. s[b].prev \in 1 .. b - 1 /\ s[b].prev \in Good
      BY <1>0, <1>1, <2>3
    <3>2. s[b].parent = s[s[b].prev].parent
      BY <1>0, <2>3 DEF ShapeIn
    <3> QED
      BY <1>0, <2>1, <2>3, <3>1, <3>2
  <2> QED
    BY <2>2, <2>3
<1>2. \A b \in 1 .. Len(s) : b \in Good
  <2>. HIDE DEF Good
  <2> QED
    BY <1>0, <1>1, InductionUpTo
<1> QED
  BY <1>0, <1>2

(* The chains above a block, and the way up from each of them. *)
LEMMA Climb ==
    ASSUME SecureAssumption, NEW s, LinksBack(s), ShapeIn(s)
    PROVE  \A b \in DOMAIN s :
               /\ RootIn(s, b) \in AboveIn(s, b)
               /\ AboveIn(s, b) \subseteq DOMAIN s
               /\ \A r \in AboveIn(s, b) : s[r].parent # 0 =>
                     RootIn(s, s[r].parent) \in AboveIn(s, b)
<1>. DEFINE Good == {b \in DOMAIN s :
                        /\ AboveIn(s, b) \subseteq DOMAIN s
                        /\ \A r \in AboveIn(s, b) : s[r].parent # 0 =>
                              RootIn(s, s[r].parent) \in AboveIn(s, b)}
<1>0. DOMAIN s = 1 .. Len(s) /\ Len(s) \in Nat /\ \A b \in DOMAIN s : s[b].parent \in 0 .. b - 1
  BY DEF LinksBack
<1>a. \A b \in DOMAIN s : AboveIn(s, b) =
          {RootIn(s, b)} \cup IF s[b].parent = 0 THEN {} ELSE AboveIn(s, s[b].parent)
  BY AboveStep
<1>1. ASSUME NEW b \in 1 .. Len(s), \A m \in 1 .. b - 1 : m \in Good
      PROVE  b \in Good
  <2>. DEFINE p == s[b].parent
              rb == RootIn(s, b)
  <2>0. b \in DOMAIN s /\ rb \in DOMAIN s /\ s[rb].parent = p
    BY <1>0, RootFacts, Inherits
  <2>1. AboveIn(s, b) = {rb} \cup IF p = 0 THEN {} ELSE AboveIn(s, p)
    BY <1>a, <2>0
  <2>2. CASE p = 0
    BY <2>0, <2>1, <2>2
  <2>3. CASE p # 0
    <3>1. p \in 1 .. b - 1 /\ p \in Good /\ p \in DOMAIN s
      BY <1>0, <1>1, <2>3
    <3>2. RootIn(s, p) \in AboveIn(s, p)
      BY <1>a, <3>1
    <3>. HIDE DEF p, rb
    <3> QED
      BY <2>0, <2>1, <2>3, <3>1, <3>2
  <2> QED
    BY <2>2, <2>3
<1>2. \A b \in 1 .. Len(s) : b \in Good
  <2>. HIDE DEF Good
  <2> QED
    BY <1>0, <1>1, InductionUpTo
<1> QED
  BY <1>0, <1>a, <1>2

(* The newest of some entries is one of them. *)
LEMMA NewestIsLast ==
    ASSUME NEW n \in Nat, NEW S \in SUBSET (1 .. n), S # {}
    PROVE  Max(S) \in S /\ \A x \in S : x <= Max(S)
<1>. DEFINE T == {n - x : x \in S}
<1>1. T \in SUBSET Nat /\ T # {}
  <2>1. \A x \in S : n - x \in Nat
    OBVIOUS
  <2>2. PICK x \in S : TRUE
    OBVIOUS
  <2>3. n - x \in T
    OBVIOUS
  <2> QED
    BY <2>1, <2>3
<1>2. PICK d \in T : \A e \in T : d <= e
  <2>. HIDE DEF T
  <2> QED
    BY <1>1, LeastElement
<1>3. PICK m \in S : d = n - m
  BY <1>2
<1>4. \A x \in S : m >= x
  <2> TAKE x \in S
  <2>1. n - x \in T
    OBVIOUS
  <2> QED
    BY <1>2, <1>3, <2>1
<1>5. Max(S) \in S /\ \A x \in S : Max(S) >= x
  BY <1>3, <1>4 DEF Max
<1> QED
  BY <1>5

(***************************************************************************)
(* What was true of the storage stays true as it grows.                    *)
(***************************************************************************)
LEMMA EntriesStable ==
    ASSUME SecureAssumption, NEW s, NEW t, LinksBack(s), LinksBack(t), Grows(s, t)
    PROVE  /\ \A b \in DOMAIN s : \A key, action :
                  EntriesIn(t, b, key, action) = EntriesIn(s, b, key, action)
           /\ \A type : \A r \in DOMAIN s : AllowedIn(t, type, r) <=> AllowedIn(s, type, r)
<1>1. ASSUME NEW b \in DOMAIN s, NEW key, NEW action
      PROVE  EntriesIn(t, b, key, action) = EntriesIn(s, b, key, action)
  <2>1. ChainIn(t, b) = ChainIn(s, b)
    BY WalksStable
  <2>2. \A n \in ChainIn(s, b) : t[n] = s[n]
    <3>1. \A n \in ChainIn(s, b) : n \in 1 .. b
      BY ChainFacts
    <3>2. DOMAIN s = 1 .. Len(s) /\ Len(s) \in Nat
      BY StorageFacts
    <3> QED
      BY <3>1, <3>2 DEF Grows
  <2> QED
    BY <2>1, <2>2 DEF EntriesIn
<1> QED
  BY <1>1 DEF AllowedIn, Grows

LEMMA GrantedStable ==
    ASSUME SecureAssumption, NEW s, NEW t, LinksBack(s), LinksBack(t), Grows(s, t),
           NEW n \in Nat, n <= Len(s), NEW m \in Nat, n <= m,
           NEW k, SignedAt(k) \in DOMAIN s, Granted(s, n, k)
    PROVE  Granted(t, m, k)
<1>1. PICK r \in AboveIn(s, SignedAt(k)), e \in 1 .. n :
          /\ RootIn(s, e) = r /\ e \in EntriesIn(s, e, k.signer, "w")
          /\ \E now \in Times : IsKeyActive(s[e].grant, now)
  BY DEF Granted
<1>2. e \in DOMAIN s /\ e \in 1 .. m
  BY StorageFacts
<1>3. t[e] = s[e] /\ RootIn(t, e) = r /\ e \in EntriesIn(t, e, k.signer, "w")
  BY <1>1, <1>2, WalksStable, EntriesStable DEF Grows
<1>4. AboveIn(t, SignedAt(k)) = AboveIn(s, SignedAt(k))
  BY WalksStable
<1> QED
  BY <1>1, <1>2, <1>3, <1>4 DEF Granted

LEMMA HeadedStable ==
    ASSUME SecureAssumption, NEW s, NEW t, LinksBack(s), LinksBack(t), Grows(s, t),
           NEW h, NEW g, \A r \in BlockId : h[r] # 0 => g[r] # 0
    PROVE  \A b : Headed(s, h, b) => Headed(t, g, b)
<1> SUFFICES ASSUME NEW b, Headed(s, h, b) PROVE Headed(t, g, b)
  OBVIOUS
<1>1. b \in DOMAIN s /\ RootIn(s, b) \in BlockId
  BY RootFacts, StorageFacts DEF Headed
<1>2. RootIn(t, b) = RootIn(s, b) /\ b \in DOMAIN t
  BY <1>1, WalksStable DEF Grows
<1> QED
  BY <1>1, <1>2 DEF Headed

LEMMA CallStable ==
    ASSUME SecureAssumption, NEW s, NEW t, LinksBack(s), LinksBack(t), Grows(s, t),
           NEW h, NEW g, \A r \in BlockId : h[r] # 0 => g[r] # 0,
           NEW k, CallOK(s, h, k)
    PROVE  CallOK(t, g, k)
<1>0. /\ Len(s) \in Nat /\ Len(t) \in Nat /\ Len(s) <= Len(t)
      /\ \A b : Headed(s, h, b) => Headed(t, g, b) /\ b \in DOMAIN s
  <2>1. /\ DOMAIN s = 1 .. Len(s) /\ Len(s) \in Nat
        /\ DOMAIN t = 1 .. Len(t) /\ Len(t) \in Nat
    BY StorageFacts
  <2>2. Len(s) # 0 => Len(s) \in DOMAIN s
    BY <2>1
  <2>3. Len(s) <= Len(t)
    BY <2>1, <2>2 DEF Grows
  <2>4. \A b : Headed(s, h, b) => Headed(t, g, b)
    BY HeadedStable
  <2>5. \A b : Headed(s, h, b) => b \in DOMAIN s
    BY DEF Headed
  <2> QED
    BY <2>1, <2>3, <2>4, <2>5
<1>1. Placed(s, h, k) => Placed(t, g, k)
  <2> SUFFICES ASSUME Placed(s, h, k) PROVE Placed(t, g, k)
    OBVIOUS
  <2>1. /\ k.type # "root" /\ Headed(t, g, k.parent) /\ SignedAt(k) \in DOMAIN t
        /\ k.type = "key" => k.prev # 0
    BY <1>0 DEF Placed, Grows
  <2>2. k.prev = 0 => RootIn(t, k.parent) = k.parent /\ AllowedIn(t, k.type, k.parent)
    <3>1. k.parent \in DOMAIN s
      BY <1>0 DEF Placed
    <3> QED
      BY <3>1, WalksStable, EntriesStable DEF Placed
  <2>3. k.prev # 0 => /\ Headed(t, g, k.prev) /\ k.parent = t[k.prev].parent
                      /\ AllowedIn(t, k.type, RootIn(t, k.prev))
    <3>1. CASE k.prev # 0
      <4>1. k.prev \in DOMAIN s /\ Headed(t, g, k.prev) /\ RootIn(s, k.prev) \in DOMAIN s
        BY <1>0, <3>1, RootFacts DEF Placed
      <4>2. RootIn(t, k.prev) = RootIn(s, k.prev) /\ t[k.prev] = s[k.prev]
        BY <4>1, WalksStable DEF Grows
      <4> QED
        BY <3>1, <4>1, <4>2, EntriesStable DEF Placed
    <3> QED
      BY <3>1
  <2> QED
    BY <2>1, <2>2, <2>3 DEF Placed
<1>2. Placed(s, h, k) /\ Granted(s, Len(s), k) => Granted(t, Len(t), k)
  BY <1>0, GrantedStable DEF Placed
<1>3. Placed(s, h, k) /\ k.pc = "seek" =>
          /\ Headed(t, g, k.at)
          /\ k.goal # "granter" =>
                k.key = k.signer /\ RootIn(t, k.at) \in AboveIn(t, SignedAt(k))
          /\ k.goal = "granter" => Headed(t, g, k.base)
          /\ k.goal # "none"
  <2> SUFFICES ASSUME Placed(s, h, k), k.pc = "seek"
               PROVE  /\ Headed(t, g, k.at)
                      /\ k.goal # "granter" =>
                            k.key = k.signer /\ RootIn(t, k.at) \in AboveIn(t, SignedAt(k))
                      /\ k.goal = "granter" => Headed(t, g, k.base)
                      /\ k.goal # "none"
    OBVIOUS
  <2>1. Headed(s, h, k.at) /\ SignedAt(k) \in DOMAIN s
    BY DEF CallOK, Placed
  <2>2. /\ RootIn(t, k.at) = RootIn(s, k.at)
        /\ AboveIn(t, SignedAt(k)) = AboveIn(s, SignedAt(k))
    BY <1>0, <2>1, WalksStable
  <2> QED
    BY <1>0, <2>1, <2>2 DEF CallOK
<1> QED
  BY <1>1, <1>2, <1>3 DEF CallOK, Grows

(***************************************************************************)
(* The steps.                                                              *)
(***************************************************************************)
LEMMA Facts ==
    ASSUME SecureAssumption, Inv
    PROVE  /\ blocks \in Seq(Block) /\ Len(blocks) \in Nat /\ Len(blocks) <= MaxBlocks
           /\ DOMAIN blocks = 1 .. Len(blocks) /\ DOMAIN blocks \subseteq BlockId
           /\ 0 \notin DOMAIN blocks /\ 0 \in BlockId /\ MaxBlocks \in Nat \ {0}
           /\ headCache \in [BlockId -> BlockId]
           /\ secureCache \in [rootBlock : BlockId, rootZone : BlockId]
           /\ DOMAIN calls = Calls /\ \A c \in Calls : calls[c] \in Call
<1>1. LinksBack(blocks) /\ TypeOK
  BY DEF Inv
<1>2. MaxBlocks \in Nat \ {0} /\ 0 \in BlockId
  BY DEF SecureAssumption, BlockId
<1>3. /\ blocks \in Seq(Block) /\ Len(blocks) <= MaxBlocks
      /\ headCache \in [BlockId -> BlockId]
      /\ secureCache \in [rootBlock : BlockId, rootZone : BlockId]
      /\ DOMAIN calls = Calls /\ \A c \in Calls : calls[c] \in Call
  BY <1>1 DEF TypeOK
<1> QED
  BY <1>1, <1>2, <1>3, StorageFacts

LEMMA NewCallTyped ==
    ASSUME SecureAssumption
    PROVE  /\ NewCall \in Call /\ NewCall.pc = "idle" /\ NoGrant \in GrantData
           /\ NewCall.prev = 0 /\ NewCall.parent = 0 /\ NewCall.goal = "none"
<1>1. 0 \in BlockId /\ NoGrant \in GrantData
  BY DEF BlockId, NoGrant, GrantData, SecureAssumption
<1> QED
  BY <1>1 DEF NewCall, Call, PCs, AllTypes, ChildTypes, ChainTypes, Errs

LEMMA RejectTyped ==
    ASSUME SecureAssumption, NEW e \in Errs
    PROVE  Reject(e) \in Call /\ Reject(e).pc = "idle"
BY NewCallTyped DEF Reject, Call

LEMMA QuietOK ==
    ASSUME NEW s, NEW h, NEW k, k.pc \in {"idle", "cacheRoot", "cacheZone"}
    PROVE  CallOK(s, h, k)
BY DEF CallOK

(* What a step does to the storage. *)
LEMMA StoreGrows ==
    ASSUME SecureAssumption, Inv, NEW c \in Calls, Start(c) \/ Continue(c)
    PROVE  \/ blocks' = blocks
           \/ /\ Store(c) /\ At(c, "store") /\ Len(blocks) < MaxBlocks
              /\ blocks' = Append(blocks, NewBlock(calls[c])) /\ NewBlock(calls[c]) \in Block
              /\ blocks' \in Seq(Block) /\ Len(blocks') = Len(blocks) + 1
              /\ DOMAIN blocks' = 1 .. Len(blocks) + 1
              /\ Grows(blocks, blocks')
              /\ blocks'[Len(blocks) + 1] = NewBlock(calls[c])
              /\ headCache' = headCache /\ secureCache' = secureCache
<1>1. CASE Store(c) /\ Len(blocks) < MaxBlocks
  <2>. DEFINE e == NewBlock(calls[c])
  <2>1. /\ At(c, "store") /\ blocks' = Append(blocks, e) /\ e \in Block
        /\ headCache' = headCache /\ secureCache' = secureCache
    <3>1. calls[c] \in Call
      BY Facts
    <3> QED
      BY <1>1, <3>1 DEF Store, NewBlock, Call, Block
  <2>. HIDE DEF e
  <2>2. /\ blocks' \in Seq(Block) /\ Len(blocks') = Len(blocks) + 1
        /\ \A b \in 1 .. Len(blocks) : blocks'[b] = blocks[b]
        /\ blocks'[Len(blocks) + 1] = e
    BY <2>1, Facts, AppendProperties
  <2>3. DOMAIN blocks' = 1 .. Len(blocks) + 1 /\ DOMAIN blocks = 1 .. Len(blocks)
        /\ Len(blocks) \in Nat
    BY <2>2, Facts
  <2>4. Grows(blocks, blocks')
    BY <2>2, <2>3 DEF Grows
  <2> QED
    BY <1>1, <2>1, <2>2, <2>3, <2>4 DEF e
<1>2. CASE ~ (Store(c) /\ Len(blocks) < MaxBlocks)
  BY <1>2 DEF Start, StartRoot, StartWrite, StartChild, StartAppend, Continue, Seek, Count,
              CheckNonce, CheckNext, Store, Publish, CacheRoot, CacheZone
<1> QED
  BY <1>1, <1>2

(* A step changes the local state of its own call only.                    *)
LEMMA StepSets ==
    ASSUME NEW c \in Calls, TypeOK, Start(c) \/ Continue(c)
    PROVE  calls' = [calls EXCEPT ![c] = calls'[c]]
<1>0. calls = [d \in Calls |-> calls[d]]
  BY DEF TypeOK
<1>1. CASE Start(c)
  <2>0. ASSUME NEW k, Set(c, k) PROVE calls' = [calls EXCEPT ![c] = calls'[c]]
    BY <1>0, <2>0 DEF Set
  <2>1. ASSUME NEW type, NEW g, StartRoot(c, type, g)
        PROVE  calls' = [calls EXCEPT ![c] = calls'[c]]
    BY <2>0, <2>1 DEF StartRoot
  <2>2. ASSUME NEW type, NEW b, NEW signer, NEW nonce, StartChild(c, type, b, signer, nonce)
        PROVE  calls' = [calls EXCEPT ![c] = calls'[c]]
    BY <2>0, <2>2 DEF StartChild
  <2>3. ASSUME NEW type, NEW b, NEW signer, NEW g, StartAppend(c, type, b, signer, g)
        PROVE  calls' = [calls EXCEPT ![c] = calls'[c]]
    BY <2>0, <2>3 DEF StartAppend
  <2>4. CASE StartWrite(c)
    BY <2>2, <2>3, <2>4 DEF StartWrite
  <2> QED
    BY <1>1, <2>1, <2>4 DEF Start
<1>2. CASE \E now \in Times : Seek(c, now)
  BY <1>0, <1>2 DEF Seek, Set
<1>3. CASE Count(c) \/ CheckNonce(c)
  BY <1>0, <1>3 DEF Count, CheckNonce, Set, Goto
<1>4. CASE CheckNext(c) \/ Store(c)
  BY <1>0, <1>4 DEF CheckNext, Store, Set, Goto
<1>5. CASE Publish(c) \/ CacheRoot(c) \/ CacheZone(c)
  BY <1>0, <1>5 DEF Publish, CacheRoot, CacheZone, Set, Goto
<1> QED
  BY <1>1, <1>2, <1>3, <1>4, <1>5 DEF Continue

LEMMA OthersKeep ==
    ASSUME NEW c \in Calls, NEW d \in Calls, d # c, TypeOK, Start(c) \/ Continue(c)
    PROVE  calls'[d] = calls[d]
BY StepSets DEF TypeOK

LEMMA SomeCalls ==
    ASSUME NEW c \in Calls, TypeOK, Start(c) \/ Continue(c)
    PROVE  DOMAIN calls' = Calls /\ calls' = [d \in Calls |-> calls'[d]]
BY StepSets DEF TypeOK

(* The new block is where its call was looking when it looked. *)
LEMMA StoreStep ==
    ASSUME SecureAssumption, Inv, NEW c \in Calls, Start(c) \/ Continue(c),
           blocks' # blocks
    PROVE  /\ LinksBack(blocks') /\ ShapeIn(blocks') /\ SignersIn(blocks')
           /\ HeadsOK(blocks', headCache')
<1>. DEFINE k == calls[c]
            n == Len(blocks) + 1
            t == blocks'
            h == headCache
<1>0. /\ LinksBack(blocks) /\ ShapeIn(blocks) /\ SignersIn(blocks) /\ HeadsOK(blocks, h)
      /\ CallOK(blocks, h, k)
  BY DEF Inv
<1>1. /\ k.pc = "store" /\ t \in Seq(Block) /\ Len(t) = n /\ DOMAIN t = 1 .. n
      /\ Grows(blocks, t) /\ t[n] = NewBlock(k) /\ headCache' = h /\ n <= MaxBlocks
  <2>1. Len(blocks) < MaxBlocks => n <= MaxBlocks
    BY Facts
  <2> QED
    BY <2>1, StoreGrows DEF At
<1>2. /\ t[n].type = k.type /\ t[n].prev = k.prev /\ t[n].parent = k.parent
      /\ t[n].signer = k.signer /\ SignedAt(t[n]) = SignedAt(k)
  BY <1>1 DEF NewBlock, SignedAt
<1>3. /\ n \in Nat /\ Len(blocks) \in Nat /\ DOMAIN blocks = 1 .. n - 1
      /\ n - 1 = Len(blocks) /\ n \in DOMAIN t
      /\ \A b \in DOMAIN t : b = n \/ b \in DOMAIN blocks
  BY <1>1, Facts
<1>4. TopLevel(k) \/ (Placed(blocks, h, k) /\ Granted(blocks, Len(blocks), k))
  BY <1>0, <1>1 DEF CallOK
<1>5. /\ k.prev = 0 \/ k.prev \in DOMAIN blocks
      /\ k.parent = 0 \/ k.parent \in DOMAIN blocks
  BY <1>4 DEF TopLevel, Placed, Headed
<1>. HIDE DEF n, t, h, k
<1>6. LinksBack(t)
  <2>1. k.prev \in 0 .. n - 1 /\ k.parent \in 0 .. n - 1
    BY <1>3, <1>5
  <2>2. \A b \in DOMAIN t : t[b].prev \in 0 .. b - 1 /\ t[b].parent \in 0 .. b - 1
    BY <1>0, <1>1, <1>2, <1>3, <2>1 DEF LinksBack, Grows
  <2> QED
    BY <1>1, <2>2 DEF LinksBack
<1>7. /\ \A b \in DOMAIN blocks : RootIn(t, b) = RootIn(blocks, b) /\ RootIn(t, b) \in DOMAIN blocks
      /\ \A type : \A r \in DOMAIN blocks : AllowedIn(t, type, r) <=> AllowedIn(blocks, type, r)
      /\ \A b \in DOMAIN blocks : t[b] = blocks[b]
  <2>1. LinksBack(blocks) /\ LinksBack(t) /\ Grows(blocks, t)
    BY <1>0, <1>1, <1>6
  <2>2. \A b \in DOMAIN blocks : RootIn(t, b) = RootIn(blocks, b)
    BY <2>1, WalksStable
  <2>3. \A b \in DOMAIN blocks : RootIn(blocks, b) \in DOMAIN blocks
    BY <2>1, RootFacts
  <2>4. \A type : \A r \in DOMAIN blocks : AllowedIn(t, type, r) <=> AllowedIn(blocks, type, r)
    BY <2>1, EntriesStable
  <2>5. \A b \in DOMAIN blocks : t[b] = blocks[b]
    BY <2>1 DEF Grows
  <2> QED
    BY <2>2, <2>3, <2>4, <2>5
<1>8. ShapeIn(t)
  <2>1. ASSUME NEW b \in DOMAIN blocks
        PROVE  /\ t[b].prev # 0 => /\ t[b].parent = t[t[b].prev].parent
                                   /\ AllowedIn(t, t[b].type, RootIn(t, b))
               /\ t[b].prev = 0 /\ t[b].parent # 0 =>
                     RootIn(t, t[b].parent) = t[b].parent /\ AllowedIn(t, t[b].type, t[b].parent)
               /\ t[b].prev = 0 /\ t[b].parent = 0 => t[b].type \in {"root", "key"}
    <3>1. /\ blocks[b].prev = 0 \/ blocks[b].prev \in DOMAIN blocks
          /\ blocks[b].parent = 0 \/ blocks[b].parent \in DOMAIN blocks
      BY <1>0, StorageFacts
    <3> QED
      BY <1>0, <1>7, <3>1 DEF ShapeIn
  <2>2. /\ k.prev # 0 => /\ k.parent = t[k.prev].parent
                         /\ AllowedIn(t, k.type, RootIn(t, n))
        /\ k.prev = 0 /\ k.parent # 0 =>
              RootIn(t, k.parent) = k.parent /\ AllowedIn(t, k.type, k.parent)
        /\ k.prev = 0 /\ k.parent = 0 => k.type \in {"root", "key"}
    <3>1. CASE TopLevel(k)
      BY <3>1 DEF TopLevel
    <3>2. CASE Placed(blocks, h, k)
      <4>1. k.parent \in DOMAIN blocks /\ 0 \notin DOMAIN blocks
        BY <1>0, <3>2, StorageFacts DEF Placed, Headed
      <4>2. k.prev # 0 => k.prev \in DOMAIN blocks /\ RootIn(t, n) = RootIn(blocks, k.prev)
        BY <1>2, <1>3, <1>5, <1>6, <1>7, RootStep
      <4> QED
        BY <1>7, <3>2, <4>1, <4>2 DEF Placed
    <3> QED
      BY <1>4, <3>1, <3>2
  <2> QED
    BY <1>2, <1>3, <2>1, <2>2 DEF ShapeIn
<1>9. SignersIn(t)
  <2>1. ASSUME NEW b \in DOMAIN blocks, t[b].parent # 0
        PROVE  SignedAt(t[b]) \in DOMAIN t /\ Granted(t, b - 1, t[b])
    <3>1. SignedAt(t[b]) \in DOMAIN blocks /\ Granted(blocks, b - 1, t[b])
      BY <1>0, <1>7, <2>1 DEF SignersIn
    <3>2. b - 1 \in Nat /\ b - 1 <= Len(blocks)
      BY <1>3
    <3>3. Granted(t, b - 1, t[b])
      <4>. DEFINE m == b - 1
                  e == t[b]
      <4>1. m \in Nat /\ m <= Len(blocks) /\ m <= m /\ SignedAt(e) \in DOMAIN blocks
            /\ Granted(blocks, m, e)
        BY <3>1, <3>2
      <4>. HIDE DEF m, e
      <4>2. Granted(t, m, e)
        BY <1>0, <1>1, <1>6, <4>1, GrantedStable
      <4> QED
        BY <4>2 DEF m, e
    <3> QED
      BY <1>1, <3>1, <3>3 DEF Grows
  <2>2. k.parent # 0 => SignedAt(k) \in DOMAIN blocks /\ Granted(t, n - 1, k)
    <3>1. CASE k.parent # 0
      <4>1. SignedAt(k) \in DOMAIN blocks /\ Granted(blocks, Len(blocks), k)
        BY <1>4, <3>1 DEF TopLevel, Placed
      <4>. DEFINE m == Len(blocks)
      <4>2. m \in Nat /\ m <= Len(blocks) /\ m <= m /\ m = n - 1
        BY <1>3
      <4>. HIDE DEF m
      <4>3. Granted(t, m, k)
        BY <1>0, <1>1, <1>6, <4>1, <4>2, GrantedStable DEF m
      <4> QED
        BY <4>1, <4>2, <4>3
    <3> QED
      BY <3>1
  <2>3. Granted(t, n - 1, k) => Granted(t, n - 1, t[n])
    BY <1>2 DEF Granted
  <2> QED
    BY <1>1, <1>2, <1>3, <2>1, <2>2, <2>3 DEF SignersIn, Grows
<1>10. HeadsOK(t, h)
  <2>1. \A b : Headed(blocks, h, b) => Headed(t, h, b)
    BY <1>0, <1>1, <1>6, HeadedStable
  <2>2. ASSUME NEW b \in DOMAIN t, t[b].parent # 0
        PROVE  Headed(t, h, t[b].parent)
    <3>1. CASE b = n
      BY <1>2, <1>4, <2>1, <2>2, <3>1 DEF TopLevel, Placed
    <3>2. CASE b \in DOMAIN blocks
      BY <1>0, <1>7, <2>1, <2>2, <3>2 DEF HeadsOK
    <3> QED
      BY <1>3, <3>1, <3>2
  <2>3. ASSUME NEW r \in BlockId, h[r] # 0
        PROVE  r \in DOMAIN t /\ h[r] \in DOMAIN t /\ RootIn(t, h[r]) = r
    <3>1. r \in DOMAIN blocks /\ h[r] \in DOMAIN blocks /\ RootIn(blocks, h[r]) = r
      BY <1>0, <2>3 DEF HeadsOK
    <3> QED
      BY <1>1, <1>7, <3>1 DEF Grows
  <2> QED
    BY <2>2, <2>3 DEF HeadsOK
<1> QED
  BY <1>1, <1>6, <1>8, <1>9, <1>10 DEF t

(* What a call that enters the layer has looked up. *)
LEMMA KnownFacts ==
    ASSUME SecureAssumption, Inv, NEW b \in Known
    PROVE  LET r == RootIn(blocks, b) IN
           /\ b \in DOMAIN blocks /\ RootOf(b) = r /\ r \in DOMAIN blocks
           /\ RootIn(blocks, r) = r /\ Headed(blocks, headCache, r)
           /\ headCache[r] \in DOMAIN blocks /\ RootIn(blocks, headCache[r]) = r
           /\ Headed(blocks, headCache, headCache[r])
<1>. DEFINE r == RootIn(blocks, b)
<1>0. LinksBack(blocks) /\ HeadsOK(blocks, headCache)
  BY DEF Inv
<1>1. b \in DOMAIN blocks /\ RootOf(b) = r /\ headCache[r] # 0
  BY WalksIn DEF Known
<1>2. r \in DOMAIN blocks /\ RootIn(blocks, r) = r /\ r \in BlockId
  BY <1>0, <1>1, RootFacts, StorageFacts
<1>. HIDE DEF r
<1>3. headCache[r] \in DOMAIN blocks /\ RootIn(blocks, headCache[r]) = r
  BY <1>0, <1>1, <1>2 DEF HeadsOK
<1> QED
  BY <1>1, <1>2, <1>3 DEF Headed, r

LEMMA StartRootOK ==
    ASSUME SecureAssumption, Inv, NEW c \in Calls, NEW type \in {"root", "key"},
           NEW g \in GrantData, StartRoot(c, type, g)
    PROVE  calls'[c] \in Call /\ CallOK(blocks, headCache, calls'[c])
<1>. DEFINE k == [NewCall EXCEPT !.pc = "count", !.type = type, !.grant = g]
<1>1. calls'[c] = IF RootRefused THEN Reject("invalidRoot") ELSE k
  BY Facts DEF StartRoot, Set
<1>2. Reject("invalidRoot") \in Call /\ Reject("invalidRoot").pc = "idle"
  BY RejectTyped DEF Errs
<1>3. k \in Call
  BY NewCallTyped DEF Call, PCs, AllTypes, ChainTypes
<1>a. k.pc = "count" /\ k.type = type /\ k.prev = 0 /\ k.parent = 0
  BY NewCallTyped DEF Call
<1>. HIDE DEF k
<1>4. CallOK(blocks, headCache, k)
  BY <1>a DEF CallOK, TopLevel
<1> QED
  BY <1>1, <1>2, <1>3, <1>4, QuietOK

LEMMA StartChildOK ==
    ASSUME SecureAssumption, Inv, NEW c \in Calls, NEW type \in ChildTypes,
           NEW b \in Known, NEW signer \in Keys, NEW nonce \in Nonces,
           StartChild(c, type, b, signer, nonce)
    PROVE  calls'[c] \in Call /\ CallOK(blocks, headCache, calls'[c])
<1>. DEFINE r == RootIn(blocks, b)
            k == [NewCall EXCEPT !.pc = "seek", !.type = type, !.parent = r,
                                 !.nonce = nonce, !.signer = signer,
                                 !.goal = "signer", !.key = signer, !.at = r]
<1>0. LinksBack(blocks) /\ ShapeIn(blocks)
  BY DEF Inv
<1>1. /\ r \in DOMAIN blocks /\ r \in BlockId /\ RootIn(blocks, r) = r /\ RootOf(b) = r
      /\ Headed(blocks, headCache, r) /\ RootIn(blocks, r) \in AboveIn(blocks, r)
  BY <1>0, KnownFacts, Facts, Climb
<1>2. calls'[c] = IF AllowedIn(blocks, type, r) THEN k ELSE Reject("invalidParentType")
  BY <1>1, Facts, WalksIn DEF StartChild, Set, ParentFor
<1>3. Reject("invalidParentType") \in Call /\ Reject("invalidParentType").pc = "idle"
  BY RejectTyped DEF Errs
<1>. HIDE DEF r
<1>4. k \in Call
  <2>1. nonce \in Nat
    BY DEF SecureAssumption
  <2> QED
    BY <1>1, <2>1, NewCallTyped DEF Call, PCs, AllTypes
<1>5. /\ k.pc = "seek" /\ k.type = type /\ k.parent = r /\ k.prev = 0 /\ k.signer = signer
      /\ k.goal = "signer" /\ k.key = signer /\ k.at = r
  BY NewCallTyped DEF Call
<1>6. type \notin {"root", "key", "secret", "record"}
  BY DEF ChildTypes
<1>. HIDE DEF k
<1>7. SignedAt(k) = r
  BY <1>5, <1>6 DEF SignedAt
<1>8. AllowedIn(blocks, type, r) => CallOK(blocks, headCache, k)
  BY <1>1, <1>5, <1>6, <1>7 DEF CallOK, Placed
<1> QED
  BY <1>2, <1>3, <1>4, <1>8, QuietOK

LEMMA StartAppendOK ==
    ASSUME SecureAssumption, Inv, NEW c \in Calls, NEW type \in ChainTypes,
           NEW b \in Known, NEW signer \in Keys, NEW g \in GrantData,
           StartAppend(c, type, b, signer, g)
    PROVE  calls'[c] \in Call /\ CallOK(blocks, headCache, calls'[c])
<1>. DEFINE prev == headCache[RootIn(blocks, b)]
            parent == blocks[prev].parent
            at == IF type \in {"secret", "record"} THEN prev ELSE parent
            k == [NewCall EXCEPT
                    !.pc = "seek", !.type = type, !.prev = prev, !.parent = parent,
                    !.signer = signer, !.grant = g, !.goal = "signer", !.key = signer,
                    !.at = at]
<1>0. LinksBack(blocks) /\ ShapeIn(blocks) /\ HeadsOK(blocks, headCache)
  BY DEF Inv
<1>1. /\ prev \in DOMAIN blocks /\ prev \in BlockId /\ prev # 0
      /\ Headed(blocks, headCache, prev)
      /\ RootOf(b) = RootIn(blocks, b)
      /\ RootOf(prev) = RootIn(blocks, prev)
      /\ parent = 0 \/ parent \in DOMAIN blocks
      /\ parent \in BlockId
  BY <1>0, KnownFacts, Facts, StorageFacts, WalksIn
<1>2. parent # 0 => Headed(blocks, headCache, parent)
  BY <1>0, <1>1 DEF HeadsOK
<1>3. \/ calls'[c] = Reject("notFound")
      \/ calls'[c] = Reject("invalidParentType")
      \/ /\ calls'[c] = k
         /\ parent # 0 /\ AllowedIn(blocks, type, RootIn(blocks, prev))
  <2>1. calls'[c] = CASE parent = 0 -> Reject("notFound")
                      [] parent # 0 /\ ~AllowedUnder(type, RootOf(prev)) ->
                            Reject("invalidParentType")
                      [] OTHER -> k
    BY <1>1, Facts DEF StartAppend, Set, InheritedParent
  <2>2. AllowedUnder(type, RootOf(prev)) <=> AllowedIn(blocks, type, RootIn(blocks, prev))
    BY <1>1, WalksIn
  <2>. HIDE DEF k, parent, prev
  <2> QED
    BY <2>1, <2>2
<1>4. \A e \in Errs : Reject(e) \in Call /\ CallOK(blocks, headCache, Reject(e))
  BY RejectTyped, QuietOK
<1>5. /\ k.pc = "seek" /\ k.type = type /\ k.parent = parent /\ k.prev = prev
      /\ k.signer = signer /\ k.goal = "signer" /\ k.key = signer /\ k.at = at
  BY NewCallTyped DEF Call
<1>. HIDE DEF prev
<1>6. k \in Call
  <2>1. at \in BlockId
    BY <1>1
  <2>. HIDE DEF parent, at
  <2> QED
    BY <1>1, <2>1, NewCallTyped DEF Call, PCs, AllTypes
<1>. HIDE DEF parent
<1>. HIDE DEF k
<1>7. SignedAt(k) = at
  BY <1>5 DEF SignedAt
<1>8. ASSUME parent # 0, AllowedIn(blocks, type, RootIn(blocks, prev))
      PROVE  CallOK(blocks, headCache, k)
  <2>1. at \in DOMAIN blocks /\ Headed(blocks, headCache, at)
    BY <1>1, <1>2, <1>8
  <2>2. RootIn(blocks, at) \in AboveIn(blocks, at)
    BY <1>0, <2>1, Climb
  <2>3. type # "root"
    BY DEF ChainTypes
  <2>. HIDE DEF at
  <2>4. Placed(blocks, headCache, k)
    BY <1>1, <1>2, <1>5, <1>7, <1>8, <2>1, <2>3 DEF Placed, parent
  <2> QED
    BY <1>5, <1>7, <2>1, <2>2, <2>4 DEF CallOK
<1> QED
  BY <1>3, <1>4, <1>6, <1>8 DEF Errs

(* The entry a scan stops at. *)
LEMMA SeekFinds ==
    ASSUME SecureAssumption, Inv, NEW c \in Calls, At(c, "seek"),
           NEW now \in Times, SeekEntries(calls[c]) # {}
    PROVE  LET k == calls[c]
               e == Newest(SeekEntries(k))
           IN  /\ e \in DOMAIN blocks /\ e \in EntriesIn(blocks, e, k.key, "w")
               /\ RootIn(blocks, e) = RootIn(blocks, k.at)
<1>. DEFINE k == calls[c]
            r == RootIn(blocks, k.at)
            hd == headCache[r]
            S == SeekEntries(k)
<1>0. LinksBack(blocks) /\ HeadsOK(blocks, headCache) /\ CallOK(blocks, headCache, k)
  BY DEF Inv
<1>1. k.at \in DOMAIN blocks /\ hd # 0
  BY <1>0 DEF CallOK, At, Headed
<1>2. r \in BlockId
  BY <1>0, <1>1, RootFacts, StorageFacts
<1>. HIDE DEF r
<1>3. hd \in DOMAIN blocks /\ RootIn(blocks, hd) = r
  BY <1>0, <1>1, <1>2 DEF HeadsOK
<1>4. S = EntriesIn(blocks, hd, k.key, "w")
  BY WalksIn DEF SeekEntries, r
<1>. HIDE DEF hd, S
<1>5. \A n \in S : n \in 1 .. hd /\ RootIn(blocks, n) = r
  BY <1>0, <1>3, <1>4, ChainFacts DEF EntriesIn
<1>6. hd \in Nat /\ \A n \in 1 .. hd : n \in DOMAIN blocks
  BY <1>0, <1>3, StorageFacts
<1>7. Newest(S) \in S
  <2>1. S \in SUBSET (1 .. hd) /\ S # {}
    BY <1>5 DEF S
  <2> QED
    BY <1>6, <2>1, NewestIsLast DEF Newest
<1>8. Newest(S) \in ChainIn(blocks, Newest(S))
  BY <1>0, <1>5, <1>6, <1>7, ChainFacts
<1>9. Newest(S) \in EntriesIn(blocks, Newest(S), k.key, "w")
  BY <1>4, <1>7, <1>8 DEF EntriesIn
<1> QED
  BY <1>5, <1>6, <1>7, <1>9 DEF S, r

(* What a call knows of its write does not depend on where it seeks. *)
LEMMA SameWrite ==
    ASSUME NEW s, NEW h, NEW n, NEW k, NEW r,
           r.type = k.type, r.prev = k.prev, r.parent = k.parent, r.signer = k.signer
    PROVE  /\ Placed(s, h, r) <=> Placed(s, h, k)
           /\ Granted(s, n, r) <=> Granted(s, n, k)
           /\ SignedAt(r) = SignedAt(k)
<1>1. SignedAt(r) = SignedAt(k)
  BY DEF SignedAt
<1> QED
  BY <1>1 DEF Placed, Granted

LEMMA SeekOK ==
    ASSUME SecureAssumption, Inv, NEW c \in Calls, NEW now \in Times, Seek(c, now)
    PROVE  calls'[c] \in Call /\ CallOK(blocks, headCache, calls'[c])
<1>. DEFINE k == calls[c]
            good(r) == r \in Call /\ CallOK(blocks, headCache, r)
            S == SeekEntries(k)
            e == Newest(S)
            s == blocks
            h == headCache
<1>0. /\ LinksBack(s) /\ ShapeIn(s) /\ HeadsOK(s, h) /\ CallOK(s, h, k) /\ k \in Call
      /\ At(c, "seek") /\ k.pc = "seek"
  BY Facts DEF Inv, Seek, At
<1>1. /\ Placed(s, h, k) /\ Headed(s, h, k.at) /\ k.goal # "none"
      /\ k.goal # "granter" => k.key = k.signer /\ RootIn(s, k.at) \in AboveIn(s, SignedAt(k))
      /\ k.goal = "granter" => Headed(s, h, k.base) /\ Granted(s, Len(s), k)
  BY <1>0 DEF CallOK
<1>a. \A r : Set(c, r) => calls'[c] = r
  BY Facts DEF Set
<1>b. \A x \in Errs : good(Reject(x))
  BY RejectTyped, QuietOK
<1>2. ASSUME Granted(s, Len(s), k) PROVE good(Validated(k))
  <2>. DEFINE r == Validated(k)
  <2>1. /\ r.type = k.type /\ r.prev = k.prev /\ r.parent = k.parent /\ r.signer = k.signer
        /\ r.pc \in {"nonce", "checkNext"}
    BY <1>0 DEF Validated, Call
  <2>2. r \in Call
    BY <1>0, Facts, SecureAssumption DEF Validated, Call, PCs
  <2>. HIDE DEF r
  <2>3. Placed(s, h, r) /\ Granted(s, Len(s), r)
    BY <1>1, <1>2, <2>1, SameWrite
  <2>4. CallOK(s, h, r)
    BY <2>1, <2>3 DEF CallOK
  <2> QED
    BY <2>2, <2>4 DEF r
<1>3. ASSUME S # {}, IsKeyActive(blocks[e].grant, now), calls'[c] = AfterSeek(k, e)
      PROVE  good(calls'[c])
  <2>1. /\ e \in DOMAIN s /\ e \in EntriesIn(s, e, k.key, "w")
        /\ RootIn(s, e) = RootIn(s, k.at)
    BY <1>0, <1>3, SeekFinds
  <2>2. k.goal = "signer" \/ k.goal = "granter"
    BY <1>0, <1>1 DEF Call
  <2>3. k.goal = "signer" => Granted(s, Len(s), k)
    <3>1. e \in 1 .. Len(s)
      BY <2>1, Facts
    <3>. HIDE DEF e, k, s
    <3> QED
      BY <1>1, <1>3, <2>1, <3>1 DEF Granted, s
  <2>4. Granted(s, Len(s), k)
    BY <1>1, <2>2, <2>3
  <2>5. CASE k.goal = "signer" /\ k.type # "key"
    BY <1>2, <1>3, <2>4, <2>5 DEF AfterSeek
  <2>6. CASE k.goal = "signer" /\ k.type = "key"
    <3>. DEFINE r == [k EXCEPT !.goal = "granter", !.at = k.prev, !.base = k.prev]
    <3>1. calls'[c] = r
      BY <1>3, <2>6 DEF AfterSeek
    <3>2. /\ r.type = k.type /\ r.prev = k.prev /\ r.parent = k.parent /\ r.signer = k.signer
          /\ r.pc = "seek" /\ r.goal = "granter" /\ r.at = k.prev /\ r.base = k.prev
          /\ r \in Call
      BY <1>0 DEF Call
    <3>3. Headed(s, h, k.prev)
      BY <1>1, <2>6 DEF Placed
    <3>. HIDE DEF r
    <3>4. Placed(s, h, r) /\ Granted(s, Len(s), r)
      BY <1>1, <2>4, <3>2, SameWrite
    <3>5. CallOK(s, h, r)
      BY <3>2, <3>3, <3>4 DEF CallOK
    <3> QED
      BY <3>1, <3>2, <3>5
  <2>7. CASE k.goal = "granter"
    <3>. DEFINE up == blocks[k.base].parent
                key == blocks[e].signer
                r == [k EXCEPT !.key = key, !.at = up, !.base = up]
    <3>1. CASE key = NoKey \/ up = 0
      <4>1. calls'[c] = Validated(k)
        BY <1>3, <2>7, <3>1 DEF AfterSeek
      <4> QED
        BY <1>2, <2>4, <4>1
    <3>2. CASE ~ (key = NoKey \/ up = 0)
      <4>1. calls'[c] = r
        BY <1>3, <2>7, <3>2 DEF AfterSeek
      <4>2. k.base \in DOMAIN s
        BY <1>1, <2>7 DEF Headed
      <4>3. Headed(s, h, up)
        BY <1>0, <3>2, <4>2 DEF HeadsOK
      <4>4. up \in BlockId /\ key \in Keys \cup {NoKey}
        BY <1>0, <2>1, <4>3, StorageFacts DEF Headed, Block
      <4>. HIDE DEF up, key
      <4>5. /\ r.type = k.type /\ r.prev = k.prev /\ r.parent = k.parent /\ r.signer = k.signer
            /\ r.pc = "seek" /\ r.goal = "granter" /\ r.at = up /\ r.base = up
            /\ r \in Call
        BY <1>0, <2>7, <4>4 DEF Call
      <4>. HIDE DEF r
      <4>6. Placed(s, h, r) /\ Granted(s, Len(s), r)
        BY <1>1, <2>4, <4>5, SameWrite
      <4>7. CallOK(s, h, r)
        BY <4>3, <4>5, <4>6 DEF CallOK
      <4> QED
        BY <4>1, <4>5, <4>7
    <3> QED
      BY <3>1, <3>2
  <2> QED
    BY <2>2, <2>5, <2>6, <2>7
<1>4. ASSUME NEW up, up = blocks[RootOf(k.at)].parent, up # 0,
             calls'[c] = [k EXCEPT !.at = up]
      PROVE  good(calls'[c])
  <2>. DEFINE r == [k EXCEPT !.at = up]
              rt == RootIn(s, k.at)
  <2>1. rt \in DOMAIN s /\ up = s[rt].parent
    BY <1>0, <1>1, <1>4, RootFacts, WalksIn DEF Headed
  <2>2. Headed(s, h, up)
    BY <1>0, <1>4, <2>1 DEF HeadsOK
  <2>3. up \in BlockId
    BY <2>2, Facts DEF Headed
  <2>4. /\ r.type = k.type /\ r.prev = k.prev /\ r.parent = k.parent /\ r.signer = k.signer
        /\ r.pc = "seek" /\ r.goal = k.goal /\ r.at = up /\ r.base = k.base
        /\ r.key = k.key /\ r \in Call
    BY <1>0, <2>3 DEF Call
  <2>5. rt \in AboveIn(s, SignedAt(k)) => RootIn(s, up) \in AboveIn(s, SignedAt(k))
    BY <1>0, <1>1, <1>4, <2>1, Climb DEF Placed
  <2>. HIDE DEF r
  <2>6. /\ Placed(s, h, r) /\ (Granted(s, Len(s), k) => Granted(s, Len(s), r))
        /\ SignedAt(r) = SignedAt(k)
    BY <1>1, <2>4, SameWrite
  <2>7. CallOK(s, h, r)
    <3>1. r.goal # "granter" =>
              r.key = r.signer /\ RootIn(s, r.at) \in AboveIn(s, SignedAt(r))
      BY <1>1, <2>4, <2>5, <2>6
    <3>2. r.goal = "granter" => Headed(s, h, r.base) /\ Granted(s, Len(s), r)
      BY <1>1, <2>4, <2>6
    <3>3. r.goal # "none" /\ r.pc = "seek" /\ Headed(s, h, r.at)
      BY <1>1, <2>2, <2>4
    <3>. HIDE DEF s, h
    <3> QED
      BY <2>6, <3>1, <3>2, <3>3 DEF CallOK
  <2> QED
    BY <1>4, <2>4, <2>7 DEF r
<1>5. \/ S # {} /\ IsKeyActive(blocks[e].grant, now) /\ calls'[c] = AfterSeek(k, e)
      \/ LET up == blocks[RootOf(k.at)].parent IN up # 0 /\ calls'[c] = [k EXCEPT !.at = up]
      \/ \E x \in Errs : calls'[c] = Reject(x)
  BY <1>a DEF Seek, Errs
<1> QED
  BY <1>b, <1>3, <1>4, <1>5

LEMMA PublishOK ==
    ASSUME SecureAssumption, Inv, NEW c \in Calls, Publish(c)
    PROVE  /\ calls'[c] \in Call /\ CallOK(blocks, headCache', calls'[c])
           /\ headCache' \in [BlockId -> BlockId] /\ HeadsOK(blocks, headCache')
           /\ \A r \in BlockId : headCache[r] # 0 => headCache'[r] # 0
<1>. DEFINE k == calls[c]
            n == k.block
            r == RootIn(blocks, n)
            h == headCache
            g == headCache'
<1>0. /\ LinksBack(blocks) /\ HeadsOK(blocks, h) /\ CallOK(blocks, h, k) /\ k \in Call
      /\ k.pc = "publish"
  BY Facts DEF Inv, Publish, At
<1>1. n \in DOMAIN blocks /\ n \in BlockId /\ n # 0
  BY <1>0, Facts DEF CallOK
<1>2. /\ r \in DOMAIN blocks /\ r \in BlockId /\ RootOf(n) = r
      /\ g = [h EXCEPT ![r] = n]
  BY <1>0, <1>1, RootFacts, Facts, WalksIn DEF Publish
<1>3. /\ g \in [BlockId -> BlockId]
      /\ \A x \in BlockId : g[x] = IF x = r THEN n ELSE h[x]
  BY <1>1, <1>2, Facts
<1>. HIDE DEF r, n, g, h
<1>4. \A x \in BlockId : h[x] # 0 => g[x] # 0
  BY <1>1, <1>3
<1>5. HeadsOK(blocks, g)
  <2>1. \A x \in BlockId : g[x] # 0 =>
            x \in DOMAIN blocks /\ g[x] \in DOMAIN blocks /\ RootIn(blocks, g[x]) = x
    BY <1>0, <1>1, <1>2, <1>3 DEF HeadsOK, r
  <2>2. \A b : Headed(blocks, h, b) => Headed(blocks, g, b)
    <3>1. Grows(blocks, blocks)
      BY DEF Grows
    <3> QED
      BY <1>0, <1>4, <3>1, HeadedStable
  <2> QED
    BY <1>0, <2>1, <2>2 DEF HeadsOK
<1>6. calls'[c] \in Call /\ calls'[c].pc \in {"idle", "cacheRoot", "cacheZone"}
  <2>1. /\ [k EXCEPT !.pc = "cacheRoot"] \in Call
        /\ [k EXCEPT !.pc = "cacheRoot"].pc = "cacheRoot"
        /\ [k EXCEPT !.pc = "cacheZone"] \in Call
        /\ [k EXCEPT !.pc = "cacheZone"].pc = "cacheZone"
    BY <1>0 DEF Call, PCs
  <2>2. calls'[c] = CASE k.type = "root" -> [k EXCEPT !.pc = "cacheRoot"]
                      [] k.type = "zone" -> [k EXCEPT !.pc = "cacheZone"]
                      [] OTHER           -> NewCall
    BY Facts DEF Publish, Set
  <2> QED
    BY <2>1, <2>2, NewCallTyped
<1> QED
  BY <1>3, <1>4, <1>5, <1>6, QuietOK DEF g, h

LEMMA StoreOK ==
    ASSUME SecureAssumption, Inv, NEW c \in Calls, Store(c)
    PROVE  calls'[c] \in Call /\ CallOK(blocks', headCache, calls'[c])
<1>. DEFINE k == calls[c]
            n == Len(blocks) + 1
            r == [k EXCEPT !.pc = "publish", !.block = n]
<1>0. k \in Call /\ Len(blocks) \in Nat /\ MaxBlocks \in Nat /\ n \in Nat
  BY Facts
<1>1. CASE ~ (Len(blocks) < MaxBlocks)
  <2>1. calls'[c] = Reject("full")
    BY <1>1, Facts DEF Store, Set
  <2> QED
    BY <2>1, RejectTyped, QuietOK DEF Errs
<1>2. CASE Len(blocks) < MaxBlocks
  <2>1. calls'[c] = r
    BY <1>2, Facts DEF Store, Set
  <2>2. n \in BlockId
    BY <1>0, <1>2 DEF BlockId
  <2>3. r \in Call /\ r.pc = "publish" /\ r.block = n
    BY <1>0, <2>2 DEF Call, PCs
  <2>4. n \in DOMAIN blocks'
    <3>. DEFINE e == NewBlock(k)
    <3>1. blocks' = Append(blocks, e) /\ e \in Block
      BY <1>0, <1>2 DEF Store, NewBlock, Call, Block
    <3>. HIDE DEF e
    <3>2. Len(blocks') = n /\ blocks' \in Seq(Block)
      BY <3>1, Facts, AppendProperties
    <3> QED
      BY <1>0, <3>2
  <2>. HIDE DEF r
  <2>5. CallOK(blocks', headCache, r)
    BY <2>3, <2>4 DEF CallOK
  <2> QED
    BY <2>1, <2>3, <2>5
<1> QED
  BY <1>1, <1>2

(* What the two checks before the write decide, and from what they see.    *)
LEMMA NextChecked ==
    ASSUME SecureAssumption, Inv, NEW c \in Calls, CheckNext(c)
    PROVE  /\ calls[c].pc = "checkNext"
           /\ \/ calls'[c] = Reject("invalidTimestamp")
              \/ calls'[c] = Reject("nextBlockExists")
              \/ calls'[c] = [calls[c] EXCEPT !.pc = "store"]
<1>1. calls[c].pc = "checkNext"
  BY DEF CheckNext, At
<1>2. CASE Set(c, Reject("invalidTimestamp"))
  BY <1>1, <1>2, Facts DEF Set
<1>3. CASE \E next : Set(c, IF next # {} THEN Reject("nextBlockExists")
                            ELSE [calls[c] EXCEPT !.pc = "store"])
  BY <1>1, <1>3, Facts DEF Set
<1> QED
  BY <1>2, <1>3 DEF CheckNext

LEMMA NonceChecked ==
    ASSUME SecureAssumption, Inv, NEW c \in Calls, CheckNonce(c)
    PROVE  LET k == calls[c]
               stored == {n \in DOMAIN blocks : IsChildRoot(n, k.parent)}
           IN  /\ k.pc = "nonce"
               /\ \/ calls'[c] = Reject("nonceAlreadyUsed")
                  \/ /\ calls'[c] = [k EXCEPT !.pc = "store"]
                     /\ \E children \in Seen(stored) : ~NonceUsed(children, k.nonce)
<1>. DEFINE k == calls[c]
            stored == {n \in DOMAIN blocks : IsChildRoot(n, k.parent)}
<1>1. k.pc = "nonce"
  BY DEF CheckNonce, At
<1>2. PICK children \in Seen(stored) :
          \/ Set(c, Reject("nonceAlreadyUsed"))
          \/ ~NonceUsed(children, k.nonce) /\ Goto(c, "store")
  BY DEF CheckNonce
<1>3. CASE Set(c, Reject("nonceAlreadyUsed"))
  BY <1>1, <1>3, Facts DEF Set
<1>4. CASE ~NonceUsed(children, k.nonce) /\ Goto(c, "store")
  <2>1. calls'[c] = [k EXCEPT !.pc = "store"]
    BY <1>4, Facts DEF Goto
  <2> QED
    BY <1>1, <1>4, <2>1
<1> QED
  BY <1>2, <1>3, <1>4

(* The checks, and the steps after the write. *)
LEMMA OtherStepOK ==
    ASSUME SecureAssumption, Inv, NEW c \in Calls,
           \/ Count(c) \/ CheckNonce(c) \/ CheckNext(c) \/ CacheRoot(c) \/ CacheZone(c)
    PROVE  calls'[c] \in Call /\ CallOK(blocks, headCache, calls'[c])
<1>. DEFINE k == calls[c]
            r == [k EXCEPT !.pc = "store"]
<1>0. k \in Call /\ CallOK(blocks, headCache, k)
  BY Facts DEF Inv
<1>1. /\ r \in Call /\ r.pc = "store" /\ r.type = k.type /\ r.prev = k.prev
      /\ r.parent = k.parent /\ r.signer = k.signer
  BY <1>0 DEF Call, PCs
<1>2. \/ calls'[c] = r /\ k.pc \in {"count", "nonce", "checkNext"}
      \/ \E e \in Errs : calls'[c] = Reject(e)
      \/ calls'[c] = NewCall
  <2>1. CASE CheckNext(c)
    BY <2>1, NextChecked DEF Errs
  <2>2. CASE CheckNonce(c)
    BY <2>2, NonceChecked DEF Errs
  <2>3. CASE Count(c) \/ CacheRoot(c) \/ CacheZone(c)
    BY <2>3, Facts DEF Count, CacheRoot, CacheZone, Set, Goto, At, Errs
  <2> QED
    BY <2>1, <2>2, <2>3
<1>. HIDE DEF r
<1>3. k.pc \in {"count", "nonce", "checkNext"} => CallOK(blocks, headCache, r)
  <2>1. k.pc = "count" => TopLevel(r)
    BY <1>0, <1>1 DEF CallOK, TopLevel
  <2>2. k.pc \in {"nonce", "checkNext"} =>
            Placed(blocks, headCache, r) /\ Granted(blocks, Len(blocks), r)
    BY <1>0, <1>1, SameWrite DEF CallOK
  <2> QED
    BY <1>1, <2>1, <2>2 DEF CallOK
<1>4. CASE calls'[c] = r /\ k.pc \in {"count", "nonce", "checkNext"}
  BY <1>1, <1>3, <1>4
<1>5. CASE (\E e \in Errs : calls'[c] = Reject(e)) \/ calls'[c] = NewCall
  <2>1. calls'[c] \in Call /\ calls'[c].pc = "idle"
    BY <1>5, RejectTyped, NewCallTyped
  <2> QED
    BY <2>1, QuietOK
<1> QED
  BY <1>2, <1>4, <1>5

LEMMA OwnCallOK ==
    ASSUME SecureAssumption, Inv, NEW c \in Calls, Start(c) \/ Continue(c)
    PROVE  calls'[c] \in Call /\ CallOK(blocks', headCache', calls'[c])
<1>1. CASE Start(c)
  <2>1. blocks' = blocks /\ headCache' = headCache
    BY <1>1 DEF Start, StartRoot, StartWrite, StartChild, StartAppend
  <2>2. /\ \A key \in Keys : Always(key) \in GrantData
        /\ Grants \subseteq GrantData /\ Secrets \subseteq GrantData /\ NoGrant \in GrantData
    BY NewCallTyped DEF Always, GrantData, SecureAssumption
  <2>3. CASE \E key \in Keys : StartRoot(c, "root", Always(key))
    BY <2>1, <2>2, <2>3, StartRootOK
  <2>4. CASE \E type \in Types \cap {"key"}, g \in Grants : StartRoot(c, type, g)
    <3>1. PICK type \in {"key"}, g \in Grants : StartRoot(c, type, g)
      BY <2>4
    <3> QED
      BY <2>1, <2>2, <3>1, StartRootOK
  <2>5. CASE StartWrite(c)
    <3>1. CASE \E b \in Known, type \in Types \cap ChildTypes, signer \in Keys, nonce \in Nonces :
                  StartChild(c, type, b, signer, nonce)
      <4>1. PICK b \in Known, type \in Types \cap ChildTypes, signer \in Keys, nonce \in Nonces :
                StartChild(c, type, b, signer, nonce)
        BY <3>1
      <4> QED
        BY <2>1, <4>1, StartChildOK
    <3>2. CASE \E b \in Known, type \in ChainTypes, signer \in Keys, g \in GrantData :
                  StartAppend(c, type, b, signer, g)
      <4>1. PICK b \in Known, type \in ChainTypes, signer \in Keys, g \in GrantData :
                StartAppend(c, type, b, signer, g)
        BY <3>2
      <4> QED
        BY <2>1, <4>1, StartAppendOK
    <3> QED
      BY <2>2, <2>5, <3>1, <3>2 DEF StartWrite, ChainTypes
  <2> QED
    BY <1>1, <2>3, <2>4, <2>5 DEF Start
<1>2. CASE \E now \in Times : Seek(c, now)
  <2>1. blocks' = blocks /\ headCache' = headCache
    BY <1>2 DEF Seek
  <2> QED
    BY <1>2, <2>1, SeekOK
<1>3. CASE Store(c)
  <2>1. headCache' = headCache
    BY <1>3 DEF Store
  <2> QED
    BY <1>3, <2>1, StoreOK
<1>4. CASE Publish(c)
  <2>1. blocks' = blocks
    BY <1>4 DEF Publish
  <2> QED
    BY <1>4, <2>1, PublishOK
<1>5. CASE Count(c) \/ CheckNonce(c) \/ CheckNext(c) \/ CacheRoot(c) \/ CacheZone(c)
  <2>1. blocks' = blocks /\ headCache' = headCache
    BY <1>5 DEF Count, CheckNonce, CheckNext, CacheRoot, CacheZone
  <2> QED
    BY <1>5, <2>1, OtherStepOK
<1> QED
  BY <1>1, <1>2, <1>3, <1>4, <1>5 DEF Continue

LEMMA InvStep ==
    ASSUME SecureAssumption, Inv, NEW c \in Calls, Start(c) \/ Continue(c)
    PROVE  Inv'
<1>0. /\ TypeOK /\ LinksBack(blocks) /\ ShapeIn(blocks) /\ SignersIn(blocks)
      /\ HeadsOK(blocks, headCache)
  BY DEF Inv
<1>1. /\ LinksBack(blocks') /\ ShapeIn(blocks') /\ SignersIn(blocks')
      /\ Grows(blocks, blocks')
  <2>1. CASE blocks' = blocks
    BY <1>0, <2>1 DEF Grows
  <2>2. CASE blocks' # blocks
    BY <2>2, StoreStep, StoreGrows
  <2> QED
    BY <2>1, <2>2
<1>2. /\ headCache' \in [BlockId -> BlockId] /\ HeadsOK(blocks', headCache')
      /\ \A r \in BlockId : headCache[r] # 0 => headCache'[r] # 0
  <2>1. CASE Publish(c)
    <3>1. blocks' = blocks
      BY <2>1 DEF Publish
    <3> QED
      BY <2>1, <3>1, PublishOK
  <2>2. CASE ~ Publish(c)
    <3>1. headCache' = headCache
      BY <2>2 DEF Start, StartRoot, StartWrite, StartChild, StartAppend, Continue, Seek,
                  Count, CheckNonce, CheckNext, Store, CacheRoot, CacheZone
    <3>2. HeadsOK(blocks', headCache')
      <4>1. CASE blocks' = blocks
        BY <1>0, <3>1, <4>1
      <4>2. CASE blocks' # blocks
        BY <4>2, StoreStep
      <4> QED
        BY <4>1, <4>2
    <3> QED
      BY <3>1, <3>2, Facts
  <2> QED
    BY <2>1, <2>2
<1>3. ASSUME NEW d \in Calls
      PROVE  calls'[d] \in Call /\ CallOK(blocks', headCache', calls'[d])
  <2>1. CASE d = c
    BY <2>1, OwnCallOK
  <2>2. CASE d # c
    <3>1. /\ calls'[d] = calls[d] /\ calls[d] \in Call
          /\ CallOK(blocks, headCache, calls[d])
      BY <1>0, <2>2, OthersKeep, Facts DEF Inv
    <3> QED
      BY <1>0, <1>1, <1>2, <3>1, CallStable
  <2> QED
    BY <2>1, <2>2
<1>4. TypeOK'
  <2>1. calls' \in [Calls -> Call]
    BY <1>0, <1>3, SomeCalls
  <2>2. secureCache' \in [rootBlock : BlockId, rootZone : BlockId]
    <3>1. calls[c].block \in BlockId
      BY Facts DEF Call
    <3>2. CASE CacheRoot(c) \/ CacheZone(c)
      BY <3>1, <3>2, Facts DEF CacheRoot, CacheZone
    <3>3. CASE ~ (CacheRoot(c) \/ CacheZone(c))
      <4>1. secureCache' = secureCache
        BY <3>3 DEF Start, StartRoot, StartWrite, StartChild, StartAppend, Continue, Seek,
                    Count, CheckNonce, CheckNext, Store, Publish
      <4> QED
        BY <4>1, Facts
    <3> QED
      BY <3>2, <3>3
  <2> QED
    BY <1>1, <1>2, <2>1, <2>2 DEF TypeOK, LinksBack
<1> QED
  BY <1>1, <1>2, <1>3, <1>4 DEF Inv

LEMMA Invariant == Spec => []Inv
<1>1. Init => Inv
  <2> SUFFICES ASSUME Init PROVE Inv
    OBVIOUS
  <2>1. /\ blocks = <<>> /\ headCache = [b \in BlockId |-> 0]
        /\ secureCache = [rootBlock |-> 0, rootZone |-> 0]
        /\ calls = [c \in Calls |-> NewCall]
    BY DEF Init
  <2>2. blocks \in Seq(Block) /\ Len(blocks) = 0 /\ DOMAIN blocks = {}
    BY <2>1
  <2>3. 0 \in BlockId /\ MaxBlocks \in Nat
    BY SecureAssumption DEF SecureAssumption, BlockId
  <2>4. NewCall \in Call /\ \A c \in Calls : CallOK(blocks, headCache, calls[c])
    BY <2>1, SecureAssumption, NewCallTyped, QuietOK
  <2>5. TypeOK
    BY <2>1, <2>2, <2>3, <2>4 DEF TypeOK
  <2> QED
    BY <2>1, <2>2, <2>3, <2>4, <2>5 DEF Inv, LinksBack, ShapeIn, SignersIn, HeadsOK
<1>2. Inv /\ [Next]_vars => Inv'
  <2>1. ASSUME Inv, UNCHANGED vars PROVE Inv'
    <3>1. /\ blocks' = blocks /\ headCache' = headCache /\ secureCache' = secureCache
          /\ calls' = calls
      BY <2>1 DEF vars
    <3> QED
      BY <2>1, <3>1 DEF Inv, TypeOK
  <2> QED
    BY <2>1, SecureAssumption, InvStep DEF Next
<1> QED
  BY <1>1, <1>2, PTL DEF Spec

(* Every reachable state of layer 3 is well typed; in particular what its  *)
(* calls, its own cache and the cached heads name is a block the storage   *)
(* may hold, or 0.                                                         *)
THEOREM SecureTypeCorrect == Spec => []TypeOK
<1>1. Inv => TypeOK
  BY DEF Inv
<1> QED
  BY <1>1, Invariant, PTL

(* A chain hangs as a whole under the root of another chain, and every     *)
(* block has a type its place allows, though prev, parent and type were    *)
(* checked several awaits before the block was stored.                     *)
THEOREM TreeKeepsShape == Spec => []TreeShape
<1>1. ASSUME Inv, NEW b \in DOMAIN blocks
      PROVE  LET k == blocks[b] IN
             CASE k.prev # 0 -> k.parent = blocks[k.prev].parent /\ AllowedUnder(k.type, RootOf(b))
               [] k.prev = 0 /\ k.parent # 0 ->
                    RootOf(k.parent) = k.parent /\ AllowedUnder(k.type, k.parent)
               [] OTHER -> k.type \in {"root", "key"}
  <2>. DEFINE k == blocks[b]
  <2>1. /\ k.prev # 0 => k.parent = blocks[k.prev].parent /\ AllowedUnder(k.type, RootOf(b))
        /\ k.prev = 0 /\ k.parent # 0 =>
              RootOf(k.parent) = k.parent /\ AllowedUnder(k.type, k.parent)
        /\ k.prev = 0 /\ k.parent = 0 => k.type \in {"root", "key"}
    BY <1>1, WalksIn DEF Inv, ShapeIn
  <2> QED
    BY <2>1
<1>2. Inv => TreeShape
  BY <1>1 DEF TreeShape
<1> QED
  BY <1>2, Invariant, PTL

(* Every signer was granted its key by an earlier block at or above the    *)
(* place it signs for, with a window that may be open; so every permission *)
(* derives from the key of a block without a parent, whatever is revoked   *)
(* or added between the scan for the key and the write.                    *)
THEOREM SignersAreGranted == Spec => []SignersGranted
<1>1. ASSUME Inv, NEW b \in DOMAIN blocks, blocks[b].parent # 0
      PROVE  \E r \in Above(SignedUnder(b)) :
                \E e \in EntriesBefore(b, r, blocks[b].signer) : EverActive(e)
  <2>. DEFINE at == SignedAt(blocks[b])
  <2>1. Granted(blocks, b - 1, blocks[b])
    BY <1>1 DEF Inv, SignersIn
  <2>2. PICK r \in AboveIn(blocks, at), e \in 1 .. b - 1 :
            /\ RootIn(blocks, e) = r /\ e \in EntriesIn(blocks, e, blocks[b].signer, "w")
            /\ \E now \in Times : IsKeyActive(blocks[e].grant, now)
    BY <2>1 DEF Granted
  <2>3. at = SignedUnder(b)
    BY DEF SignedAt, SignedUnder
  <2>4. r \in Above(SignedUnder(b))
    BY <2>2, <2>3, WalksIn
  <2>5. e \in EntriesBefore(b, r, blocks[b].signer)
    BY <2>2, WalksIn DEF EntriesBefore
  <2>6. EverActive(e)
    BY <2>2 DEF EverActive
  <2> QED
    BY <2>4, <2>5, <2>6
<1>2. Inv => SignersGranted
  BY <1>1 DEF SignersGranted
<1> QED
  BY <1>2, Invariant, PTL

(***************************************************************************)
(* Callers that await each call before they make the next.  Then nothing   *)
(* happens between what a call looks up and the block it stores, and the   *)
(* cached head of a chain is its last block: the walk back from it passes  *)
(* every block of the chain, so no entry about a key is missed.            *)
(***************************************************************************)
OneCaller == \E c : Calls = {c}

(* The write keys the first n blocks give key in the chain of root r.      *)
EntriesOf(s, n, r, key) == {e \in 1 .. n : RootIn(s, e) = r /\ e \in EntriesIn(s, e, key, "w")}

NewestActive(s, E) == E # {} /\ \E now \in Times : IsKeyActive(s[Newest(E)].grant, now)

Active(s, n, k) == \E r \in AboveIn(s, SignedAt(k)) : NewestActive(s, EntriesOf(s, n, r, k.signer))

OneRootIn(s)   == \A a, b \in DOMAIN s : s[a].parent = 0 /\ s[b].parent = 0 => a = b
ActiveIn(s)    == \A b \in DOMAIN s : s[b].parent # 0 =>
                     SignedAt(s[b]) \in DOMAIN s /\ Active(s, b - 1, s[b])
NewNonce(s, k) == \A a \in DOMAIN s : s[a].prev = 0 /\ s[a].parent = k.parent =>
                                          s[a].nonce # k.nonce
NoncesIn(s)    ==
    \A a, b \in DOMAIN s :
        /\ s[a].prev = 0 /\ s[b].prev = 0 /\ s[a].parent # 0
        /\ s[a].parent = s[b].parent /\ s[a].nonce = s[b].nonce
        => a = b

(* The head of a chain, once the call that runs has published its block.   *)
HeadNow(s, h, k, r) == IF k.pc = "publish" /\ r = RootIn(s, k.block) THEN k.block ELSE h[r]

IsLastOf(s, b, r) ==
    /\ b \in DOMAIN s /\ RootIn(s, b) = r
    /\ \A n \in DOMAIN s : RootIn(s, n) = r => n \in ChainIn(s, b)

Checks == {"seek", "nonce", "checkNext"}

SeqOK(s, h, k) ==
    /\ \A r \in DOMAIN s : s[r].prev = 0 => IsLastOf(s, HeadNow(s, h, k, r), r)
    /\ k.pc = "count" => Len(s) = 0
    /\ k.pc = "store" /\ k.parent = 0 => Len(s) = 0
    /\ k.pc \in Checks \cup {"store"} /\ k.prev # 0 => k.prev = h[RootIn(s, k.prev)]
    /\ k.pc = "checkNext" => k.prev # 0
    /\ k.pc = "seek" /\ k.goal = "granter" => Active(s, Len(s), k)
    /\ k.pc \in {"nonce", "checkNext"} => Active(s, Len(s), k)
    /\ k.pc = "store" /\ k.parent # 0 => Active(s, Len(s), k)
    /\ k.pc = "store" /\ k.parent # 0 /\ k.prev = 0 => NewNonce(s, k)

SeqInv ==
    /\ OneRootIn(blocks) /\ ActiveIn(blocks) /\ NoncesIn(blocks)
    /\ \A c \in Calls : SeqOK(blocks, headCache, calls[c])

LEMMA EntriesOfStable ==
    ASSUME SecureAssumption, NEW s, NEW t, LinksBack(s), LinksBack(t), Grows(s, t),
           NEW n \in Nat, n <= Len(s), NEW k, SignedAt(k) \in DOMAIN s
    PROVE  /\ \A r, key : EntriesOf(t, n, r, key) = EntriesOf(s, n, r, key)
           /\ Active(s, n, k) => Active(t, n, k)
<1>0. \A e \in 1 .. n : e \in DOMAIN s /\ t[e] = s[e]
  BY StorageFacts DEF Grows
<1>1. ASSUME NEW r, NEW key
      PROVE  EntriesOf(t, n, r, key) = EntriesOf(s, n, r, key)
  BY <1>0, WalksStable, EntriesStable DEF EntriesOf
<1>2. ASSUME Active(s, n, k) PROVE Active(t, n, k)
  <2>1. PICK r \in AboveIn(s, SignedAt(k)) : NewestActive(s, EntriesOf(s, n, r, k.signer))
    BY <1>2 DEF Active
  <2>. DEFINE E == EntriesOf(s, n, r, k.signer)
  <2>2. E \in SUBSET (1 .. n) /\ E # {}
    BY <2>1 DEF EntriesOf, NewestActive
  <2>. HIDE DEF E
  <2>3. Newest(E) \in 1 .. n
    BY <2>2, NewestIsLast DEF Newest
  <2>4. NewestActive(t, E)
    BY <1>0, <2>1, <2>3 DEF NewestActive, E
  <2>5. AboveIn(t, SignedAt(k)) = AboveIn(s, SignedAt(k))
    BY WalksStable
  <2> QED
    BY <1>1, <2>4, <2>5 DEF Active, E
<1> QED
  BY <1>1, <1>2

(* A step that leaves storage and heads alone has little to show. *)
LEMMA SeqKept ==
    ASSUME NEW s, NEW h, NEW k, NEW r, SeqOK(s, h, k), k.pc # "publish", r.pc # "publish",
           r.pc = "count" => Len(s) = 0,
           r.pc = "store" /\ r.parent = 0 => Len(s) = 0,
           r.pc \in Checks \cup {"store"} /\ r.prev # 0 => r.prev = h[RootIn(s, r.prev)],
           r.pc = "checkNext" => r.prev # 0,
           r.pc = "seek" /\ r.goal = "granter" => Active(s, Len(s), r),
           r.pc \in {"nonce", "checkNext"} => Active(s, Len(s), r),
           r.pc = "store" /\ r.parent # 0 => Active(s, Len(s), r),
           r.pc = "store" /\ r.parent # 0 /\ r.prev = 0 => NewNonce(s, r)
    PROVE  SeqOK(s, h, r)
BY DEF SeqOK, HeadNow

LEMMA SeqQuiet ==
    ASSUME NEW s, NEW h, NEW k, NEW r, SeqOK(s, h, k), k.pc # "publish",
           r.pc \in {"idle", "cacheRoot", "cacheZone"}
    PROVE  SeqOK(s, h, r)
<1>1. r.pc # "publish" /\ r.pc # "count" /\ r.pc # "store" /\ r.pc \notin Checks
  BY DEF Checks
<1> QED
  BY <1>1, SeqKept DEF Checks

(* The new block is the last of its chain. *)
LEMMA SeqStore ==
    ASSUME SecureAssumption, Inv, SeqInv, NEW c \in Calls, Start(c) \/ Continue(c),
           blocks' # blocks
    PROVE  /\ OneRootIn(blocks') /\ ActiveIn(blocks') /\ NoncesIn(blocks')
           /\ SeqOK(blocks', headCache', calls'[c])
<1>. DEFINE k == calls[c]
            n == Len(blocks) + 1
            s == blocks
            t == blocks'
            h == headCache
            w == [k EXCEPT !.pc = "publish", !.block = n]
<1>0. /\ LinksBack(s) /\ OneRootIn(s) /\ ActiveIn(s) /\ NoncesIn(s) /\ k \in Call
      /\ CallOK(s, h, k) /\ SeqOK(s, h, k)
  BY Facts DEF Inv, SeqInv
<1>1. /\ Store(c) /\ Len(blocks) < MaxBlocks /\ k.pc = "store" /\ DOMAIN t = 1 .. n
      /\ Grows(s, t) /\ t[n] = NewBlock(k) /\ headCache' = h /\ calls'[c] = w
  BY StoreGrows, Facts DEF At, Store, Set
<1>2. /\ t[n].type = k.type /\ t[n].prev = k.prev /\ t[n].parent = k.parent
      /\ t[n].nonce = k.nonce /\ t[n].signer = k.signer /\ SignedAt(t[n]) = SignedAt(k)
      /\ w.pc = "publish" /\ w.block = n
  BY <1>0, <1>1 DEF NewBlock, SignedAt, Call
<1>3. /\ n \in Nat /\ Len(s) \in Nat /\ DOMAIN s = 1 .. n - 1 /\ n \notin DOMAIN s
      /\ n - 1 = Len(s) /\ n \in DOMAIN t /\ 0 \notin DOMAIN s
      /\ \A b \in DOMAIN t : b = n \/ b \in DOMAIN s
  BY <1>1, Facts
<1>4. LinksBack(t)
  BY StoreStep
<1>5. /\ k.parent = 0 => Len(s) = 0 /\ k.prev = 0
      /\ k.parent # 0 => Placed(s, h, k) /\ Active(s, Len(s), k)
      /\ k.prev # 0 => k.prev \in DOMAIN s /\ k.prev = h[RootIn(s, k.prev)]
      /\ k.parent # 0 /\ k.prev = 0 => NewNonce(s, k)
  <2>1. TopLevel(k) \/ Placed(s, h, k)
    BY <1>0, <1>1 DEF CallOK
  <2>2. Placed(s, h, k) => k.parent # 0 /\ (k.prev # 0 => k.prev \in DOMAIN s)
    BY <1>3 DEF Placed, Headed
  <2> QED
    BY <1>0, <1>1, <2>1, <2>2 DEF SeqOK, TopLevel
<1>6. \A r \in DOMAIN s : s[r].prev = 0 => IsLastOf(s, h[r], r)
  BY <1>0, <1>1 DEF SeqOK, HeadNow
<1>. HIDE DEF k, n, s, t, h, w
<1>7. \A b \in DOMAIN s : /\ RootIn(t, b) = RootIn(s, b) /\ ChainIn(t, b) = ChainIn(s, b)
                          /\ t[b] = s[b] /\ RootIn(t, b) \in DOMAIN s
  <2>1. \A b \in DOMAIN s : RootIn(t, b) = RootIn(s, b) /\ ChainIn(t, b) = ChainIn(s, b)
    BY <1>0, <1>1, <1>4, WalksStable
  <2>2. \A b \in DOMAIN s : RootIn(s, b) \in DOMAIN s
    BY <1>0, RootFacts
  <2> QED
    BY <1>1, <2>1, <2>2 DEF Grows
<1>8. /\ RootIn(t, n) = IF k.prev = 0 THEN n ELSE RootIn(t, k.prev)
      /\ ChainIn(t, n) = {n} \cup IF k.prev = 0 THEN {} ELSE ChainIn(t, k.prev)
  BY <1>2, <1>3, <1>4, RootStep, ChainStep
<1>9. OneRootIn(t)
  <2>1. CASE k.parent = 0
    <3>1. \A b \in DOMAIN t : b = n
      BY <1>3, <1>5, <2>1
    <3> QED
      BY <3>1 DEF OneRootIn
  <2>2. CASE k.parent # 0
    BY <1>0, <1>2, <1>3, <1>7, <2>2 DEF OneRootIn
  <2> QED
    BY <2>1, <2>2
<1>10. ActiveIn(t)
  <2>1. ASSUME NEW b \in DOMAIN s, t[b].parent # 0
        PROVE  SignedAt(t[b]) \in DOMAIN t /\ Active(t, b - 1, t[b])
    <3>. DEFINE m == b - 1
                e == t[b]
    <3>1. SignedAt(e) \in DOMAIN s /\ Active(s, m, e)
      BY <1>0, <1>7, <2>1 DEF ActiveIn
    <3>2. m \in Nat /\ m <= Len(s)
      BY <1>3
    <3>. HIDE DEF m, e
    <3>3. Active(t, m, e)
      BY <1>0, <1>1, <1>4, <3>1, <3>2, EntriesOfStable
    <3> QED
      BY <1>1, <3>1, <3>3 DEF Grows, m, e
  <2>2. ASSUME k.parent # 0
        PROVE  SignedAt(t[n]) \in DOMAIN t /\ Active(t, n - 1, t[n])
    <3>. DEFINE m == Len(s)
    <3>1. SignedAt(k) \in DOMAIN s /\ Active(s, m, k) /\ m \in Nat /\ m <= Len(s)
      BY <1>3, <1>5, <2>2 DEF Placed
    <3>. HIDE DEF m
    <3>2. Active(t, m, k)
      BY <1>0, <1>1, <1>4, <3>1, EntriesOfStable
    <3> QED
      BY <1>1, <1>2, <1>3, <3>1, <3>2 DEF Active, Grows, m
  <2> QED
    BY <1>2, <1>3, <2>1, <2>2 DEF ActiveIn
<1>11. NoncesIn(t)
  <2>1. \A a \in DOMAIN s : t[a].prev = 0 /\ k.prev = 0 /\ k.parent # 0 /\ t[a].parent = k.parent
            => t[a].nonce # k.nonce
    BY <1>5, <1>7 DEF NewNonce
  <2> QED
    BY <1>0, <1>2, <1>3, <1>7, <2>1 DEF NoncesIn
<1>12. ASSUME NEW r \in DOMAIN t, t[r].prev = 0
       PROVE  IsLastOf(t, HeadNow(t, h, w, r), r)
  <2>1. CASE r = RootIn(t, n)
    <3>1. HeadNow(t, h, w, r) = n
      BY <1>2, <2>1 DEF HeadNow
    <3>2. ASSUME NEW m \in DOMAIN s, RootIn(t, m) = r
          PROVE  m \in ChainIn(t, n)
      <4>1. k.prev # 0
        BY <1>3, <1>7, <1>8, <2>1, <3>2
      <4>2. k.prev \in DOMAIN s /\ k.prev = h[RootIn(s, k.prev)]
        BY <1>5, <4>1
      <4>3. r = RootIn(s, k.prev) /\ r \in DOMAIN s /\ s[r].prev = 0 /\ RootIn(s, m) = r
        BY <1>7, <1>8, <1>12, <2>1, <3>2, <4>1, <4>2
      <4>4. m \in ChainIn(s, k.prev)
        BY <1>6, <3>2, <4>2, <4>3 DEF IsLastOf
      <4> QED
        BY <1>7, <1>8, <4>1, <4>2, <4>4
    <3>3. n \in ChainIn(t, n)
      BY <1>8
    <3> QED
      BY <1>3, <2>1, <3>1, <3>2, <3>3 DEF IsLastOf
  <2>2. CASE r # RootIn(t, n)
    <3>1. HeadNow(t, h, w, r) = h[r]
      BY <1>2, <2>2 DEF HeadNow
    <3>2. r \in DOMAIN s /\ s[r].prev = 0
      BY <1>2, <1>3, <1>7, <1>8, <1>12, <2>2
    <3>3. IsLastOf(s, h[r], r)
      BY <1>6, <3>2
    <3> QED
      BY <1>1, <1>3, <1>7, <2>2, <3>1, <3>3 DEF IsLastOf, Grows
  <2> QED
    BY <2>1, <2>2
<1>13. SeqOK(t, h, w)
  BY <1>2, <1>12 DEF SeqOK, Checks
<1> QED
  BY <1>1, <1>9, <1>10, <1>11, <1>13 DEF t, h


(* Publishing the block leaves the heads as the call had them. *)
LEMMA SeqPublish ==
    ASSUME SecureAssumption, Inv, SeqInv, NEW c \in Calls, Publish(c)
    PROVE  SeqOK(blocks, headCache', calls'[c])
<1>. DEFINE k == calls[c]
            s == blocks
            h == headCache
            g == headCache'
            w == calls'[c]
            x == RootIn(s, k.block)
<1>0. /\ LinksBack(s) /\ CallOK(s, h, k) /\ SeqOK(s, h, k) /\ k \in Call
      /\ k.pc = "publish"
  BY Facts DEF Inv, SeqInv, Publish, At
<1>1. k.block \in DOMAIN s
  BY <1>0 DEF CallOK
<1>2. g = [h EXCEPT ![x] = k.block] /\ x \in BlockId
  BY <1>0, <1>1, RootFacts, Facts, WalksIn DEF Publish
<1>3. \A r \in DOMAIN s : g[r] = HeadNow(s, h, k, r)
  BY <1>0, <1>2, Facts DEF HeadNow
<1>4. w.pc \in {"idle", "cacheRoot", "cacheZone"}
  <2>1. /\ [k EXCEPT !.pc = "cacheRoot"].pc = "cacheRoot"
        /\ [k EXCEPT !.pc = "cacheZone"].pc = "cacheZone"
    BY <1>0 DEF Call, PCs
  <2>2. w = CASE k.type = "root" -> [k EXCEPT !.pc = "cacheRoot"]
              [] k.type = "zone" -> [k EXCEPT !.pc = "cacheZone"]
              [] OTHER           -> NewCall
    BY Facts DEF Publish, Set
  <2> QED
    BY <2>1, <2>2, NewCallTyped
<1>. HIDE DEF k, s, h, g, w, x
<1>5. \A r \in DOMAIN s : s[r].prev = 0 => IsLastOf(s, HeadNow(s, g, w, r), r)
  <2>1. \A r \in DOMAIN s : HeadNow(s, g, w, r) = HeadNow(s, h, k, r)
    BY <1>3, <1>4 DEF HeadNow
  <2> QED
    BY <1>0, <2>1 DEF SeqOK
<1>6. SeqOK(s, g, w)
  BY <1>4, <1>5 DEF SeqOK, Checks
<1> QED
  BY <1>6 DEF s, g, w

(* Entering the layer. *)
LEMMA SeqStart ==
    ASSUME SecureAssumption, Inv, SeqInv, NEW c \in Calls, Start(c)
    PROVE  SeqOK(blocks, headCache, calls'[c])
<1>. DEFINE s == blocks
            h == headCache
            good(r) == SeqOK(s, h, r)
<1>0. LinksBack(s) /\ SeqOK(s, h, calls[c]) /\ \A e \in Errs : Reject(e).pc = "idle"
  BY RejectTyped DEF Inv, SeqInv
<1>1. calls[c].pc = "idle"
  BY DEF Start, StartRoot, StartWrite, StartChild, StartAppend, At
<1>a. \A r : Set(c, r) => calls'[c] = r
  BY Facts DEF Set
<1>b. \A e \in Errs : good(Reject(e))
  BY <1>0, <1>1, SeqQuiet
<1>2. ASSUME NEW type, NEW g, StartRoot(c, type, g)
      PROVE  good(calls'[c])
  <2>. DEFINE k == [NewCall EXCEPT !.pc = "count", !.type = type, !.grant = g]
  <2>1. calls'[c] = IF Len(s) > 0 THEN Reject("invalidRoot") ELSE k
    BY <1>2, <1>a DEF StartRoot, RootRefused
  <2>2. k.pc = "count"
    BY NewCallTyped DEF Call
  <2>. HIDE DEF k
  <2>3. ~ (Len(s) > 0) => Len(s) = 0
    BY Facts
  <2>4. ~ (Len(s) > 0) => good(k)
    <3>. HIDE DEF s, h
    <3> QED
      BY <1>0, <1>1, <2>2, <2>3, SeqKept DEF Checks
  <2> QED
    BY <1>b, <2>1, <2>4 DEF Errs
<1>3. ASSUME NEW type, NEW b, NEW signer, NEW nonce, StartChild(c, type, b, signer, nonce)
      PROVE  good(calls'[c])
  <2>. DEFINE r == ParentFor(b)
              k == [NewCall EXCEPT !.pc = "seek", !.type = type, !.parent = r,
                                   !.nonce = nonce, !.signer = signer,
                                   !.goal = "signer", !.key = signer, !.at = r]
  <2>1. calls'[c] = IF AllowedUnder(type, r) THEN k ELSE Reject("invalidParentType")
    BY <1>3, <1>a DEF StartChild
  <2>2. k.pc = "seek" /\ k.prev = 0 /\ k.goal = "signer"
    BY NewCallTyped DEF Call
  <2>. HIDE DEF k
  <2>3. good(k)
    BY <1>0, <1>1, <2>2, SeqKept DEF Checks
  <2> QED
    BY <1>b, <2>1, <2>3 DEF Errs
<1>4. ASSUME NEW type, NEW b \in Known, NEW signer, NEW g, StartAppend(c, type, b, signer, g)
      PROVE  good(calls'[c])
  <2>. DEFINE prev == headCache[RootOf(b)]
              parent == InheritedParent(prev)
              at == IF type \in {"secret", "record"} THEN prev ELSE parent
              k == [NewCall EXCEPT
                      !.pc = "seek", !.type = type, !.prev = prev, !.parent = parent,
                      !.signer = signer, !.grant = g, !.goal = "signer", !.key = signer,
                      !.at = at]
  <2>1. prev = h[RootIn(s, prev)]
    BY KnownFacts
  <2>2. k.pc = "seek" /\ k.prev = prev /\ k.goal = "signer"
    BY NewCallTyped DEF Call
  <2>3. \/ calls'[c] = Reject("notFound")
        \/ calls'[c] = Reject("invalidParentType")
        \/ calls'[c] = k
    <3>1. calls'[c] = CASE parent = 0 -> Reject("notFound")
                        [] parent # 0 /\ ~AllowedUnder(type, RootOf(prev)) ->
                              Reject("invalidParentType")
                        [] OTHER -> k
      BY <1>4, <1>a DEF StartAppend
    <3>. HIDE DEF k, parent, prev
    <3> QED
      BY <3>1
  <2>. HIDE DEF k, prev
  <2>4. good(k)
    <3>1. k.prev = h[RootIn(s, k.prev)]
      BY <2>1, <2>2
    <3>. HIDE DEF s, h
    <3> QED
      BY <1>0, <1>1, <2>2, <3>1, SeqKept DEF Checks
  <2> QED
    BY <1>b, <2>3, <2>4 DEF Errs
<1> QED
  BY <1>2, <1>3, <1>4 DEF Start, StartWrite


(* The scan from the cached head sees every entry of the chain. *)
LEMMA SeekSeesAll ==
    ASSUME SecureAssumption, Inv, SeqInv, NEW c \in Calls, At(c, "seek")
    PROVE  LET k == calls[c] IN
           SeekEntries(k) = EntriesOf(blocks, Len(blocks), RootIn(blocks, k.at), k.key)
<1>. DEFINE k == calls[c]
            s == blocks
            r == RootIn(s, k.at)
            hd == headCache[r]
            key == k.key
            n == Len(s)
<1>0. /\ LinksBack(s) /\ CallOK(s, headCache, k) /\ SeqOK(s, headCache, k)
      /\ k.pc = "seek" /\ DOMAIN s = 1 .. n
  BY Facts DEF Inv, SeqInv, At
<1>1. k.at \in DOMAIN s
  BY <1>0 DEF CallOK, Headed
<1>2. r \in DOMAIN s /\ s[r].prev = 0
  BY <1>0, <1>1, RootFacts
<1>3. IsLastOf(s, hd, r)
  BY <1>0, <1>2 DEF SeqOK, HeadNow
<1>4. SeekEntries(k) = EntriesIn(s, hd, key, "w")
  BY WalksIn DEF SeekEntries
<1>. HIDE DEF r, hd, key, n, s
<1>5. \A e \in ChainIn(s, hd) : e \in 1 .. hd /\ RootIn(s, e) = r
  BY <1>0, <1>3, ChainFacts DEF IsLastOf
<1>6. hd \in 1 .. n /\ n \in Nat
  BY <1>0, <1>3, StorageFacts DEF IsLastOf, n
<1>7. \A e \in 1 .. n : e \in ChainIn(s, e)
  BY <1>0, ChainFacts
<1>8. \A e : e \in EntriesIn(s, hd, key, "w") <=> e \in EntriesOf(s, n, r, key)
  <2> TAKE e
  <2>1. ASSUME e \in EntriesIn(s, hd, key, "w") PROVE e \in EntriesOf(s, n, r, key)
    <3>1. e \in ChainIn(s, hd)
      BY <2>1 DEF EntriesIn
    <3>2. e \in 1 .. n /\ RootIn(s, e) = r
      BY <1>5, <1>6, <3>1
    <3>3. e \in EntriesIn(s, e, key, "w")
      BY <1>7, <2>1, <3>2 DEF EntriesIn
    <3> QED
      BY <3>2, <3>3 DEF EntriesOf
  <2>2. ASSUME e \in EntriesOf(s, n, r, key) PROVE e \in EntriesIn(s, hd, key, "w")
    <3>1. e \in DOMAIN s /\ RootIn(s, e) = r /\ e \in EntriesIn(s, e, key, "w")
      BY <1>0, <2>2 DEF EntriesOf
    <3>2. e \in ChainIn(s, hd)
      BY <1>3, <3>1 DEF IsLastOf
    <3> QED
      BY <3>1, <3>2 DEF EntriesIn
  <2> QED
    BY <2>1, <2>2
<1>9. EntriesIn(s, hd, key, "w") = EntriesOf(s, n, r, key)
  BY <1>8
<1> QED
  BY <1>4, <1>9 DEF s, n, r, key

LEMMA SameActive ==
    ASSUME NEW s, NEW n, NEW k, NEW r,
           r.type = k.type, r.prev = k.prev, r.parent = k.parent, r.signer = k.signer
    PROVE  Active(s, n, r) <=> Active(s, n, k)
<1>1. SignedAt(r) = SignedAt(k)
  BY DEF SignedAt
<1> QED
  BY <1>1 DEF Active

LEMMA SeqSeek ==
    ASSUME SecureAssumption, Inv, SeqInv, NEW c \in Calls, NEW now \in Times, Seek(c, now)
    PROVE  SeqOK(blocks, headCache, calls'[c])
<1>. DEFINE k == calls[c]
            s == blocks
            h == headCache
            n == Len(s)
            S == SeekEntries(k)
            e == Newest(S)
            w == calls'[c]
<1>0. /\ LinksBack(s) /\ CallOK(s, h, k) /\ SeqOK(s, h, k) /\ k \in Call
      /\ At(c, "seek") /\ k.pc = "seek" /\ \A x \in Errs : Reject(x).pc = "idle"
  BY Facts, RejectTyped DEF Inv, SeqInv, Seek, At
<1>1. /\ k.goal = "signer" \/ k.goal = "granter"
      /\ k.goal # "granter" => k.key = k.signer /\ RootIn(s, k.at) \in AboveIn(s, SignedAt(k))
      /\ k.goal = "granter" => Active(s, n, k)
      /\ k.prev # 0 => k.prev = h[RootIn(s, k.prev)]
  BY <1>0 DEF CallOK, SeqOK, Checks, Call
<1>2. S # {} /\ IsKeyActive(blocks[e].grant, now) => Active(s, n, k)
  <2>1. S = EntriesOf(s, n, RootIn(s, k.at), k.key)
    BY <1>0, SeekSeesAll
  <2>2. ASSUME S # {}, IsKeyActive(blocks[e].grant, now)
        PROVE  NewestActive(s, S)
    BY <2>2 DEF NewestActive
  <2>. HIDE DEF S, n, s, k
  <2> QED
    BY <1>1, <2>1, <2>2 DEF Active, s
<1>3. ASSUME w.type = k.type, w.prev = k.prev, w.parent = k.parent, w.signer = k.signer,
             w.pc \in Checks, w.pc = "checkNext" => w.prev # 0,
             \/ w.pc = "seek" /\ w.goal = k.goal
             \/ Active(s, n, k)
      PROVE  SeqOK(s, h, w)
  <2>. HIDE DEF k, w, s, h
  <2>1. w.pc = "seek" /\ w.goal = "granter" => Active(s, n, w)
    BY <1>1, <1>3, SameActive
  <2>2. w.pc \in {"nonce", "checkNext"} => Active(s, n, w)
    BY <1>3, SameActive
  <2>3. w.pc # "publish" /\ w.pc # "count" /\ w.pc # "store" /\ k.pc # "publish"
    BY <1>0, <1>3 DEF Checks
  <2>4. w.prev # 0 => w.prev = h[RootIn(s, w.prev)]
    BY <1>1, <1>3
  <2> QED
    BY <1>0, <1>3, <2>1, <2>2, <2>3, <2>4, SeqKept
<1>4. CASE \E x \in Errs : w = Reject(x)
  BY <1>0, <1>4, SeqQuiet
<1>5. ASSUME S # {}, IsKeyActive(blocks[e].grant, now), w = AfterSeek(k, e)
      PROVE  SeqOK(s, h, w)
  <2>1. /\ w.type = k.type /\ w.prev = k.prev /\ w.parent = k.parent /\ w.signer = k.signer
        /\ w.pc \in Checks /\ (w.pc = "checkNext" => w.prev # 0)
    <3>1. CASE w = Validated(k)
      BY <1>0, <3>1 DEF Validated, Call, Checks
    <3>2. CASE w = [k EXCEPT !.goal = "granter", !.at = k.prev, !.base = k.prev]
      BY <1>0, <3>2 DEF Call, Checks
    <3>3. CASE \E key, up : w = [k EXCEPT !.key = key, !.at = up, !.base = up]
      BY <1>0, <3>3 DEF Call, Checks
    <3>4. \/ w = Validated(k)
          \/ w = [k EXCEPT !.goal = "granter", !.at = k.prev, !.base = k.prev]
          \/ \E key, up : w = [k EXCEPT !.key = key, !.at = up, !.base = up]
      BY <1>1, <1>5 DEF AfterSeek
    <3> QED
      BY <3>1, <3>2, <3>3, <3>4
  <2> QED
    BY <1>2, <1>3, <1>5, <2>1
<1>6. \/ S # {} /\ IsKeyActive(blocks[e].grant, now) /\ w = AfterSeek(k, e)
      \/ \E up : w = [k EXCEPT !.at = up]
      \/ \E x \in Errs : w = Reject(x)
  BY Facts DEF Seek, Set, Errs
<1>7. ASSUME NEW up, w = [k EXCEPT !.at = up] PROVE SeqOK(s, h, w)
  <2>1. /\ w.type = k.type /\ w.prev = k.prev /\ w.parent = k.parent /\ w.signer = k.signer
        /\ w.pc = "seek" /\ w.goal = k.goal
    BY <1>0, <1>7 DEF Call
  <2> QED
    BY <1>3, <2>1 DEF Checks
<1> QED
  BY <1>4, <1>5, <1>6, <1>7


(* The checks before the write, the steps after it, and a storage that is full. *)
LEMMA SeqOther ==
    ASSUME SecureAssumption, OneCaller, Inv, SeqInv, NEW c \in Calls, blocks' = blocks,
           \/ Count(c) \/ CheckNonce(c) \/ CheckNext(c)
           \/ Store(c) \/ CacheRoot(c) \/ CacheZone(c)
    PROVE  SeqOK(blocks, headCache, calls'[c])
<1>. DEFINE k == calls[c]
            s == blocks
            h == headCache
            w == calls'[c]
            r == [k EXCEPT !.pc = "store"]
<1>0. /\ LinksBack(s) /\ CallOK(s, h, k) /\ SeqOK(s, h, k) /\ k \in Call
      /\ \A x \in Errs : Reject(x).pc = "idle"
  BY Facts, RejectTyped DEF Inv, SeqInv
<1>1. /\ r.pc = "store" /\ r.type = k.type /\ r.prev = k.prev /\ r.parent = k.parent
      /\ r.signer = k.signer /\ r.nonce = k.nonce
  BY <1>0 DEF Call
<1>2. CASE (\E e \in Errs : w = Reject(e)) \/ w = NewCall
  <2>1. w.pc = "idle" /\ k.pc # "publish"
    <3>1. k.pc # "publish"
      BY DEF Count, CheckNonce, CheckNext, Store, CacheRoot, CacheZone, At
    <3> QED
      BY <1>0, <1>2, <3>1, NewCallTyped
  <2> QED
    BY <1>0, <2>1, SeqQuiet
<1>3. ASSUME w = r,
             \/ k.pc = "count" /\ Len(s) = 0
             \/ k.pc = "nonce" /\ NewNonce(s, k)
             \/ k.pc = "checkNext"
      PROVE  SeqOK(s, h, w)
  <2>1. k.pc = "count" => k.parent = 0 /\ k.prev = 0
    BY <1>0 DEF CallOK, TopLevel
  <2>2. k.pc \in {"nonce", "checkNext"} => Active(s, Len(s), k) /\ k.parent # 0
    <3>1. k.pc \in {"nonce", "checkNext"} => k.parent \in DOMAIN s
      BY <1>0 DEF CallOK, Placed, Headed
    <3> QED
      BY <1>0, <3>1, Facts DEF SeqOK
  <2>3. /\ k.prev # 0 => k.pc = "count" \/ k.prev = h[RootIn(s, k.prev)]
        /\ k.pc = "checkNext" => k.prev # 0
    BY <1>0, <1>3 DEF SeqOK, Checks
  <2>4. /\ w.pc = "store" /\ k.pc # "publish" /\ w.prev = k.prev /\ w.parent = k.parent
        /\ w.type = k.type /\ w.signer = k.signer /\ w.nonce = k.nonce
    BY <1>1, <1>3
  <2>. HIDE DEF k, w, s, h, r
  <2>5. w.parent # 0 => Active(s, Len(s), w)
    BY <1>3, <2>1, <2>2, <2>4, SameActive
  <2>6. w.parent = 0 => Len(s) = 0
    BY <1>3, <2>2, <2>4
  <2>7. w.parent # 0 /\ w.prev = 0 => NewNonce(s, w)
    BY <1>3, <2>1, <2>3, <2>4 DEF NewNonce
  <2>8. w.prev # 0 => w.prev = h[RootIn(s, w.prev)]
    BY <1>3, <2>1, <2>3, <2>4
  <2> QED
    BY <1>0, <2>4, <2>5, <2>6, <2>7, <2>8, SeqKept DEF Checks
<1>4. CASE Count(c)
  <2>1. k.pc = "count" /\ (w = Reject("invalidRoot") \/ (w = r /\ ~RootRefused))
    BY <1>4, Facts DEF Count, At, Set, Goto
  <2>2. ~RootRefused => Len(s) = 0
    BY Facts DEF RootRefused
  <2> QED
    BY <1>2, <1>3, <2>1, <2>2 DEF Errs
<1>5. CASE CheckNext(c)
  BY <1>2, <1>3, <1>5, NextChecked DEF Errs
<1>6. CASE CheckNonce(c)
  <2>. DEFINE stored == {n \in DOMAIN blocks : IsChildRoot(n, k.parent)}
  <2>1. Seen(stored) = {stored}
    BY DEF OneCaller, Sequential, Seen
  <2>2. /\ k.pc = "nonce"
        /\ w = Reject("nonceAlreadyUsed") \/ (w = r /\ ~NonceUsed(stored, k.nonce))
    BY <1>6, <2>1, NonceChecked
  <2>3. ~NonceUsed(stored, k.nonce) => NewNonce(s, k)
    BY DEF NonceUsed, NewNonce, IsChildRoot
  <2> QED
    BY <1>2, <1>3, <2>2, <2>3 DEF Errs
<1>7. CASE Store(c)
  <2>1. CASE Len(blocks) < MaxBlocks
    <3>1. blocks' = Append(blocks, NewBlock(k)) /\ NewBlock(k) \in Block
      BY <1>0, <1>7, <2>1 DEF Store, NewBlock, Call, Block
    <3>2. Len(blocks') = Len(blocks) + 1 /\ Len(blocks) \in Nat
      BY <3>1, Facts, AppendProperties
    <3> QED
      BY <3>2
  <2>2. CASE ~ (Len(blocks) < MaxBlocks)
    <3>1. w = Reject("full")
      BY <1>7, <2>2, Facts DEF Store, Set
    <3> QED
      BY <1>2, <3>1 DEF Errs
  <2> QED
    BY <2>1, <2>2
<1>8. CASE CacheRoot(c) \/ CacheZone(c)
  <2>1. w = NewCall
    BY <1>8, Facts DEF CacheRoot, CacheZone, Set
  <2> QED
    BY <1>2, <2>1
<1> QED
  BY <1>4, <1>5, <1>6, <1>7, <1>8

LEMMA SeqInvStep ==
    ASSUME SecureAssumption, OneCaller, Inv, SeqInv, NEW c \in Calls, Start(c) \/ Continue(c)
    PROVE  SeqInv'
<1>0. OneRootIn(blocks) /\ ActiveIn(blocks) /\ NoncesIn(blocks) /\ \A d \in Calls : d = c
  BY DEF SeqInv, OneCaller
<1>1. /\ OneRootIn(blocks') /\ ActiveIn(blocks') /\ NoncesIn(blocks')
      /\ SeqOK(blocks', headCache', calls'[c])
  <2>1. CASE blocks' # blocks
    BY <2>1, SeqStore
  <2>2. CASE blocks' = blocks
    <3>1. SeqOK(blocks, headCache', calls'[c])
      <4>1. CASE Start(c)
        <5>1. headCache' = headCache
          BY <4>1 DEF Start, StartRoot, StartWrite, StartChild, StartAppend
        <5> QED
          BY <4>1, <5>1, SeqStart
      <4>2. CASE \E now \in Times : Seek(c, now)
        <5>1. headCache' = headCache
          BY <4>2 DEF Seek
        <5> QED
          BY <4>2, <5>1, SeqSeek
      <4>3. CASE Publish(c)
        BY <4>3, SeqPublish
      <4>4. CASE \/ Count(c) \/ CheckNonce(c) \/ CheckNext(c)
                 \/ Store(c) \/ CacheRoot(c) \/ CacheZone(c)
        <5>1. headCache' = headCache
          BY <4>4 DEF Count, CheckNonce, CheckNext, Store, CacheRoot, CacheZone
        <5> QED
          BY <2>2, <4>4, <5>1, SeqOther
      <4> QED
        BY <4>1, <4>2, <4>3, <4>4 DEF Continue
    <3> QED
      BY <1>0, <2>2, <3>1
  <2> QED
    BY <2>1, <2>2
<1> QED
  BY <1>0, <1>1 DEF SeqInv


LEMMA SeqInvariant ==
    ASSUME OneCaller
    PROVE  Spec => [](Inv /\ SeqInv)
<1>1. Init => SeqInv
  <2> SUFFICES ASSUME Init PROVE SeqInv
    OBVIOUS
  <2>1. /\ blocks = <<>> /\ calls = [c \in Calls |-> NewCall]
        /\ Len(blocks) = 0 /\ DOMAIN blocks = {}
    BY DEF Init
  <2>2. \A c \in Calls : calls[c].pc = "idle"
    BY <2>1, SecureAssumption, NewCallTyped
  <2>3. \A c \in Calls : SeqOK(blocks, headCache, calls[c])
    BY <2>1, <2>2 DEF SeqOK, Checks
  <2> QED
    BY <2>1, <2>3 DEF SeqInv, OneRootIn, ActiveIn, NoncesIn
<1>2. Inv /\ SeqInv /\ [Next]_vars => SeqInv'
  <2>1. ASSUME SeqInv, UNCHANGED vars PROVE SeqInv'
    <3>1. blocks' = blocks /\ headCache' = headCache /\ calls' = calls
      BY <2>1 DEF vars
    <3> QED
      BY <2>1, <3>1 DEF SeqInv
  <2> QED
    BY <2>1, SecureAssumption, SeqInvStep DEF Next
<1> QED
  BY <1>1, <1>2, Invariant, PTL DEF Spec

(* One caller: the tree has one root, because the count of the blocks is   *)
(* still 0 when the root is stored.                                        *)
THEOREM OneRootPerTree ==
    ASSUME OneCaller
    PROVE  Spec => []SingleRoot
<1>1. SeqInv => SingleRoot
  BY DEF SeqInv, OneRootIn, SingleRoot
<1> QED
  BY <1>1, SeqInvariant, PTL

(* One caller: no signature is copied between the children of a block; the *)
(* answer of performChildScan misses no child, from the storage or from    *)
(* the cache.                                                              *)
THEOREM NoncesAreNew ==
    ASSUME OneCaller
    PROVE  Spec => []SiblingNoncesDiffer
<1>1. SeqInv => SiblingNoncesDiffer
  BY DEF SeqInv, NoncesIn, SiblingNoncesDiffer
<1> QED
  BY <1>1, SeqInvariant, PTL

(* One caller: every block was authorised by the blocks before it.  In     *)
(* some chain at or above its place the newest entry about its signer had  *)
(* a window that may be open: the scan that found it started at the last   *)
(* block of the chain, so no revocation was passed over.                   *)
THEOREM SignersAreActive ==
    ASSUME OneCaller
    PROVE  Spec => []SignersActive
<1>1. ASSUME SeqInv, NEW b \in DOMAIN blocks, blocks[b].parent # 0
      PROVE  \E r \in Above(SignedUnder(b)) :
                LET entries == EntriesBefore(b, r, blocks[b].signer) IN
                entries # {} /\ EverActive(Max(entries))
  <2>. DEFINE k == blocks[b]
              at == SignedAt(k)
  <2>1. Active(blocks, b - 1, k)
    BY <1>1 DEF SeqInv, ActiveIn
  <2>2. PICK r \in AboveIn(blocks, at) :
            NewestActive(blocks, EntriesOf(blocks, b - 1, r, k.signer))
    BY <2>1 DEF Active
  <2>3. at = SignedUnder(b)
    BY DEF SignedAt, SignedUnder
  <2>4. r \in Above(SignedUnder(b))
    BY <2>2, <2>3, WalksIn
  <2>5. EntriesBefore(b, r, k.signer) = EntriesOf(blocks, b - 1, r, k.signer)
    BY WalksIn DEF EntriesBefore, EntriesOf
  <2> QED
    BY <2>2, <2>4, <2>5 DEF NewestActive, EverActive, Newest
<1>2. SeqInv => SignersActive
  BY <1>1 DEF SignersActive
<1> QED
  BY <1>2, SeqInvariant, PTL
=============================================================================
