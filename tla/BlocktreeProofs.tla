--------------------------- MODULE BlocktreeProofs ---------------------------
(***************************************************************************)
(* Proofs about Blocktree, for every number of calls, every storage size   *)
(* and every environment the assumption allows.                            *)
(***************************************************************************)
EXTENDS Blocktree, LeastNumber, SequenceTheorems

(***************************************************************************)
(* What a scan finds.                                                      *)
(***************************************************************************)
Found(s, S) ==
    LET found[i \in 0 .. Len(s)] ==
            IF i = 0 THEN <<>>
            ELSE IF s[i] \in S THEN Append(found[i - 1], s[i]) ELSE found[i - 1]
    IN  found

LEMMA FoundStep ==
    ASSUME NEW T, NEW s \in Seq(T), NEW S
    PROVE  /\ Found(s, S)[0] = <<>>
           /\ \A i \in 1 .. Len(s) :
                 Found(s, S)[i] = IF s[i] \in S THEN Append(Found(s, S)[i - 1], s[i])
                                  ELSE Found(s, S)[i - 1]
           /\ Matching(s, S) = Found(s, S)[Len(s)]
           /\ Len(s) \in Nat
<1>. DEFINE Body(f) == [i \in 0 .. Len(s) |->
                          IF i = 0 THEN <<>>
                          ELSE IF s[i] \in S THEN Append(f[i - 1], s[i]) ELSE f[i - 1]]
            step == [i \in 1 .. Len(s) |->
                       [v \in Seq(T) |-> IF s[i] \in S THEN Append(v, s[i]) ELSE v]]
            found[i \in 0 .. Len(s)] ==
                IF i = 0 THEN <<>>
                ELSE IF s[i] \in S THEN Append(found[i - 1], s[i]) ELSE found[i - 1]
<1>0. Len(s) \in Nat /\ \A i \in 1 .. Len(s) : s[i] \in T
  OBVIOUS
<1>1. step \in [1 .. Len(s) -> [Seq(T) -> Seq(T)]]
  <2>1. ASSUME NEW i \in 1 .. Len(s), NEW v \in Seq(T)
        PROVE  (IF s[i] \in S THEN Append(v, s[i]) ELSE v) \in Seq(T)
    <3>1. s[i] \in T
      BY <1>0
    <3> QED
      BY <3>1, AppendProperties
  <2> QED
    BY <2>1
<1>2. PICK f \in [0 .. Len(s) -> Seq(T)] :
          f[0] = <<>> /\ \A i \in 1 .. Len(s) : f[i] = step[i][f[i - 1]]
  <2>. DEFINE first == <<>>
              V == Seq(T)
              N == Len(s)
  <2>1. first \in V /\ N \in Nat /\ step \in [1 .. N -> [V -> V]]
    BY <1>0, <1>1
  <2>. HIDE DEF step, first, V, N
  <2>2. \E f \in [0 .. N -> V] : IsFold(f, N, first, step)
    BY <2>1, FoldExists
  <2> QED
    BY <2>2 DEF first, V, N, IsFold
<1>3. f = Body(f)
  <2>1. ASSUME NEW i \in 0 .. Len(s) PROVE f[i] = Body(f)[i]
    <3>1. CASE i = 0
      BY <1>2, <3>1
    <3>2. CASE i # 0
      <4>1. i \in 1 .. Len(s) /\ i - 1 \in 0 .. Len(s)
        BY <1>0, <3>2
      <4>2. f[i - 1] \in Seq(T) /\ f[i] = step[i][f[i - 1]]
        BY <1>2, <4>1
      <4> QED
        BY <3>2, <4>1, <4>2
    <3> QED
      BY <3>1, <3>2
  <2>2. DOMAIN f = 0 .. Len(s) /\ DOMAIN Body(f) = 0 .. Len(s)
    OBVIOUS
  <2> QED
    BY <2>1, <2>2
<1>4. found = Body(found)
  BY <1>3 DEF found
<1>5. Found(s, S) = found
  BY DEF Found
<1>6. Matching(s, S) = found[Len(s)]
  BY DEF Matching
<1>. HIDE DEF found
<1>7. found[0] = <<>>
  BY <1>0, <1>4
<1>8. ASSUME NEW i \in 1 .. Len(s)
      PROVE  found[i] = IF s[i] \in S THEN Append(found[i - 1], s[i]) ELSE found[i - 1]
  <2>1. i \in 0 .. Len(s) /\ i # 0
    BY <1>0
  <2> QED
    BY <1>4, <2>1
<1> QED
  BY <1>0, <1>5, <1>6, <1>7, <1>8

(* The scan of a longer sequence starts with the scan of the shorter one.  *)
LEMMA MatchingAppend ==
    ASSUME NEW T, NEW s \in Seq(T), NEW x \in T, NEW S
    PROVE  Matching(Append(s, x), S) =
               IF x \in S THEN Append(Matching(s, S), x) ELSE Matching(s, S)
<1>. DEFINE t == Append(s, x)
            Same == {i \in 1 .. Len(s) : Found(t, S)[i] = Found(s, S)[i]}
<1>0. /\ t \in Seq(T) /\ Len(t) = Len(s) + 1 /\ Len(s) \in Nat
      /\ t[Len(t)] = x /\ \A i \in 1 .. Len(s) : t[i] = s[i]
  BY AppendProperties
<1>. HIDE DEF t
<1>1. ASSUME NEW i \in 1 .. Len(s), \A m \in 1 .. i - 1 : m \in Same
      PROVE  i \in Same
  <2>1. Found(t, S)[i - 1] = Found(s, S)[i - 1]
    <3>1. CASE i = 1
      BY <1>0, <3>1, FoundStep
    <3>2. CASE i # 1
      <4>1. i - 1 \in 1 .. i - 1
        BY <3>2
      <4> QED
        BY <1>1, <4>1
    <3> QED
      BY <3>1, <3>2
  <2>2. i \in 1 .. Len(t) /\ t[i] = s[i]
    BY <1>0
  <2>3. Found(t, S)[i] = Found(s, S)[i]
    BY <1>0, <2>1, <2>2, FoundStep
  <2> QED
    BY <2>3
<1>2. \A i \in 1 .. Len(s) : i \in Same
  <2>. HIDE DEF Same
  <2> QED
    BY <1>0, <1>1, InductionUpTo
<1>3. Found(t, S)[Len(s)] = Found(s, S)[Len(s)]
  <2>1. CASE Len(s) = 0
    <3>1. Found(t, S)[0] = <<>> /\ Found(s, S)[0] = <<>>
      BY <1>0, FoundStep
    <3> QED
      BY <2>1, <3>1
  <2>2. CASE Len(s) # 0
    <3>1. Len(s) \in 1 .. Len(s)
      BY <1>0, <2>2
    <3> QED
      BY <1>2, <3>1
  <2> QED
    BY <2>1, <2>2
<1>4. Matching(t, S) = Found(t, S)[Len(t)] /\ Matching(s, S) = Found(s, S)[Len(s)]
  BY <1>0, FoundStep
<1>5. Len(t) \in 1 .. Len(t) /\ Len(t) - 1 = Len(s)
  BY <1>0
<1>6. Found(t, S)[Len(t)] = IF x \in S THEN Append(Found(t, S)[Len(s)], x)
                            ELSE Found(t, S)[Len(s)]
  BY <1>0, <1>5, FoundStep
<1> QED
  BY <1>3, <1>4, <1>6 DEF t

LEMMA MatchingEmpty ==
    ASSUME NEW S
    PROVE  Matching(<<>>, S) = <<>>
<1>. DEFINE e == <<>>
<1>1. e \in Seq({}) /\ Len(e) = 0
  OBVIOUS
<1>. HIDE DEF e
<1>2. Found(e, S)[0] = <<>> /\ Matching(e, S) = Found(e, S)[Len(e)]
  BY <1>1, FoundStep
<1> QED
  BY <1>1, <1>2 DEF e

(* A scan finds only what it looks for. *)
LEMMA MatchingFinds ==
    ASSUME NEW T, NEW s \in Seq(T), NEW S
    PROVE  \A i \in 0 .. Len(s) : Found(s, S)[i] \in Seq(T \cap S)
<1>. DEFINE Good == {i \in 1 .. Len(s) : Found(s, S)[i] \in Seq(T \cap S)}
<1>0. Found(s, S)[0] \in Seq(T \cap S) /\ Len(s) \in Nat
  <2>1. Found(s, S)[0] = <<>> /\ Len(s) \in Nat
    BY FoundStep
  <2> QED
    BY <2>1
<1>1. ASSUME NEW i \in 1 .. Len(s), \A m \in 1 .. i - 1 : m \in Good
      PROVE  i \in Good
  <2>1. Found(s, S)[i - 1] \in Seq(T \cap S)
    <3>1. CASE i = 1
      BY <1>0, <3>1
    <3>2. CASE i # 1
      <4>1. i - 1 \in 1 .. i - 1
        BY <3>2
      <4> QED
        BY <1>1, <4>1
    <3> QED
      BY <3>1, <3>2
  <2>2. Found(s, S)[i] = IF s[i] \in S THEN Append(Found(s, S)[i - 1], s[i])
                         ELSE Found(s, S)[i - 1]
    BY FoundStep
  <2>3. Found(s, S)[i] \in Seq(T \cap S)
    <3>1. CASE s[i] \in S
      <4>1. s[i] \in T \cap S
        BY <3>1
      <4> QED
        BY <2>1, <2>2, <3>1, <4>1, AppendProperties
    <3>2. CASE s[i] \notin S
      BY <2>1, <2>2, <3>2
    <3> QED
      BY <3>1, <3>2
  <2> QED
    BY <2>3
<1>2. \A i \in 1 .. Len(s) : i \in Good
  <2>. HIDE DEF Good
  <2> QED
    BY <1>0, <1>1, InductionUpTo
<1> QED
  BY <1>0, <1>2

LEMMA MatchingMembers ==
    ASSUME NEW T, NEW s \in Seq(T), NEW S
    PROVE  Matching(s, S) \in Seq(T \cap S)
<1>1. Len(s) \in 0 .. Len(s) /\ Matching(s, S) = Found(s, S)[Len(s)]
  BY FoundStep
<1> QED
  BY <1>1, MatchingFinds

(* A scan of what a scan found looks for both. *)
LEMMA MatchingTwice ==
    ASSUME NEW T, NEW s \in Seq(T), NEW S, NEW U
    PROVE  Matching(Matching(s, S), U) = Matching(s, S \cap U)
<1>. DEFINE Both == S \cap U
            Holds(i) == Matching(Found(s, S)[i], U) = Found(s, Both)[i]
            Good == {i \in 1 .. Len(s) : Holds(i)}
<1>0. Holds(0) /\ Len(s) \in Nat
  BY FoundStep, MatchingEmpty
<1>1. ASSUME NEW i \in 1 .. Len(s), Holds(i - 1)
      PROVE  Holds(i)
  <2>. DEFINE before == Found(s, S)[i - 1]
  <2>1. before \in Seq(T) /\ s[i] \in T
    <3>1. i - 1 \in 0 .. Len(s)
      BY <1>0
    <3>2. before \in Seq(T \cap S)
      BY <3>1, MatchingFinds
    <3> QED
      BY <3>2
  <2>2. Found(s, S)[i] = IF s[i] \in S THEN Append(before, s[i]) ELSE before
    BY FoundStep
  <2>3. Found(s, Both)[i] = IF s[i] \in Both THEN Append(Found(s, Both)[i - 1], s[i])
                            ELSE Found(s, Both)[i - 1]
    BY FoundStep
  <2>4. Matching(Append(before, s[i]), U) =
            IF s[i] \in U THEN Append(Matching(before, U), s[i]) ELSE Matching(before, U)
    <3>. HIDE DEF before
    <3>1. PICK x \in T : x = s[i]
      BY <2>1
    <3>2. Matching(Append(before, x), U) =
              IF x \in U THEN Append(Matching(before, U), x) ELSE Matching(before, U)
      BY <2>1, MatchingAppend
    <3> QED
      BY <3>1, <3>2
  <2>. HIDE DEF before
  <2> QED
    BY <1>1, <2>2, <2>3, <2>4 DEF before
<1>. HIDE DEF Holds
<1>2. ASSUME NEW i \in 1 .. Len(s), \A m \in 1 .. i - 1 : m \in Good
      PROVE  i \in Good
  <2>1. CASE i = 1
    <3>1. i - 1 = 0
      BY <2>1
    <3> QED
      BY <1>0, <1>1, <3>1
  <2>2. CASE i # 1
    <3>1. i - 1 \in 1 .. i - 1
      BY <2>2
    <3> QED
      BY <1>1, <1>2, <3>1
  <2> QED
    BY <2>1, <2>2
<1>3. \A i \in 1 .. Len(s) : i \in Good
  <2>. HIDE DEF Good
  <2> QED
    BY <1>0, <1>2, InductionUpTo
<1>4. Holds(Len(s))
  <2>1. CASE Len(s) = 0
    BY <1>0, <2>1
  <2>2. CASE Len(s) # 0
    <3>1. Len(s) \in 1 .. Len(s)
      BY <1>0, <2>2
    <3> QED
      BY <1>3, <3>1
  <2> QED
    BY <2>1, <2>2
<1> QED
  BY <1>4, FoundStep DEF Holds

(* Two scans that agree on the members of s find the same.                 *)
LEMMA MatchingSame ==
    ASSUME NEW T, NEW s \in Seq(T), NEW S, NEW U,
           \A x \in T : x \in S <=> x \in U
    PROVE  Matching(s, S) = Matching(s, U)
<1>. DEFINE Holds(i) == Found(s, S)[i] = Found(s, U)[i]
            Good == {i \in 1 .. Len(s) : Holds(i)}
<1>0. Holds(0) /\ Len(s) \in Nat
  BY FoundStep
<1>1. ASSUME NEW i \in 1 .. Len(s), Holds(i - 1)
      PROVE  Holds(i)
  BY <1>1, FoundStep
<1>. HIDE DEF Holds
<1>2. ASSUME NEW i \in 1 .. Len(s), \A m \in 1 .. i - 1 : m \in Good
      PROVE  i \in Good
  <2>1. CASE i = 1
    <3>1. i - 1 = 0
      BY <2>1
    <3> QED
      BY <1>0, <1>1, <3>1
  <2>2. CASE i # 1
    <3>1. i - 1 \in 1 .. i - 1
      BY <2>2
    <3> QED
      BY <1>1, <1>2, <3>1
  <2> QED
    BY <2>1, <2>2
<1>3. \A i \in 1 .. Len(s) : i \in Good
  <2>. HIDE DEF Good
  <2> QED
    BY <1>0, <1>2, InductionUpTo
<1>4. Holds(Len(s))
  <2>1. CASE Len(s) = 0
    BY <1>0, <2>1
  <2>2. CASE Len(s) # 0
    <3>1. Len(s) \in 1 .. Len(s)
      BY <1>0, <2>2
    <3> QED
      BY <1>3, <3>1
  <2> QED
    BY <2>1, <2>2
<1> QED
  BY <1>4, FoundStep DEF Holds

(***************************************************************************)
(* The invariant.  TypeOK and ChildCacheSound are not inductive: what a    *)
(* push or a fill does to the cache depends on what its call still knows.  *)
(***************************************************************************)
Place    == 1 .. MaxBlocks
Scanning == {"readChildren", "scanChildren", "fillChildren"}
Checked  == {"layer1", "store"}

(* Every block links to earlier blocks, to none, or to one nobody stored.  *)
LinksBack(s) ==
    \A b \in DOMAIN s : /\ s[b].prev \in 0 .. b - 1 \cup {Unknown}
                        /\ s[b].parent \in 0 .. b - 1 \cup {Unknown}

(* With validated writes there is no block nobody stored. *)
LinksStored(s, options) ==
    "noValidate" \notin options =>
        \A b \in DOMAIN s : s[b].prev # Unknown /\ s[b].parent # Unknown

(* The members of a list of children of b. *)
Children(s, list, b) == \A n \in Range(list) : n \in DOMAIN s /\ s[n].parent = b

CallOK(s, options, k) ==
    /\ k.pc \in Checked =>
          /\ k.opt \in options
          /\ k.prev \in DOMAIN s \cup {0, Unknown}
          /\ k.parent \in DOMAIN s \cup {0, Unknown}
          /\ k.opt # "noValidate" => k.parent \in DOMAIN s \cup {0}
    /\ k.pc = "store" /\ k.opt # "noValidate" => k.prev \in DOMAIN s \cup {0}
    /\ k.pc = "push" =>
          k.block \in DOMAIN s /\ s[k.block].parent = k.parent /\ k.parent \in Hash
    /\ k.pc \in Scanning => k.parent \in Hash
    /\ k.pc = "fillChildren" => Children(s, k.list, k.parent)

CacheOK(s, cache) == \A b \in Hash : Children(s, cache[b].list, b)

Inv ==
    /\ TypeOK /\ LinksBack(blocks) /\ LinksStored(blocks, env.options)
    /\ \A c \in Calls : CallOK(blocks, env.options, calls[c])
    /\ CacheOK(blocks, childCache)

LEMMA Facts ==
    ASSUME BlocktreeAssumption, TypeOK
    PROVE  /\ blocks \in Seq(Block) /\ Len(blocks) \in Nat /\ MaxBlocks \in Nat
           /\ Len(blocks) <= MaxBlocks
           /\ DOMAIN blocks = 1 .. Len(blocks)
           /\ DOMAIN blocks \subseteq Place /\ Place \subseteq Hash
           /\ 0 \notin Hash /\ Unknown \in Hash /\ Unknown \notin Place
           /\ \A b \in DOMAIN blocks : blocks[b] \in Block
           /\ DOMAIN calls = Calls /\ env.callers \subseteq Calls
           /\ env.options \subseteq {"default", "noValidate"}
<1>1. /\ blocks \in Seq(Block) /\ Len(blocks) \in Nat /\ MaxBlocks \in Nat \ {0}
      /\ Len(blocks) <= MaxBlocks /\ DOMAIN blocks = 1 .. Len(blocks)
      /\ \A b \in DOMAIN blocks : blocks[b] \in Block
      /\ DOMAIN calls = Calls
  BY DEF TypeOK, BlocktreeAssumption
<1>2. DOMAIN blocks \subseteq Place /\ Place \subseteq Hash
      /\ 0 \notin Hash /\ Unknown \in Hash /\ Unknown \notin Place
  BY <1>1 DEF Place, Hash, Unknown
<1>3. env \in [callers : SUBSET Calls, options : SUBSET {"default", "noValidate"}]
  BY DEF TypeOK, BlocktreeAssumption
<1> QED
  BY <1>1, <1>2, <1>3

LEMMA RangeOfAppend ==
    ASSUME NEW T, NEW l \in Seq(T), NEW x \in T
    PROVE  \A n \in Range(Append(l, x)) : n = x \/ n \in Range(l)
<1>1. /\ Len(Append(l, x)) = Len(l) + 1 /\ Append(l, x) \in Seq(T) /\ Len(l) \in Nat
      /\ \A i \in 1 .. Len(l) : Append(l, x)[i] = l[i]
      /\ Append(l, x)[Len(l) + 1] = x
  BY AppendProperties
<1>2. DOMAIN Append(l, x) = 1 .. Len(l) + 1 /\ DOMAIN l = 1 .. Len(l)
  BY <1>1
<1> QED
  BY <1>1, <1>2 DEF Range

(* The scan for the children of b. *)
LEMMA ChildRootsFound ==
    ASSUME BlocktreeAssumption, TypeOK, NEW b
    PROVE  /\ ChildRoots(b) \in Seq(Place)
           /\ Children(blocks, ChildRoots(b), b)
<1>. DEFINE all == [n \in DOMAIN blocks |-> n]
            S == {n \in DOMAIN blocks : IsChildRoot(n, b)}
<1>1. all \in Seq(DOMAIN blocks)
  BY Facts
<1>2. ChildRoots(b) \in Seq(DOMAIN blocks \cap S)
  <2>. HIDE DEF S, all
  <2>1. Matching(all, S) \in Seq(DOMAIN blocks \cap S)
    BY <1>1, MatchingMembers
  <2> QED
    BY <2>1 DEF ChildRoots, S, all
<1>3. DOMAIN blocks \cap S \subseteq Place
  BY Facts
<1>4. \A i \in DOMAIN ChildRoots(b) : ChildRoots(b)[i] \in S
  BY <1>2
<1> QED
  BY <1>2, <1>3, <1>4 DEF Children, IsChildRoot, Range

(* A list of children stays one as the storage grows. *)
LEMMA CallOKStable ==
    ASSUME NEW s, NEW t, NEW options, NEW k, CallOK(s, options, k),
           \A b \in DOMAIN s : b \in DOMAIN t /\ t[b] = s[b]
    PROVE  CallOK(t, options, k)
BY DEF CallOK, Children

LEMMA CacheOKStable ==
    ASSUME NEW s, NEW t, NEW cache, CacheOK(s, cache),
           \A b \in DOMAIN s : b \in DOMAIN t /\ t[b] = s[b]
    PROVE  CacheOK(t, cache)
BY DEF CacheOK, Children

(* What a step does to the storage. *)
LEMMA StoreGrows ==
    ASSUME BlocktreeAssumption, TypeOK, NEW c \in Calls, Start(c) \/ Continue(c)
    PROVE  \/ blocks' = blocks
           \/ /\ Layer1Store(c) /\ Len(blocks) < MaxBlocks
              /\ blocks' \in Seq(Block) /\ Len(blocks') = Len(blocks) + 1
              /\ DOMAIN blocks' = 1 .. Len(blocks) + 1
              /\ \A b \in DOMAIN blocks : b \in DOMAIN blocks' /\ blocks'[b] = blocks[b]
              /\ blocks'[Len(blocks) + 1] =
                    [prev |-> calls[c].prev, parent |-> calls[c].parent]
<1>1. CASE Layer1Store(c) /\ Len(blocks) < MaxBlocks
  <2>. DEFINE e == [prev |-> calls[c].prev, parent |-> calls[c].parent]
  <2>1. blocks' = Append(blocks, e) /\ e \in Block
    BY <1>1 DEF Layer1Store, TypeOK, Call, Block
  <2>2. /\ blocks' \in Seq(Block) /\ Len(blocks') = Len(blocks) + 1
        /\ \A b \in 1 .. Len(blocks) : blocks'[b] = blocks[b]
        /\ blocks'[Len(blocks) + 1] = e
    BY <2>1, Facts, AppendProperties
  <2>3. DOMAIN blocks' = 1 .. Len(blocks) + 1 /\ DOMAIN blocks = 1 .. Len(blocks)
        /\ Len(blocks) \in Nat
    BY <2>2, Facts
  <2> QED
    BY <1>1, <2>2, <2>3
<1>2. CASE ~ (Layer1Store(c) /\ Len(blocks) < MaxBlocks)
  BY <1>2 DEF Start, StartWrite, StartScan, Continue, Layer1Check, Layer1Store, Push,
              ReadChildren, ScanChildren, FillChildren
<1> QED
  BY <1>1, <1>2

LEMMA IdleOK ==
    ASSUME NEW s, NEW options, NEW k, k.pc = "idle"
    PROVE  CallOK(s, options, k)
BY DEF CallOK, Checked, Scanning

LEMMA NewCallTyped == NewCall \in Call /\ NewCall.pc = "idle"
<1>1. <<>> \in Seq(1 .. MaxBlocks)
  OBVIOUS
<1> QED
  BY <1>1 DEF NewCall, Call, Ops, PCs, Errs

LEMMA EndTyped ==
    ASSUME NEW k \in Call, NEW e \in Errs
    PROVE  /\ Return(k) \in Call /\ Return(k).pc = "idle"
           /\ Reject(k, e) \in Call /\ Reject(k, e).pc = "idle"
BY NewCallTyped DEF Return, Reject, Call

(* The stretch a call runs leaves its state well typed and true. *)
LEMMA OwnCallOK ==
    ASSUME BlocktreeAssumption, Inv, NEW c \in Calls, Start(c) \/ Continue(c)
    PROVE  calls'[c] \in Call /\ CallOK(blocks', env.options, calls'[c])
<1>. DEFINE k == calls[c]
            good(r) == r \in Call /\ CallOK(blocks', env.options, r)
<1>0. /\ TypeOK /\ k \in Call /\ CallOK(blocks, env.options, k)
      /\ DOMAIN calls = Calls
  BY DEF Inv, TypeOK
<1>a. \A r : Set(c, r) => calls'[c] = r
  BY <1>0 DEF Set
<1>b. \A r \in Call : good(Return(r))
  BY EndTyped, IdleOK DEF Errs
<1>c. \A r \in Call, e \in Errs : good(Reject(r, e))
  BY EndTyped, IdleOK
<1>1. ASSUME NEW prev \in DOMAIN blocks \cup {0, Unknown},
             NEW parent \in DOMAIN blocks \cup {0, Unknown},
             NEW o \in env.options, StartWrite(c, prev, parent, o)
      PROVE  good(calls'[c])
  <2>. DEFINE r == [NewCall EXCEPT !.op = "write", !.pc = "layer1", !.opt = o,
                                   !.prev = prev, !.parent = parent]
  <2>1. /\ prev \in Hash \cup {0} /\ parent \in Hash \cup {0}
        /\ o \in {"default", "noValidate"}
    BY <1>0, Facts
  <2>2. /\ r.pc = "layer1" /\ r.opt = o /\ r.prev = prev /\ r.parent = parent
    BY NewCallTyped DEF Call
  <2>3. r \in Call
    BY <2>1, NewCallTyped DEF Call, Ops, PCs
  <2>4. /\ calls'[c] = IF ParentRefused(parent, o) THEN Reject(r, "invalidParentBlock")
                       ELSE r
        /\ blocks' = blocks
    BY <1>1, <1>a DEF StartWrite
  <2>5. CASE ParentRefused(parent, o)
    BY <1>c, <2>3, <2>4, <2>5 DEF Errs
  <2>6. CASE ~ ParentRefused(parent, o)
    <3>2. o # "noValidate" => parent \in DOMAIN blocks \cup {0}
      BY <2>6 DEF ParentRefused, IsStored
    <3>. HIDE DEF r
    <3>3. CallOK(blocks, env.options, r)
      BY <2>2, <3>2 DEF CallOK, Checked, Scanning
    <3> QED
      BY <2>3, <2>4, <2>6, <3>3
  <2> QED
    BY <2>5, <2>6
<1>2. ASSUME NEW b \in DOMAIN blocks, StartScan(c, b)
      PROVE  good(calls'[c])
  <2>. DEFINE r == [NewCall EXCEPT !.op = "scan", !.pc = "readChildren", !.parent = b]
  <2>1. calls'[c] = r /\ b \in Hash
    BY <1>0, <1>2, <1>a, Facts DEF StartScan
  <2>2. r.pc = "readChildren" /\ r.parent = b
    BY NewCallTyped DEF Call
  <2>3. r \in Call
    BY <2>1, NewCallTyped DEF Call, Ops, PCs
  <2>4. CallOK(blocks', env.options, r)
    <3>1. r.pc = "readChildren" /\ r.parent \in Hash
      BY <2>1, <2>2
    <3>. HIDE DEF r
    <3> QED
      BY <3>1 DEF CallOK, Checked, Scanning
  <2> QED
    BY <2>1, <2>3, <2>4
<1>3. CASE Layer1Check(c)
  <2>1. /\ \/ calls'[c] = Reject(k, "prevRefused")
           \/ /\ calls'[c] = [k EXCEPT !.pc = "store"]
              /\ k.opt # "noValidate" => k.prev \in DOMAIN blocks \cup {0}
        /\ blocks' = blocks /\ k.pc = "layer1"
    BY <1>3, <1>a DEF Layer1Check, At, ChecksPrev, IsStored
  <2>2. CASE calls'[c] = Reject(k, "prevRefused")
    BY <1>0, <1>c, <2>1, <2>2 DEF Errs
  <2>3. CASE calls'[c] # Reject(k, "prevRefused")
    <3>. DEFINE r == [k EXCEPT !.pc = "store"]
    <3>1. r \in Call /\ r.pc = "store" /\ r.opt = k.opt /\ r.prev = k.prev /\ r.parent = k.parent
      BY <1>0 DEF Call, PCs
    <3>2. calls'[c] = r /\ (k.opt # "noValidate" => k.prev \in DOMAIN blocks \cup {0})
      BY <2>1, <2>3
    <3>. HIDE DEF r
    <3>3. CallOK(blocks, env.options, r)
      BY <1>0, <2>1, <3>1, <3>2 DEF CallOK, Checked, Scanning
    <3> QED
      BY <2>1, <3>1, <3>2, <3>3
  <2> QED
    BY <2>2, <2>3
<1>4. CASE Layer1Store(c)
  <2>. DEFINE w == [k EXCEPT !.block = Len(blocks) + 1, !.pc = "push"]
  <2>1. CASE ~ (Len(blocks) < MaxBlocks)
    BY <1>0, <1>4, <1>a, <1>c, <2>1 DEF Layer1Store, Errs
  <2>2. CASE Len(blocks) < MaxBlocks
    <3>. DEFINE missing == ChecksPrev(k) /\ ~ChainValid(k.prev)
    <3>1. calls'[c] = (IF missing THEN Reject(k, "notFound")
                       ELSE IF k.parent = 0 THEN Return(w) ELSE w) /\ k.pc = "store"
      BY <1>4, <1>a, <2>2 DEF Layer1Store, At
    <3>. HIDE DEF missing
    <3>2. Len(blocks) + 1 \in Nat
      BY <1>0, Facts
    <3>3. /\ w \in Call /\ w.pc = "push" /\ w.block = Len(blocks) + 1
          /\ w.parent = k.parent
      BY <1>0, <3>2 DEF Call, PCs
    <3>4. CASE missing \/ k.parent = 0
      BY <1>0, <1>b, <1>c, <3>1, <3>3, <3>4 DEF Errs
    <3>5. CASE ~missing /\ k.parent # 0
      <4>1. k.parent \in Hash
        BY <1>0, <3>5 DEF Call
      <4>2. /\ Len(blocks) + 1 \in DOMAIN blocks'
            /\ blocks'[Len(blocks) + 1] = [prev |-> k.prev, parent |-> k.parent]
        <5>1. Len(blocks') # Len(blocks)
          BY <1>0, <1>4, <2>2, Facts, AppendProperties DEF Layer1Store, Call, Block
        <5>2. DOMAIN blocks' = 1 .. Len(blocks) + 1 => Len(blocks) + 1 \in DOMAIN blocks'
          BY <1>0, Facts
        <5> QED
          BY <1>0, <1>4, <5>1, <5>2, StoreGrows
      <4>. HIDE DEF w
      <4>3. CallOK(blocks', env.options, w)
        BY <3>3, <4>1, <4>2 DEF CallOK, Checked, Scanning
      <4> QED
        BY <3>1, <3>3, <3>5, <4>3
    <3> QED
      BY <3>4, <3>5
  <2> QED
    BY <2>1, <2>2
<1>5. CASE Push(c)
  BY <1>0, <1>5, <1>a, <1>b DEF Push
<1>6. CASE ReadChildren(c)
  <2>. DEFINE entry == childCache[k.parent]
              r == [k EXCEPT !.list = entry.list]
  <2>0. k.pc = "readChildren" /\ k.parent \in Hash /\ blocks' = blocks
    BY <1>0, <1>6 DEF ReadChildren, At, CallOK, Scanning
  <2>1. CASE entry.cached
    <3>1. entry.list \in Seq(1 .. MaxBlocks)
      BY <1>0, <2>0 DEF TypeOK
    <3>2. r \in Call
      BY <1>0, <3>1 DEF Call
    <3>3. calls'[c] = Return(r)
      BY <1>6, <1>a, <2>1 DEF ReadChildren
    <3> QED
      BY <1>b, <3>2, <3>3
  <2>2. CASE ~ entry.cached
    <3>1. calls'[c] = [k EXCEPT !.pc = "scanChildren"]
      BY <1>6, <1>a, <2>2 DEF ReadChildren
    <3> QED
      BY <1>0, <2>0, <3>1 DEF CallOK, Call, PCs, Checked, Scanning
  <2> QED
    BY <2>1, <2>2
<1>7. CASE ScanChildren(c)
  <2>1. /\ calls'[c] = [k EXCEPT !.pc = "fillChildren", !.list = ChildRoots(k.parent)]
        /\ k.pc = "scanChildren" /\ k.parent \in Hash /\ blocks' = blocks
    BY <1>0, <1>7, <1>a DEF ScanChildren, At, CallOK, Scanning
  <2>2. /\ ChildRoots(k.parent) \in Seq(1 .. MaxBlocks)
        /\ Children(blocks, ChildRoots(k.parent), k.parent)
    BY <1>0, ChildRootsFound DEF Place
  <2>3. ASSUME NEW l \in Seq(1 .. MaxBlocks), Children(blocks, l, k.parent)
        PROVE  /\ [k EXCEPT !.pc = "fillChildren", !.list = l] \in Call
               /\ CallOK(blocks, env.options, [k EXCEPT !.pc = "fillChildren", !.list = l])
    <3>. DEFINE r == [k EXCEPT !.pc = "fillChildren", !.list = l]
    <3>1. /\ r \in Call /\ r.pc = "fillChildren" /\ r.list = l /\ r.parent = k.parent
      BY <1>0 DEF Call, PCs
    <3>. HIDE DEF r
    <3>2. CallOK(blocks, env.options, r)
      BY <2>1, <2>3, <3>1 DEF CallOK, Checked, Scanning
    <3> QED
      BY <3>1, <3>2 DEF r
  <2> QED
    BY <2>1, <2>2, <2>3
<1>8. CASE FillChildren(c)
  BY <1>0, <1>8, <1>a, <1>b DEF FillChildren
<1>9. CASE Start(c)
  <2>1. CASE \E prev, parent \in DOMAIN blocks \cup {0, Unknown}, o \in env.options :
                StartWrite(c, prev, parent, o)
    <3>1. PICK prev \in DOMAIN blocks \cup {0, Unknown},
               parent \in DOMAIN blocks \cup {0, Unknown},
               o \in env.options : StartWrite(c, prev, parent, o)
      BY <2>1
    <3> QED
      BY <1>1, <3>1
  <2>2. CASE \E b \in DOMAIN blocks : StartScan(c, b)
    BY <1>2, <2>2
  <2> QED
    BY <1>9, <2>1, <2>2 DEF Start
<1>10. CASE Continue(c)
  BY <1>3, <1>4, <1>5, <1>6, <1>7, <1>8, <1>10 DEF Continue
<1> QED
  BY <1>9, <1>10

(* Pushes and fills put children under their parent. *)
LEMMA CacheStep ==
    ASSUME BlocktreeAssumption, Inv, NEW c \in Calls, Start(c) \/ Continue(c)
    PROVE  /\ childCache' \in [Hash -> [cached : BOOLEAN, list : Seq(Place)]]
           /\ CacheOK(blocks, childCache')
<1>. DEFINE k == calls[c]
<1>0. /\ TypeOK /\ k \in Call /\ CallOK(blocks, env.options, k)
      /\ CacheOK(blocks, childCache)
      /\ childCache \in [Hash -> [cached : BOOLEAN, list : Seq(Place)]]
  BY DEF Inv, TypeOK, Place
<1>1. ASSUME NEW b \in Hash, NEW l \in Seq(Place), Children(blocks, l, b),
             childCache' = [childCache EXCEPT ![b] = Cached(l)]
      PROVE  /\ childCache' \in [Hash -> [cached : BOOLEAN, list : Seq(Place)]]
             /\ CacheOK(blocks, childCache')
  <2>1. Cached(l) \in [cached : BOOLEAN, list : Seq(Place)] /\ Cached(l).list = l
    BY DEF Cached
  <2>2. childCache' \in [Hash -> [cached : BOOLEAN, list : Seq(Place)]]
    BY <1>0, <1>1, <2>1
  <2>3. \A a \in Hash : childCache'[a] = IF a = b THEN Cached(l) ELSE childCache[a]
    BY <1>0, <1>1
  <2> QED
    BY <1>0, <1>1, <2>1, <2>2, <2>3 DEF CacheOK
<1>2. CASE Push(c)
  <2>. DEFINE old == childCache[k.parent].list
  <2>1. /\ k.parent \in Hash /\ k.block \in DOMAIN blocks
        /\ blocks[k.block].parent = k.parent
        /\ childCache' = [childCache EXCEPT ![k.parent] = Cached(Append(old, k.block))]
    BY <1>0, <1>2 DEF Push, At, CallOK, Pushed
  <2>2. old \in Seq(Place) /\ k.block \in Place /\ Children(blocks, old, k.parent)
    BY <1>0, <2>1, Facts DEF CacheOK
  <2>. HIDE DEF old
  <2>3. Append(old, k.block) \in Seq(Place)
    BY <2>2, AppendProperties
  <2>4. Children(blocks, Append(old, k.block), k.parent)
    BY <2>1, <2>2, RangeOfAppend DEF Children
  <2> QED
    BY <1>1, <2>1, <2>3, <2>4
<1>3. CASE FillChildren(c)
  <2>1. /\ k.parent \in Hash /\ k.list \in Seq(Place) /\ Children(blocks, k.list, k.parent)
        /\ childCache' = [childCache EXCEPT ![k.parent] = Cached(k.list)]
    BY <1>0, <1>3 DEF FillChildren, At, CallOK, Scanning, Call, Place
  <2> QED
    BY <1>1, <2>1
<1>4. CASE ~ (Push(c) \/ FillChildren(c))
  <2>1. childCache' = childCache
    BY <1>4 DEF Start, StartWrite, StartScan, Continue, Layer1Check, Layer1Store,
                ReadChildren, ScanChildren
  <2> QED
    BY <1>0, <2>1
<1> QED
  BY <1>2, <1>3, <1>4

LEMMA OthersKeep ==
    ASSUME NEW c \in Calls, NEW d \in Calls, d # c, TypeOK, Start(c) \/ Continue(c)
    PROVE  calls'[d] = calls[d]
BY DEF TypeOK, Start, StartWrite, StartScan, Continue, Layer1Check, Layer1Store, Push,
       ReadChildren, ScanChildren, FillChildren, Set

(* The new block links to what its call checked. *)
LEMMA LinksStep ==
    ASSUME BlocktreeAssumption, Inv, NEW c \in Calls, Start(c) \/ Continue(c)
    PROVE  /\ LinksBack(blocks') /\ LinksStored(blocks', env.options)
           /\ \A b \in DOMAIN blocks : b \in DOMAIN blocks' /\ blocks'[b] = blocks[b]
<1>. DEFINE k == calls[c]
            n == Len(blocks) + 1
            e == [prev |-> k.prev, parent |-> k.parent]
<1>0. /\ TypeOK /\ LinksBack(blocks) /\ LinksStored(blocks, env.options)
      /\ CallOK(blocks, env.options, k)
  BY DEF Inv
<1>1. CASE blocks' = blocks
  BY <1>0, <1>1
<1>2. CASE blocks' # blocks
  <2>1. /\ At(c, "store") /\ DOMAIN blocks' = 1 .. n /\ n \in Nat
        /\ DOMAIN blocks = 1 .. Len(blocks) /\ Len(blocks) \in Nat
        /\ \A b \in DOMAIN blocks : b \in DOMAIN blocks' /\ blocks'[b] = blocks[b]
        /\ blocks'[n] = e
    <3>1. /\ Layer1Store(c) /\ DOMAIN blocks' = 1 .. n
          /\ \A b \in DOMAIN blocks : b \in DOMAIN blocks' /\ blocks'[b] = blocks[b]
          /\ blocks'[n] = e
      BY <1>0, <1>2, StoreGrows
    <3>2. DOMAIN blocks = 1 .. Len(blocks) /\ Len(blocks) \in Nat
      BY <1>0, Facts
    <3>. HIDE DEF e
    <3> QED
      BY <3>1, <3>2 DEF Layer1Store
  <2>2. /\ k.opt \in env.options
        /\ k.prev \in DOMAIN blocks \cup {0, Unknown}
        /\ k.parent \in DOMAIN blocks \cup {0, Unknown}
        /\ k.opt # "noValidate" => k.parent \in DOMAIN blocks \cup {0}
        /\ k.opt # "noValidate" => k.prev \in DOMAIN blocks \cup {0}
    BY <1>0, <2>1 DEF CallOK, Checked, At
  <2>3. \A b \in DOMAIN blocks' : b \in DOMAIN blocks \/ b = n
    BY <2>1
  <2>4. e.prev = k.prev /\ e.parent = k.parent
    OBVIOUS
  <2>5. k.prev \in 0 .. n - 1 \cup {Unknown} /\ k.parent \in 0 .. n - 1 \cup {Unknown}
    BY <2>1, <2>2
  <2>6. Unknown \notin DOMAIN blocks \cup {0}
    BY <1>0, Facts DEF Place
  <2>. HIDE DEF n, e
  <2>7. LinksBack(blocks')
    BY <1>0, <2>1, <2>3, <2>4, <2>5 DEF LinksBack
  <2>8. LinksStored(blocks', env.options)
    BY <1>0, <2>1, <2>2, <2>3, <2>4, <2>6 DEF LinksStored
  <2> QED
    BY <2>1, <2>7, <2>8
<1> QED
  BY <1>1, <1>2

LEMMA InvStep ==
    ASSUME BlocktreeAssumption, Inv, NEW c \in Calls, Start(c) \/ Continue(c),
           env' = env
    PROVE  Inv'
<1>0. TypeOK /\ CacheOK(blocks, childCache)
  BY DEF Inv
<1>1. /\ LinksBack(blocks') /\ LinksStored(blocks', env.options)
      /\ \A b \in DOMAIN blocks : b \in DOMAIN blocks' /\ blocks'[b] = blocks[b]
  BY LinksStep
<1>2. CacheOK(blocks', childCache')
  BY <1>1, CacheStep, CacheOKStable
<1>3. ASSUME NEW d \in Calls
      PROVE  calls'[d] \in Call /\ CallOK(blocks', env.options, calls'[d])
  <2>1. CASE d = c
    BY <2>1, OwnCallOK
  <2>2. CASE d # c
    <3>1. calls'[d] = calls[d] /\ calls[d] \in Call /\ CallOK(blocks, env.options, calls[d])
      BY <1>0, <2>2, OthersKeep DEF Inv, TypeOK
    <3> QED
      BY <1>1, <3>1, CallOKStable
  <2> QED
    BY <2>1, <2>2
<1>4. TypeOK'
  <2>1. blocks' \in Seq(Block) /\ Len(blocks') <= MaxBlocks
    <3>1. CASE blocks' = blocks
      BY <1>0, <3>1 DEF TypeOK
    <3>2. CASE blocks' # blocks
      <4>1. /\ blocks' \in Seq(Block) /\ Len(blocks') = Len(blocks) + 1
            /\ Len(blocks) < MaxBlocks
        BY <1>0, <3>2, StoreGrows
      <4>2. Len(blocks) \in Nat /\ MaxBlocks \in Nat
        BY <1>0, Facts
      <4> QED
        BY <4>1, <4>2
    <3> QED
      BY <3>1, <3>2
  <2>2. childCache' \in [Hash -> [cached : BOOLEAN, list : Seq(1 .. MaxBlocks)]]
    BY CacheStep DEF Place
  <2>3. DOMAIN calls' = Calls /\ calls' = [d \in Calls |-> calls'[d]]
    BY <1>0 DEF TypeOK, Start, StartWrite, StartScan, Continue, Layer1Check, Layer1Store,
                Push, ReadChildren, ScanChildren, FillChildren, Set
  <2>4. calls' \in [Calls -> Call]
    BY <1>3, <2>3
  <2> QED
    BY <1>0, <2>1, <2>2, <2>4 DEF TypeOK
<1> QED
  BY <1>1, <1>2, <1>3, <1>4 DEF Inv

LEMMA Invariant == Spec => []Inv
<1>1. Init => Inv
  <2> SUFFICES ASSUME Init PROVE Inv
    OBVIOUS
  <2>1. blocks = <<>> /\ env \in Environments
    BY DEF Init
  <2>2. NotCached \in [cached : BOOLEAN, list : Seq(1 .. MaxBlocks)] /\ NotCached.list = <<>>
    BY DEF NotCached
  <2>3. blocks \in Seq(Block) /\ Len(blocks) = 0 /\ DOMAIN blocks = {}
    BY <2>1
  <2>4. TypeOK
    BY <2>1, <2>2, <2>3, BlocktreeAssumption, NewCallTyped
       DEF Init, TypeOK, BlocktreeAssumption
  <2>5. \A c \in Calls : CallOK(blocks, env.options, calls[c])
    BY NewCallTyped, IdleOK DEF Init
  <2>6. CacheOK(blocks, childCache)
    BY <2>2 DEF Init, CacheOK, Children, Range
  <2> QED
    BY <2>3, <2>4, <2>5, <2>6 DEF Inv, LinksBack, LinksStored
<1>2. Inv /\ [Next]_vars => Inv'
  <2>1. ASSUME Inv, NEW c \in env.callers, Start(c) \/ Continue(c), env' = env PROVE Inv'
    <3>1. c \in Calls
      BY <2>1, BlocktreeAssumption, Facts DEF Inv
    <3> QED
      BY <2>1, <3>1, BlocktreeAssumption, InvStep
  <2>2. ASSUME Inv, UNCHANGED vars PROVE Inv'
    BY <2>2 DEF Inv, TypeOK, vars
  <2> QED
    BY <2>1, <2>2 DEF Next
<1> QED
  BY <1>1, <1>2, PTL DEF Spec

(* Every reachable state of layer 2 is well typed; in particular every     *)
(* pushed block and every cached child is one the storage may hold.        *)
THEOREM BlocktreeTypeCorrect == Spec => []TypeOK
<1>1. Inv => TypeOK
  BY DEF Inv
<1> QED
  BY <1>1, Invariant, PTL

(* A cached child is a stored block that names the key as its parent,      *)
(* whatever scans and pushes race and whatever options the writers pass.   *)
THEOREM ChildCacheIsSound == Spec => []ChildCacheSound
<1>1. Inv => ChildCacheSound
  BY DEF Inv, CacheOK, Children, ChildCacheSound, IsStored
<1> QED
  BY <1>1, Invariant, PTL

(***************************************************************************)
(* Validated blocks and the walks over them.                               *)
(***************************************************************************)
AllLinked == \A b \in DOMAIN blocks : /\ blocks[b].prev \in 0 .. b - 1
                                      /\ blocks[b].parent \in 0 .. b - 1

LEMMA ValidatedLinked ==
    ASSUME Inv, Validated
    PROVE  AllLinked
BY DEF Inv, Validated, LinksBack, LinksStored, AllLinked

(* A claim about every block that holds of a block when it holds of the    *)
(* blocks before it.                                                       *)
LEMMA LinkedChainValid ==
    ASSUME BlocktreeAssumption, TypeOK, AllLinked
    PROVE  \A b \in DOMAIN blocks : ChainValid(b)
<1>. DEFINE D == DOMAIN blocks
            Body(f, n) == \/ blocks[n].prev = 0
                          \/ IsStored(blocks[n].prev) /\ f[blocks[n].prev]
            valid[n \in D] == Body(valid, n)
            Good == {b \in D : valid[b]}
<1>0. D = 1 .. Len(blocks) /\ Len(blocks) \in Nat
  BY Facts
<1>1. \A b \in D : blocks[b].prev = 0 \/ (blocks[b].prev \in D /\ blocks[b].prev \in 1 .. b - 1)
  BY <1>0 DEF AllLinked
<1>2. valid = [n \in D |-> Body(valid, n)]
  <2>. DEFINE t == [n \in D |-> TRUE]
  <2>1. \A n \in D : Body(t, n) = TRUE
    BY <1>1 DEF IsStored
  <2>2. t = [n \in D |-> Body(t, n)]
    BY <2>1
  <2>3. \E f : f = [n \in D |-> Body(f, n)]
    BY <2>2
  <2> QED
    BY <2>3 DEF valid
<1>3. \A b \in D : ChainValid(b) <=> valid[b]
  BY DEF ChainValid, IsStored
<1>. HIDE DEF valid
<1>4. ASSUME NEW b \in 1 .. Len(blocks), \A m \in 1 .. b - 1 : m \in Good
      PROVE  b \in Good
  <2>0. b \in D
    BY <1>0
  <2>1. Body(valid, b)
    <3>1. CASE blocks[b].prev = 0
      BY <3>1
    <3>2. CASE blocks[b].prev \in D /\ blocks[b].prev \in 1 .. b - 1
      BY <1>4, <3>2 DEF IsStored
    <3> QED
      BY <1>1, <2>0, <3>1, <3>2
  <2>2. valid[b] = Body(valid, b)
    BY <1>2, <2>0
  <2> QED
    BY <2>0, <2>1, <2>2
<1>5. \A b \in 1 .. Len(blocks) : b \in Good
  <2>. HIDE DEF Good
  <2> QED
    BY <1>0, <1>4, InductionUpTo
<1> QED
  BY <1>0, <1>3, <1>5

LEMMA LinkedTreeValid ==
    ASSUME BlocktreeAssumption, TypeOK, AllLinked
    PROVE  \A b \in DOMAIN blocks : ValidateBlocktree(b)
<1>. DEFINE D == DOMAIN blocks
            Body(f, n) == /\ ChainValid(n)
                          /\ \/ blocks[n].parent = 0
                             \/ IsStored(blocks[n].parent) /\ f[blocks[n].parent]
            valid[n \in D] == Body(valid, n)
            Good == {b \in D : valid[b]}
<1>0. D = 1 .. Len(blocks) /\ Len(blocks) \in Nat /\ \A b \in D : ChainValid(b)
  BY Facts, LinkedChainValid
<1>1. \A b \in D : \/ blocks[b].parent = 0
                   \/ blocks[b].parent \in D /\ blocks[b].parent \in 1 .. b - 1
  BY <1>0 DEF AllLinked
<1>2. valid = [n \in D |-> Body(valid, n)]
  <2>. DEFINE t == [n \in D |-> TRUE]
  <2>1. \A n \in D : Body(t, n) = TRUE
    BY <1>0, <1>1 DEF IsStored
  <2>2. t = [n \in D |-> Body(t, n)]
    BY <2>1
  <2>3. \E f : f = [n \in D |-> Body(f, n)]
    BY <2>2
  <2> QED
    BY <2>3 DEF valid
<1>3. \A b \in D : ValidateBlocktree(b) <=> valid[b]
  BY DEF ValidateBlocktree, IsStored
<1>. HIDE DEF valid
<1>4. ASSUME NEW b \in 1 .. Len(blocks), \A m \in 1 .. b - 1 : m \in Good
      PROVE  b \in Good
  <2>0. b \in D /\ ChainValid(b)
    BY <1>0
  <2>1. Body(valid, b)
    <3>1. CASE blocks[b].parent = 0
      BY <2>0, <3>1
    <3>2. CASE blocks[b].parent \in D /\ blocks[b].parent \in 1 .. b - 1
      BY <1>4, <2>0, <3>2 DEF IsStored
    <3> QED
      BY <1>1, <2>0, <3>1, <3>2
  <2>2. valid[b] = Body(valid, b)
    BY <1>2, <2>0
  <2> QED
    BY <2>0, <2>1, <2>2
<1>5. \A b \in 1 .. Len(blocks) : b \in Good
  <2>. HIDE DEF Good
  <2> QED
    BY <1>0, <1>4, InductionUpTo
<1> QED
  BY <1>0, <1>3, <1>5

(* The parent scan goes all the way up, and lists what it passed. *)
LEMMA LinkedParentScan ==
    ASSUME BlocktreeAssumption, TypeOK, AllLinked
    PROVE  \A b \in DOMAIN blocks : ParentScan(b) # <<>>
<1>. DEFINE D == DOMAIN blocks
            Body(f, n) ==
                LET p == blocks[n].parent IN
                IF p = 0 THEN <<n>>
                ELSE IF IsStored(p) /\ f[p] # <<>> THEN <<n>> \o f[p] ELSE <<>>
            scan[n \in D] == Body(scan, n)
            up   == [n \in D |-> blocks[n].parent]
            last == [n \in D |-> <<n>>]
            next == [n \in D |-> [v \in Seq(D) |-> IF v = <<>> THEN <<>> ELSE <<n>> \o v]]
            Good == {b \in D : scan[b] \in Seq(D) /\ scan[b] # <<>>}
<1>0. D = 1 .. Len(blocks) /\ Len(blocks) \in Nat /\ 0 \notin D
  BY Facts
<1>1. \A b \in D : \/ blocks[b].parent = 0
                   \/ blocks[b].parent \in D /\ blocks[b].parent \in 1 .. b - 1
  BY <1>0 DEF AllLinked
<1>2. \E f \in [D -> Seq(D)] : IsWalk(f, Len(blocks), up, last, next)
  <2>. DEFINE V == Seq(D)
              N == Len(blocks)
  <2>1. Descends(up, N)
    BY <1>0 DEF Descends, AllLinked
  <2>2. last \in [D -> V] /\ next \in [D -> [V -> V]]
    <3>1. ASSUME NEW n \in D PROVE <<n>> \in V
      BY <3>1
    <3>2. ASSUME NEW n \in D, NEW v \in V
          PROVE  (IF v = <<>> THEN <<>> ELSE <<n>> \o v) \in V
      <4>1. <<n>> \in Seq(D) /\ v \in Seq(D)
        OBVIOUS
      <4>2. <<n>> \o v \in Seq(D)
        BY <4>1, ConcatProperties
      <4> QED
        BY <4>2
    <3> QED
      BY <3>1, <3>2
  <2>3. D = 1 .. N /\ N \in Nat
    BY <1>0
  <2>. HIDE DEF up, last, next, D, V, N
  <2>4. \E f \in [D -> V] : IsWalk(f, N, up, last, next)
    BY <2>1, <2>2, <2>3, WalkExists
  <2> QED
    BY <2>4 DEF V, N
<1>3. scan = [n \in D |-> Body(scan, n)]
  <2>1. PICK f \in [D -> Seq(D)] : IsWalk(f, Len(blocks), up, last, next)
    BY <1>2
  <2>2. ASSUME NEW n \in D PROVE f[n] = Body(f, n)
    <3>1. f[n] = IF up[n] = 0 THEN last[n] ELSE next[n][f[up[n]]]
      BY <1>0, <2>1 DEF IsWalk
    <3>2. CASE blocks[n].parent = 0
      <4>1. f[n] = <<n>>
        BY <3>1, <3>2
      <4>2. ~ IsStored(blocks[n].parent)
        BY <1>0, <3>2 DEF IsStored
      <4> QED
        BY <3>2, <4>1, <4>2
    <3>3. CASE blocks[n].parent # 0
      <4>. DEFINE p == blocks[n].parent
      <4>1. p \in D /\ p # 0 /\ IsStored(p)
        BY <1>1, <3>3 DEF IsStored
      <4>2. f[p] \in Seq(D)
        BY <4>1
      <4>3. f[n] = next[n][f[p]]
        BY <3>1, <4>1
      <4>4. f[n] = IF f[p] = <<>> THEN <<>> ELSE <<n>> \o f[p]
        BY <4>2, <4>3
      <4> QED
        BY <4>1, <4>4
    <3> QED
      BY <3>2, <3>3
  <2>3. f = [n \in D |-> Body(f, n)]
    <3>. HIDE DEF Body
    <3> QED
      BY <2>2
  <2>4. \E g : g = [n \in D |-> Body(g, n)]
    BY <2>3
  <2> QED
    BY <2>4 DEF scan
<1>4. \A b \in D : ParentScan(b) = scan[b]
  BY DEF ParentScan, IsStored
<1>. HIDE DEF scan
<1>5. ASSUME NEW b \in 1 .. Len(blocks), \A m \in 1 .. b - 1 : m \in Good
      PROVE  b \in Good
  <2>. DEFINE p == blocks[b].parent
  <2>0. b \in D /\ scan[b] = Body(scan, b)
    BY <1>0, <1>3
  <2>1. CASE p = 0
    <3>1. scan[b] = <<b>>
      BY <1>0, <2>0, <2>1 DEF IsStored
    <3>2. <<b>> \in Seq(D) /\ <<b>> # <<>>
      BY <2>0
    <3> QED
      BY <2>0, <3>1, <3>2
  <2>2. CASE p \in D /\ p \in 1 .. b - 1
    <3>1. scan[p] \in Seq(D) /\ scan[p] # <<>> /\ p # 0 /\ IsStored(p)
      BY <1>0, <1>5, <2>2 DEF IsStored
    <3>2. scan[b] = <<b>> \o scan[p]
      BY <2>0, <3>1
    <3>3. <<b>> \in Seq(D) /\ Len(<<b>>) = 1
      BY <2>0
    <3>4. /\ <<b>> \o scan[p] \in Seq(D)
          /\ Len(<<b>> \o scan[p]) = 1 + Len(scan[p])
          /\ Len(scan[p]) \in Nat
      BY <3>1, <3>3, ConcatProperties
    <3>5. <<b>> \o scan[p] # <<>>
      BY <3>4
    <3> QED
      BY <2>0, <3>2, <3>4, <3>5
  <2> QED
    BY <1>1, <2>0, <2>1, <2>2
<1>6. \A b \in 1 .. Len(blocks) : b \in Good
  <2>. HIDE DEF Good
  <2> QED
    BY <1>0, <1>5, InductionUpTo
<1> QED
  BY <1>0, <1>4, <1>6

(* When no caller switches validation off, validateBlocktree accepts every *)
(* stored block and its parent scan reaches a block without a parent: the  *)
(* tree has no dangling and no circular parent, whatever was stored        *)
(* between the check of the parent and the write.                          *)
THEOREM EveryTreeBlockValidates == Spec => []EveryBlockValidates
<1>1. ASSUME Inv, Validated
      PROVE  \A b \in DOMAIN blocks : ValidateBlocktree(b) /\ ParentScan(b) # <<>>
  BY <1>1, BlocktreeAssumption, ValidatedLinked, LinkedTreeValid, LinkedParentScan DEF Inv
<1>2. Inv => EveryBlockValidates
  BY <1>1 DEF EveryBlockValidates
<1> QED
  BY <1>2, Invariant, PTL

(***************************************************************************)
(* One call at a time.                                                     *)
(***************************************************************************)
(* ChildRoots of the storage s, and the first blocks of chains in a list.  *)
ChildRootsIn(s, b) ==
    Matching([n \in DOMAIN s |-> n], {n \in DOMAIN s : s[n].prev = 0 /\ s[n].parent = b})
RootsIn(s, l) == Matching(l, {n \in DOMAIN s : s[n].prev = 0})

(* The children of b once the call that runs has pushed its block. *)
Expected(cache, k, b) ==
    IF k.pc = "push" /\ k.parent = b THEN Append(cache[b].list, k.block)
    ELSE cache[b].list

SeqOK(s, cache, k) ==
    /\ k.pc \in Checked \cup {"push"} => k.op = "write"
    /\ k.pc = "fillChildren" => k.list = ChildRootsIn(s, k.parent)
    /\ k.pc = "idle" /\ k.op = "scan" => RootsIn(s, k.list) = ChildRootsIn(s, k.parent)
    /\ \A b \in Hash : RootsIn(s, Expected(cache, k, b)) = ChildRootsIn(s, b)

SeqInv ==
    /\ \A d \in Calls \ env.callers : calls[d] = NewCall
    /\ Sequential => \A c \in env.callers : SeqOK(blocks, childCache, calls[c])

LEMMA ScansIn ==
    /\ \A b : ChildRoots(b) = ChildRootsIn(blocks, b)
    /\ \A l : Matching(l, {n \in DOMAIN blocks : blocks[n].prev = 0}) = RootsIn(blocks, l)
BY DEF ChildRoots, ChildRootsIn, RootsIn, IsChildRoot

(* The child roots found by a scan are all roots. *)
LEMMA RootsOfScan ==
    ASSUME NEW s \in Seq(Block), NEW b
    PROVE  RootsIn(s, ChildRootsIn(s, b)) = ChildRootsIn(s, b)
<1>. DEFINE D == DOMAIN s
            all == [n \in D |-> n]
            S == {n \in D : s[n].prev = 0 /\ s[n].parent = b}
            U == {n \in D : s[n].prev = 0}
<1>1. all \in Seq(D)
  OBVIOUS
<1>2. \A x \in D : x \in S \cap U <=> x \in S
  OBVIOUS
<1>. HIDE DEF D, all, S, U
<1>3. Matching(Matching(all, S), U) = Matching(all, S \cap U)
  BY <1>1, MatchingTwice
<1>4. Matching(all, S \cap U) = Matching(all, S)
  BY <1>1, <1>2, MatchingSame
<1> QED
  BY <1>3, <1>4 DEF RootsIn, ChildRootsIn, D, all, S, U

(* What a new block adds to the scans. *)
LEMMA ScansGrow ==
    ASSUME NEW s \in Seq(Block), NEW t \in Seq(Block), Len(t) = Len(s) + 1,
           DOMAIN t = 1 .. Len(s) + 1,
           \A a \in DOMAIN s : a \in DOMAIN t /\ t[a] = s[a],
           NEW b, NEW l \in Seq(DOMAIN s)
    PROVE  LET n == Len(s) + 1 IN
           /\ ChildRootsIn(t, b) =
                  IF t[n].prev = 0 /\ t[n].parent = b THEN Append(ChildRootsIn(s, b), n)
                  ELSE ChildRootsIn(s, b)
           /\ RootsIn(t, l) = RootsIn(s, l)
           /\ RootsIn(t, Append(l, n)) =
                  IF t[n].prev = 0 THEN Append(RootsIn(s, l), n) ELSE RootsIn(s, l)
<1>. DEFINE n == Len(s) + 1
            all == [i \in DOMAIN s |-> i]
            allt == [i \in DOMAIN t |-> i]
            S == {i \in DOMAIN s : s[i].prev = 0 /\ s[i].parent = b}
            St == {i \in DOMAIN t : t[i].prev = 0 /\ t[i].parent = b}
            U == {i \in DOMAIN s : s[i].prev = 0}
            Ut == {i \in DOMAIN t : t[i].prev = 0}
<1>0. DOMAIN s = 1 .. Len(s) /\ Len(s) \in Nat /\ n \in DOMAIN t
  OBVIOUS
<1>1. /\ all \in Seq(DOMAIN s) /\ all \in Seq(DOMAIN t) /\ allt \in Seq(DOMAIN t)
      /\ l \in Seq(DOMAIN t) /\ Len(all) = Len(s)
  <2>1. all \in Seq(DOMAIN s) /\ allt \in Seq(DOMAIN t) /\ Len(all) = Len(s)
    BY <1>0
  <2>2. DOMAIN s \subseteq DOMAIN t
    OBVIOUS
  <2>. HIDE DEF all, allt
  <2> QED
    BY <2>1, <2>2, SeqMonotonic
<1>2. allt = Append(all, n)
  <2>1. Append(all, n) \in Seq(DOMAIN t) /\ Len(Append(all, n)) = n
        /\ \A i \in 1 .. Len(s) : Append(all, n)[i] = all[i]
        /\ Append(all, n)[n] = n
    <3>. HIDE DEF all
    <3> QED
      BY <1>0, <1>1, AppendProperties
  <2>2. Len(allt) = n
    BY <1>0
  <2>3. \A i \in 1 .. n : allt[i] = Append(all, n)[i]
    BY <1>0, <2>1
  <2>. HIDE DEF all, allt, n
  <2>4. PICK u : u = Append(all, n)
    OBVIOUS
  <2>5. /\ u \in Seq(DOMAIN t) /\ allt \in Seq(DOMAIN t)
        /\ Len(allt) = Len(u) /\ \A i \in 1 .. Len(allt) : allt[i] = u[i]
    BY <1>1, <2>1, <2>2, <2>3, <2>4
  <2>6. allt = u
    BY <2>5, SeqEqual
  <2> QED
    BY <2>4, <2>6
<1>3. /\ \A x \in DOMAIN s : x \in St <=> x \in S
      /\ \A x \in DOMAIN s : x \in Ut <=> x \in U
      /\ n \in St <=> t[n].prev = 0 /\ t[n].parent = b
      /\ n \in Ut <=> t[n].prev = 0
  BY <1>0
<1>. HIDE DEF n, all, allt, S, St, U, Ut
<1>4. Matching(all, St) = Matching(all, S) /\ Matching(l, Ut) = Matching(l, U)
  <2>. DEFINE D == DOMAIN s
  <2>1. /\ all \in Seq(D) /\ l \in Seq(D)
        /\ \A x \in D : x \in St <=> x \in S
        /\ \A x \in D : x \in Ut <=> x \in U
    BY <1>1, <1>3
  <2>. HIDE DEF D
  <2>2. Matching(all, St) = Matching(all, S)
    BY <2>1, MatchingSame
  <2>3. Matching(l, Ut) = Matching(l, U)
    BY <2>1, MatchingSame
  <2> QED
    BY <2>2, <2>3
<1>5. /\ Matching(Append(all, n), St) = IF n \in St THEN Append(Matching(all, St), n)
                                        ELSE Matching(all, St)
      /\ Matching(Append(l, n), Ut) = IF n \in Ut THEN Append(Matching(l, Ut), n)
                                      ELSE Matching(l, Ut)
  BY <1>0, <1>1, MatchingAppend
<1>6. /\ ChildRootsIn(t, b) = Matching(allt, St) /\ ChildRootsIn(s, b) = Matching(all, S)
      /\ \A x : RootsIn(t, x) = Matching(x, Ut) /\ RootsIn(s, x) = Matching(x, U)
  BY DEF ChildRootsIn, RootsIn, all, allt, S, St, U, Ut
<1>7. /\ ChildRootsIn(t, b) = IF t[n].prev = 0 /\ t[n].parent = b
                              THEN Append(ChildRootsIn(s, b), n) ELSE ChildRootsIn(s, b)
      /\ RootsIn(t, l) = RootsIn(s, l)
      /\ RootsIn(t, Append(l, n)) = IF t[n].prev = 0 THEN Append(RootsIn(s, l), n)
                                    ELSE RootsIn(s, l)
  BY <1>2, <1>3, <1>4, <1>5, <1>6
<1> QED
  BY <1>7 DEF n


(* A cached list holds stored blocks. *)
LEMMA CachedStored ==
    ASSUME BlocktreeAssumption, Inv
    PROVE  \A b \in Hash : childCache[b].list \in Seq(DOMAIN blocks)
<1> SUFFICES ASSUME NEW b \in Hash PROVE childCache[b].list \in Seq(DOMAIN blocks)
  OBVIOUS
<1>. DEFINE l == childCache[b].list
<1>1. l \in Seq(1 .. MaxBlocks) /\ \A i \in DOMAIN l : l[i] \in DOMAIN blocks
  BY DEF Inv, TypeOK, CacheOK, Children, Range
<1>. HIDE DEF l
<1>2. l = [i \in 1 .. Len(l) |-> l[i]] /\ Len(l) \in Nat
  BY <1>1
<1>3. l \in Seq(DOMAIN blocks)
  BY <1>1, <1>2
<1> QED
  BY <1>3 DEF l

(* A step that leaves storage and cache alone has little to show. *)
LEMMA SeqOKKept ==
    ASSUME NEW s, NEW cache, NEW k, NEW r, SeqOK(s, cache, k),
           k.pc # "push", r.pc # "push",
           r.pc \in Checked => r.op = "write",
           r.pc = "fillChildren" => r.list = ChildRootsIn(s, r.parent),
           r.pc = "idle" /\ r.op = "scan" => RootsIn(s, r.list) = ChildRootsIn(s, r.parent)
    PROVE  SeqOK(s, cache, r)
BY DEF SeqOK, Expected

(* Storing a block: what its call will push is what the scans now find.    *)
LEMMA SeqStore ==
    ASSUME BlocktreeAssumption, Inv, SeqInv, NEW c \in Calls,
           Start(c) \/ Continue(c), blocks' # blocks,
           SeqOK(blocks, childCache, calls[c])
    PROVE  SeqOK(blocks', childCache, calls'[c])
<1>. DEFINE k == calls[c]
            n == Len(blocks) + 1
            w == [k EXCEPT !.block = n, !.pc = "push"]
            e == [prev |-> k.prev, parent |-> k.parent]
            missing == ChecksPrev(k) /\ ~ChainValid(k.prev)
            r == IF missing THEN Reject(k, "notFound")
                 ELSE IF k.parent = 0 THEN Return(w) ELSE w
<1>0. TypeOK /\ k \in Call
  BY DEF Inv, TypeOK
<1>1. /\ Layer1Store(c) /\ Len(blocks) < MaxBlocks
      /\ blocks' \in Seq(Block) /\ Len(blocks') = n /\ DOMAIN blocks' = 1 .. n
      /\ \A b \in DOMAIN blocks : b \in DOMAIN blocks' /\ blocks'[b] = blocks[b]
      /\ blocks'[n] = e
  BY <1>0, StoreGrows
<1>2. /\ calls'[c] = r /\ k.pc = "store" /\ n \in Nat
      /\ blocks'[n].prev = k.prev /\ blocks'[n].parent = k.parent
  BY <1>0, <1>1, Facts DEF Layer1Store, Set, At
<1>m. missing => k.prev # 0
  BY DEF ChecksPrev
<1>. HIDE DEF missing
<1>3. w \in Call /\ w.pc = "push" /\ w.op = k.op /\ w.block = n /\ w.parent = k.parent
  BY <1>0, <1>2 DEF Call, PCs
<1>4. k.op = "write" /\ 0 \notin Hash
  BY <1>0, <1>2, Facts DEF SeqOK, Checked
<1>5. ASSUME NEW b \in Hash
      PROVE  RootsIn(blocks', Expected(childCache, r, b)) = ChildRootsIn(blocks', b)
  <2>. DEFINE l == childCache[b].list
              t == blocks'
  <2>1. l \in Seq(DOMAIN blocks) /\ blocks \in Seq(Block)
    BY <1>0, CachedStored, Facts
  <2>2. RootsIn(blocks, l) = ChildRootsIn(blocks, b)
    BY <1>2 DEF SeqOK, Expected
  <2>3. /\ ChildRootsIn(t, b) =
              IF t[n].prev = 0 /\ t[n].parent = b THEN Append(ChildRootsIn(blocks, b), n)
              ELSE ChildRootsIn(blocks, b)
        /\ RootsIn(t, l) = RootsIn(blocks, l)
        /\ RootsIn(t, Append(l, n)) =
              IF t[n].prev = 0 THEN Append(RootsIn(blocks, l), n) ELSE RootsIn(blocks, l)
    <3>1. t \in Seq(Block) /\ Len(t) = Len(blocks) + 1 /\ DOMAIN t = 1 .. Len(blocks) + 1
          /\ \A a \in DOMAIN blocks : a \in DOMAIN t /\ t[a] = blocks[a]
      BY <1>1
    <3>. HIDE DEF l, t
    <3> QED
      BY <2>1, <3>1, ScansGrow
  <2>4. CASE ~missing /\ k.parent = b
    <3>1. r = w
      BY <1>4, <2>4
    <3>2. Expected(childCache, r, b) = Append(l, n)
      BY <1>3, <2>4, <3>1 DEF Expected
    <3> QED
      BY <1>2, <2>2, <2>3, <2>4, <3>2
  <2>5. CASE missing \/ k.parent # b
    <3>1. r.pc = "idle" \/ (~missing /\ r.parent = k.parent)
      BY <1>0, <1>3, EndTyped DEF Errs
    <3>2. Expected(childCache, r, b) = l
      BY <2>5, <3>1 DEF Expected
    <3> QED
      BY <1>2, <1>m, <2>2, <2>3, <2>5, <3>2
  <2> QED
    BY <2>4, <2>5
<1>6. r.op = "write" /\ r.pc \in {"idle", "push"}
  <2>1. /\ Return(w).op = w.op /\ Return(w).pc = "idle"
        /\ Reject(k, "notFound").op = k.op /\ Reject(k, "notFound").pc = "idle"
    BY NewCallTyped DEF Return, Reject, Call
  <2> QED
    BY <1>3, <1>4, <2>1
<1>. HIDE DEF r
<1>7. SeqOK(blocks', childCache, r)
  BY <1>5, <1>6 DEF SeqOK, Checked
<1> QED
  BY <1>2, <1>7


LEMMA ReturnFields ==
    ASSUME NEW k \in Call, NEW e \in Errs
    PROVE  /\ Return(k).op = k.op /\ Return(k).list = k.list /\ Return(k).parent = k.parent
           /\ Reject(k, e).op = k.op
BY NewCallTyped DEF Return, Reject, Call

LEMMA SeqPush ==
    ASSUME BlocktreeAssumption, Inv, NEW c \in Calls, Push(c),
           SeqOK(blocks, childCache, calls[c])
    PROVE  SeqOK(blocks', childCache', calls'[c])
<1>. DEFINE k == calls[c]
            r == Return(k)
<1>0. /\ TypeOK /\ k \in Call /\ k.pc = "push" /\ k.op = "write" /\ k.parent \in Hash
      /\ childCache \in [Hash -> [cached : BOOLEAN, list : Seq(1 .. MaxBlocks)]]
  BY DEF Inv, TypeOK, Push, At, SeqOK, CallOK
<1>1. /\ childCache' = [childCache EXCEPT ![k.parent] = Cached(Append(@.list, k.block))]
      /\ calls'[c] = r /\ blocks' = blocks
  BY <1>0 DEF Push, Set, Pushed, TypeOK
<1>2. r.op = "write" /\ r.pc = "idle"
  BY <1>0, ReturnFields, EndTyped DEF Errs
<1>. HIDE DEF r
<1>3. ASSUME NEW b \in Hash
      PROVE  Expected(childCache', r, b) = Expected(childCache, k, b)
  <2>1. childCache'[b].list = IF b = k.parent THEN Append(childCache[b].list, k.block)
                              ELSE childCache[b].list
    BY <1>0, <1>1 DEF Cached
  <2> QED
    BY <1>0, <1>2, <2>1 DEF Expected
<1>4. SeqOK(blocks, childCache', r)
  BY <1>0, <1>2, <1>3 DEF SeqOK, Checked
<1> QED
  BY <1>1, <1>4

LEMMA SeqFill ==
    ASSUME BlocktreeAssumption, Inv, NEW c \in Calls, FillChildren(c),
           SeqOK(blocks, childCache, calls[c])
    PROVE  SeqOK(blocks', childCache', calls'[c])
<1>. DEFINE k == calls[c]
            r == Return(k)
<1>0. /\ TypeOK /\ k \in Call /\ k.pc = "fillChildren" /\ k.parent \in Hash
      /\ childCache \in [Hash -> [cached : BOOLEAN, list : Seq(1 .. MaxBlocks)]]
      /\ blocks \in Seq(Block)
  BY DEF Inv, TypeOK, FillChildren, At, CallOK, Scanning
<1>1. /\ childCache' = [childCache EXCEPT ![k.parent] = Cached(k.list)]
      /\ calls'[c] = r /\ blocks' = blocks
  BY <1>0 DEF FillChildren, Set, TypeOK
<1>2. r.pc = "idle" /\ r.list = k.list /\ r.parent = k.parent
  BY <1>0, ReturnFields, EndTyped DEF Errs
<1>3. RootsIn(blocks, k.list) = ChildRootsIn(blocks, k.parent)
  BY <1>0, RootsOfScan DEF SeqOK
<1>. HIDE DEF r
<1>4. ASSUME NEW b \in Hash
      PROVE  RootsIn(blocks, Expected(childCache', r, b)) = ChildRootsIn(blocks, b)
  <2>1. childCache'[b].list = IF b = k.parent THEN k.list ELSE childCache[b].list
    BY <1>0, <1>1 DEF Cached
  <2>2. RootsIn(blocks, childCache[b].list) = ChildRootsIn(blocks, b)
    BY <1>0 DEF SeqOK, Expected
  <2> QED
    BY <1>2, <1>3, <2>1, <2>2 DEF Expected
<1>5. SeqOK(blocks, childCache', r)
  BY <1>2, <1>3, <1>4 DEF SeqOK, Checked
<1> QED
  BY <1>1, <1>5

(* The steps that neither store nor cache. *)
LEMMA SeqQuietStep ==
    ASSUME BlocktreeAssumption, Inv, NEW c \in Calls, Start(c) \/ Continue(c),
           blocks' = blocks, ~ (Push(c) \/ FillChildren(c)),
           SeqOK(blocks, childCache, calls[c])
    PROVE  SeqOK(blocks', childCache', calls'[c])
<1>. DEFINE k == calls[c]
            good(r) == /\ r.pc # "push"
                       /\ r.pc \in Checked => r.op = "write"
                       /\ r.pc = "fillChildren" => r.list = ChildRootsIn(blocks, r.parent)
                       /\ r.pc = "idle" /\ r.op = "scan"
                             => RootsIn(blocks, r.list) = ChildRootsIn(blocks, r.parent)
<1>0. /\ TypeOK /\ k \in Call /\ CallOK(blocks, env.options, k)
  BY DEF Inv, TypeOK
<1>a. \A r : Set(c, r) => calls'[c] = r
  BY <1>0 DEF Set, TypeOK
<1>c. \A r \in Call, e \in Errs : r.op = "write" => good(Reject(r, e))
  BY EndTyped, ReturnFields DEF Checked
<1>1. ASSUME NEW prev \in DOMAIN blocks \cup {0, Unknown},
             NEW parent \in DOMAIN blocks \cup {0, Unknown},
             NEW o \in env.options, StartWrite(c, prev, parent, o)
      PROVE  good(calls'[c]) /\ k.pc # "push"
  <2>. DEFINE r == [NewCall EXCEPT !.op = "write", !.pc = "layer1", !.opt = o,
                                   !.prev = prev, !.parent = parent]
  <2>1. /\ prev \in Hash \cup {0} /\ parent \in Hash \cup {0}
        /\ o \in {"default", "noValidate"}
    BY <1>0, Facts
  <2>2. r.pc = "layer1" /\ r.op = "write" /\ r \in Call
    BY <2>1, NewCallTyped DEF Call, Ops, PCs
  <2>3. /\ calls'[c] = (IF ParentRefused(parent, o) THEN Reject(r, "invalidParentBlock")
                        ELSE r)
        /\ k.pc = "idle"
    BY <1>1, <1>a DEF StartWrite, At
  <2>. HIDE DEF r
  <2>4. good(r)
    BY <2>2 DEF Checked
  <2> QED
    BY <1>c, <2>2, <2>3, <2>4 DEF Errs
<1>2. ASSUME NEW b \in DOMAIN blocks, StartScan(c, b)
      PROVE  good(calls'[c]) /\ k.pc # "push"
  <2>. DEFINE r == [NewCall EXCEPT !.op = "scan", !.pc = "readChildren", !.parent = b]
  <2>1. calls'[c] = r /\ k.pc = "idle" /\ r.pc = "readChildren"
    BY <1>2, <1>a, NewCallTyped DEF StartScan, At, Call
  <2>. HIDE DEF r
  <2> QED
    BY <2>1 DEF Checked
<1>3. ASSUME Layer1Check(c) PROVE good(calls'[c])
  <2>. DEFINE r == [k EXCEPT !.pc = "store"]
  <2>1. /\ calls'[c] \in {Reject(k, "prevRefused"), r}
        /\ k.pc = "layer1" /\ k.op = "write"
    BY <1>3, <1>a DEF Layer1Check, At, SeqOK, Checked
  <2>2. r.pc = "store" /\ r.op = "write"
    BY <1>0, <2>1 DEF Call
  <2>. HIDE DEF r
  <2>3. good(r)
    BY <2>2 DEF Checked
  <2> QED
    BY <1>0, <1>c, <2>1, <2>3 DEF Errs
<1>4. ASSUME Layer1Store(c) PROVE good(calls'[c])
  <2>1. ~ (Len(blocks) < MaxBlocks)
    <3>1. \A e \in Block : Append(blocks, e) # blocks
      BY <1>0, Facts, AppendProperties
    <3>2. [prev |-> k.prev, parent |-> k.parent] \in Block
      BY <1>0 DEF Call, Block
    <3> QED
      BY <1>4, <3>1, <3>2 DEF Layer1Store
  <2>2. calls'[c] = Reject(k, "full") /\ k.pc = "store" /\ k.op = "write"
    BY <1>4, <1>a, <2>1 DEF Layer1Store, At, SeqOK, Checked
  <2> QED
    BY <1>0, <1>c, <2>2 DEF Errs
<1>5. ASSUME ReadChildren(c) PROVE good(calls'[c])
  <2>. DEFINE l == childCache[k.parent].list
              r == [k EXCEPT !.list = l]
  <2>0. k.pc = "readChildren" /\ k.parent \in Hash
    BY <1>0, <1>5 DEF ReadChildren, At, CallOK, Scanning
  <2>1. CASE childCache[k.parent].cached
    <3>1. l \in Seq(1 .. MaxBlocks) /\ calls'[c] = Return(r)
      BY <1>0, <1>5, <1>a, <2>0, <2>1 DEF TypeOK, ReadChildren
    <3>2. r \in Call /\ r.list = l /\ r.parent = k.parent
      BY <1>0, <3>1 DEF Call
    <3>3. RootsIn(blocks, l) = ChildRootsIn(blocks, k.parent)
      BY <2>0 DEF SeqOK, Expected
    <3>. HIDE DEF r, l
    <3>4. Return(r).pc = "idle" /\ Return(r).list = l /\ Return(r).parent = k.parent
      BY <3>2, ReturnFields, EndTyped DEF Errs
    <3> QED
      BY <2>0, <3>1, <3>3, <3>4 DEF Checked
  <2>2. CASE ~ childCache[k.parent].cached
    <3>1. calls'[c] = [k EXCEPT !.pc = "scanChildren"]
      BY <1>5, <1>a, <2>2 DEF ReadChildren
    <3>2. calls'[c].pc = "scanChildren"
      BY <1>0, <3>1 DEF Call
    <3> QED
      BY <2>0, <3>2 DEF Checked
  <2> QED
    BY <2>1, <2>2
<1>6. ASSUME ScanChildren(c) PROVE good(calls'[c])
  <2>. DEFINE r == [k EXCEPT !.pc = "fillChildren", !.list = ChildRoots(k.parent)]
  <2>1. calls'[c] = r /\ k.pc = "scanChildren"
    BY <1>6, <1>a DEF ScanChildren, At
  <2>2. r.pc = "fillChildren" /\ r.list = ChildRoots(k.parent) /\ r.parent = k.parent
    BY <1>0 DEF Call
  <2>. HIDE DEF r
  <2> QED
    BY <2>1, <2>2, ScansIn DEF Checked
<1>7. good(calls'[c]) /\ k.pc # "push"
  <2>1. CASE Start(c)
    BY <1>1, <1>2, <2>1 DEF Start
  <2>2. CASE Continue(c)
    <3>1. good(calls'[c])
      BY <1>3, <1>4, <1>5, <1>6, <2>2 DEF Continue
    <3>2. k.pc # "push"
      BY <2>2 DEF Continue, Layer1Check, Layer1Store, ReadChildren, ScanChildren, At
    <3> QED
      BY <3>1, <3>2
  <2> QED
    BY <2>1, <2>2
<1>8. childCache' = childCache
  BY DEF Start, StartWrite, StartScan, Continue, Layer1Check, Layer1Store,
         ReadChildren, ScanChildren
<1>9. SeqOK(blocks, childCache, calls'[c])
  BY <1>7, SeqOKKept
<1> QED
  BY <1>8, <1>9


LEMMA SeqInvStep ==
    ASSUME BlocktreeAssumption, Inv, SeqInv, NEW c \in env.callers,
           Start(c) \/ Continue(c), env' = env
    PROVE  SeqInv'
<1>0. TypeOK /\ c \in Calls
  BY Facts DEF Inv
<1>1. ASSUME NEW d \in Calls \ env.callers PROVE calls'[d] = NewCall
  BY <1>0, <1>1, OthersKeep DEF SeqInv
<1>2. ASSUME Sequential, NEW d \in env.callers
      PROVE  SeqOK(blocks', childCache', calls'[d])
  <2>1. d = c /\ SeqOK(blocks, childCache, calls[c])
    BY <1>2 DEF Sequential, SeqInv
  <2>2. CASE blocks' # blocks
    <3>1. SeqOK(blocks', childCache, calls'[c])
      BY <1>0, <2>1, <2>2, SeqStore
    <3>2. childCache' = childCache
      BY <1>0, <2>2, StoreGrows DEF Layer1Store
    <3> QED
      BY <2>1, <3>1, <3>2
  <2>3. CASE blocks' = blocks /\ Push(c)
    BY <1>0, <2>1, <2>3, SeqPush
  <2>4. CASE blocks' = blocks /\ FillChildren(c)
    BY <1>0, <2>1, <2>4, SeqFill
  <2>5. CASE blocks' = blocks /\ ~ (Push(c) \/ FillChildren(c))
    BY <1>0, <2>1, <2>5, SeqQuietStep
  <2> QED
    BY <2>2, <2>3, <2>4, <2>5
<1>3. Sequential' <=> Sequential
  BY DEF Sequential
<1> QED
  BY <1>1, <1>2, <1>3 DEF SeqInv

LEMMA SeqInvariant == Spec => [](Inv /\ SeqInv)
<1>1. Init => SeqInv
  <2> SUFFICES ASSUME Init PROVE SeqInv
    OBVIOUS
  <2>1. /\ blocks = <<>> /\ env.callers \subseteq Calls
        /\ \A b \in Hash : childCache[b].list = <<>>
        /\ \A d \in Calls : calls[d] = NewCall
    BY BlocktreeAssumption DEF Init, NotCached, BlocktreeAssumption
  <2>. DEFINE e == <<>>
  <2>2. ASSUME NEW b PROVE RootsIn(blocks, e) = e /\ ChildRootsIn(blocks, b) = e
    <3>1. RootsIn(blocks, e) = e
      BY MatchingEmpty DEF RootsIn
    <3>2. [n \in DOMAIN blocks |-> n] = e
      BY <2>1
    <3>3. \A S : Matching(e, S) = e
      BY MatchingEmpty
    <3> QED
      BY <3>1, <3>2, <3>3 DEF ChildRootsIn
  <2>. HIDE DEF e
  <2>3. NewCall.op = "none" /\ NewCall.pc = "idle"
    BY NewCallTyped DEF NewCall
  <2>4. ASSUME NEW b \in Hash
        PROVE  RootsIn(blocks, Expected(childCache, NewCall, b)) = ChildRootsIn(blocks, b)
    BY <2>1, <2>2, <2>3 DEF Expected, e
  <2>5. SeqOK(blocks, childCache, NewCall)
    BY <2>3, <2>4 DEF SeqOK, Checked
  <2> QED
    BY <2>1, <2>5 DEF SeqInv
<1>2. Inv /\ SeqInv /\ [Next]_vars => SeqInv'
  <2>1. ASSUME Inv, SeqInv, UNCHANGED vars PROVE SeqInv'
    BY <2>1 DEF SeqInv, Sequential, vars
  <2> QED
    BY <2>1, BlocktreeAssumption, SeqInvStep DEF Next
<1> QED
  BY <1>1, <1>2, Invariant, PTL DEF Spec

(* With one call at a time performChildScan returns the roots of the child *)
(* chains, each once and in the order of the storage, from the cache that  *)
(* writers pushed onto as well as from a scan.                             *)
THEOREM ChildScansAreExact == Spec => []ChildScanExact
<1>1. ASSUME Inv, SeqInv, Sequential, NEW c \in Calls, At(c, "idle"), calls[c].op = "scan"
      PROVE  Matching(calls[c].list, {n \in DOMAIN blocks : blocks[n].prev = 0})
                 = ChildRoots(calls[c].parent)
  <2>1. NewCall.op = "none"
    BY DEF NewCall
  <2>2. c \in env.callers
    BY <1>1, <2>1 DEF SeqInv
  <2>3. RootsIn(blocks, calls[c].list) = ChildRootsIn(blocks, calls[c].parent)
    BY <1>1, <2>2 DEF SeqInv, SeqOK, At
  <2> QED
    BY <2>3, ScansIn
<1>2. Inv /\ SeqInv => ChildScanExact
  BY <1>1 DEF ChildScanExact
<1> QED
  BY <1>2, SeqInvariant, PTL
=============================================================================
