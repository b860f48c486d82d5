-------------------------- MODULE SecureReadsProofs --------------------------
(***************************************************************************)
(* Proofs about SecureReads, for every set of keys, grants and times and   *)
(* every tree: that the loops of layer 3 find what they should, and that a *)
(* key that grants a key derives from one that nobody granted.             *)
(***************************************************************************)
EXTENDS SecureReads, SecureBlocktreeProofs

(***************************************************************************)
(* The scan of one chain.  A scan from n is a function of the keys that    *)
(* newer entries have hidden.                                              *)
(***************************************************************************)
Results == [result : Seq(DOMAIN blocks), found : BOOLEAN]

Listing(n, types, actions) == blocks[n].type \in types /\ blocks[n].grant.action \in actions

ScanBody(n, older, types, actions, key, now) ==
    [hidden \in KeySets |->
        IF Listing(n, types, actions)
        THEN Look(n, key, Hidden(hidden, blocks[n].grant, now), older) ELSE older[hidden]]

NothingOlder == [hidden \in KeySets |-> Nothing]

LEMMA BodyTyped ==
    ASSUME SecureAssumption, LinksBack(blocks), NEW n \in DOMAIN blocks,
           NEW older \in [KeySets -> Results], NEW types, NEW actions, NEW key, NEW now
    PROVE  /\ ScanBody(n, older, types, actions, key, now) \in [KeySets -> Results]
           /\ \A hidden \in KeySets : Hidden(hidden, blocks[n].grant, now) \in KeySets
<1>. DEFINE g == blocks[n].grant
<1>1. g.key \in Keys \cup {NoKey}
  BY StorageFacts DEF Block, GrantData
<1>2. ASSUME NEW hidden \in KeySets PROVE Hidden(hidden, g, now) \in KeySets
  BY <1>1 DEF KeySets, Hidden
<1>3. <<n>> \in Seq(DOMAIN blocks)
  OBVIOUS
<1>4. ASSUME NEW h \in KeySets PROVE Look(n, key, h, older) \in Results
  <2>1. older[h] \in Results
    OBVIOUS
  <2>2. [older[h] EXCEPT !.result = <<n>> \o @] \in Results
    <3>1. older[h].result \in Seq(DOMAIN blocks)
      BY <2>1 DEF Results
    <3>2. <<n>> \o older[h].result \in Seq(DOMAIN blocks)
      BY <1>3, <3>1, ConcatProperties
    <3> QED
      BY <2>1, <3>2 DEF Results
  <2>3. [result |-> <<n>>, found |-> TRUE] \in Results
    BY <1>3 DEF Results
  <2> QED
    BY <2>1, <2>2, <2>3 DEF Look
<1> QED
  BY <1>2, <1>4 DEF ScanBody

LEMMA ScanExists ==
    ASSUME SecureAssumption, LinksBack(blocks), NEW types, NEW actions, NEW key, NEW now
    PROVE  \E f \in [DOMAIN blocks -> [KeySets -> Results]] :
               /\ \A n \in DOMAIN blocks :
                     f[n] = ScanBody(n, IF blocks[n].prev = 0 THEN NothingOlder
                                        ELSE f[blocks[n].prev], types, actions, key, now)
               /\ \A head : ChainScan(head, types, actions, key, now) = f[head][{}]
<1>. DEFINE D == DOMAIN blocks
            V == [KeySets -> Results]
            Of(n, older) == ScanBody(n, older, types, actions, key, now)
            Body(f, n) == Of(n, IF blocks[n].prev = 0 THEN NothingOlder ELSE f[blocks[n].prev])
            scan[n \in D] == Body(scan, n)
            up   == [n \in D |-> blocks[n].prev]
            last == [n \in D |-> Of(n, NothingOlder)]
            next == [n \in D |-> [v \in V |-> Of(n, v)]]
<1>0. /\ D = 1 .. Len(blocks) /\ Len(blocks) \in Nat
      /\ \A n \in D : blocks[n].prev \in 0 .. n - 1
  BY DEF LinksBack
<1>1. NothingOlder \in V
  <2>1. <<>> \in Seq(D)
    OBVIOUS
  <2> QED
    BY <2>1 DEF NothingOlder, Nothing, Results
<1>2. \A n \in D : \A v \in V : Of(n, v) \in V
  BY BodyTyped
<1>. HIDE DEF V, Of
<1>3. PICK f \in [D -> V] : IsWalk(f, Len(blocks), up, last, next)
  <2>1. Descends(up, Len(blocks))
    BY <1>0 DEF Descends
  <2>2. last \in [D -> V] /\ next \in [D -> [V -> V]]
    BY <1>1, <1>2
  <2>. HIDE DEF up, last, next, D
  <2> QED
    BY <1>0, <2>1, <2>2, WalkExists
<1>4. \A n \in D : f[n] = Body(f, n)
  <2> TAKE n \in D
  <2>1. f[n] = IF up[n] = 0 THEN last[n] ELSE next[n][f[up[n]]]
    BY <1>0, <1>3 DEF IsWalk
  <2>2. CASE blocks[n].prev = 0
    BY <2>1, <2>2
  <2>3. CASE blocks[n].prev # 0
    <3>1. blocks[n].prev \in D /\ f[blocks[n].prev] \in V
      BY <1>0, <2>3
    <3> QED
      BY <2>1, <2>3, <3>1
  <2> QED
    BY <2>2, <2>3
<1>5. scan = [n \in D |-> Body(scan, n)]
  <2>1. f = [n \in D |-> Body(f, n)]
    BY <1>4
  <2>2. \E h : h = [n \in D |-> Body(h, n)]
    BY <2>1
  <2>. HIDE DEF Body
  <2> QED
    BY <2>2 DEF scan
<1>6. \A head : ChainScan(head, types, actions, key, now) = scan[head][{}]
  BY DEF ChainScan, Of, ScanBody, NothingOlder, Listing
<1>. HIDE DEF scan
<1>7. \A n \in D : scan[n] \in V
  <2>. DEFINE Good == {n \in D : scan[n] \in V}
  <2>1. ASSUME NEW n \in 1 .. Len(blocks), \A m \in 1 .. n - 1 : m \in Good
        PROVE  n \in Good
    <3>1. scan[n] = Body(scan, n)
      BY <1>0, <1>5
    <3>2. CASE blocks[n].prev = 0
      BY <1>0, <1>1, <1>2, <3>1, <3>2
    <3>3. CASE blocks[n].prev # 0
      <4>1. scan[blocks[n].prev] \in V
        BY <1>0, <2>1, <3>3
      <4> QED
        BY <1>0, <1>2, <3>1, <3>3, <4>1
    <3> QED
      BY <3>2, <3>3
  <2>2. \A n \in 1 .. Len(blocks) : n \in Good
    <3>. HIDE DEF Good
    <3> QED
      BY <1>0, <2>1, InductionUpTo
  <2> QED
    BY <1>0, <2>2
<1>8. scan \in [D -> V]
  BY <1>5, <1>7
<1>9. \A n \in D : scan[n] = Body(scan, n)
  BY <1>5
<1> QED
  BY <1>6, <1>8, <1>9 DEF V, Of

(* The entries about a key that a scan from head comes to, and what it     *)
(* returns when the newest of them is active, and when not.                *)
Listed(head, types, actions, key) ==
    {n \in ChainIn(blocks, head) : Listing(n, types, actions) /\ blocks[n].grant.key = key}

ActiveAt(E, now) == E # {} /\ IsKeyActive(blocks[Max(E)].grant, now)

Finds(scan, E) ==
    scan.found /\ Len(scan.result) > 0 /\ scan.result[Len(scan.result)] = Max(E)

Misses(scan, key) ==
    ~scan.found /\ \A i \in 1 .. Len(scan.result) : blocks[scan.result[i]].grant.key # key

ScansRight(f, E, key, now) ==
    \A hidden \in KeySets :
        IF key \notin hidden /\ ActiveAt(E, now) THEN Finds(f[hidden], E) ELSE Misses(f[hidden], key)

(* One block, given what the scan returns from the older blocks.           *)
LEMMA BodyScansRight ==
    ASSUME SecureAssumption, LinksBack(blocks), NEW n \in DOMAIN blocks,
           NEW types, NEW actions, NEW key, NEW now,
           NEW older \in [KeySets -> Results], NEW E \in SUBSET (1 .. n - 1),
           ScansRight(older, E, key, now)
    PROVE  LET here == Listing(n, types, actions) /\ blocks[n].grant.key = key IN
           ScansRight(ScanBody(n, older, types, actions, key, now),
                      IF here THEN E \cup {n} ELSE E, key, now)
<1>. DEFINE g == blocks[n].grant
            here == Listing(n, types, actions) /\ g.key = key
            F == IF here THEN E \cup {n} ELSE E
            scan == ScanBody(n, older, types, actions, key, now)
<1>0. n \in Nat \ {0}
  BY StorageFacts
<1>1. here => Max(F) = n
  <2> SUFFICES ASSUME here PROVE Max(E \cup {n}) = n
    OBVIOUS
  <2>1. n \in E \cup {n} /\ \A x \in E \cup {n} : n >= x /\ x \in Nat
    BY <1>0
  <2>2. \A x \in E \cup {n} : (\A y \in E \cup {n} : x >= y) => x = n
    BY <1>0, <2>1
  <2> QED
    BY <2>1, <2>2 DEF Max
<1> SUFFICES ASSUME NEW hidden \in KeySets
             PROVE  IF key \notin hidden /\ ActiveAt(F, now)
                    THEN Finds(scan[hidden], F) ELSE Misses(scan[hidden], key)
  BY DEF ScansRight
<1>. DEFINE h == Hidden(hidden, g, now)
<1>2. h \in KeySets /\ older[hidden] \in Results /\ older[h] \in Results
  BY BodyTyped
<1>3. scan[hidden] = IF Listing(n, types, actions) THEN Look(n, key, h, older)
                     ELSE older[hidden]
  BY DEF ScanBody
<1>4. /\ IF key \notin hidden /\ ActiveAt(E, now)
         THEN Finds(older[hidden], E) ELSE Misses(older[hidden], key)
      /\ IF key \notin h /\ ActiveAt(E, now)
         THEN Finds(older[h], E) ELSE Misses(older[h], key)
  BY <1>2 DEF ScansRight
<1>5. CASE ~Listing(n, types, actions)
  BY <1>3, <1>4, <1>5
<1>6. CASE here
  <2>1. ActiveAt(F, now) <=> IsKeyActive(g, now)
    BY <1>1, <1>6 DEF ActiveAt
  <2>2. key \in h <=> key \in hidden \/ ~IsKeyActive(g, now)
    BY <1>6 DEF Hidden
  <2>3. CASE key \in h
    <3>1. Look(n, key, h, older) = older[h]
      BY <1>6, <2>3 DEF Look
    <3> QED
      BY <1>3, <1>4, <1>6, <2>1, <2>2, <2>3, <3>1
  <2>4. CASE key \notin h
    <3>1. Look(n, key, h, older) = [result |-> <<n>>, found |-> TRUE]
      BY <1>6, <2>4 DEF Look
    <3>2. Finds([result |-> <<n>>, found |-> TRUE], F)
      BY <1>1, <1>6 DEF Finds
    <3> QED
      BY <1>3, <1>6, <2>1, <2>2, <2>4, <3>1, <3>2
  <2> QED
    BY <2>3, <2>4
<1>7. CASE Listing(n, types, actions) /\ g.key # key
  <2>1. key \in h <=> key \in hidden
    BY <1>7 DEF Hidden
  <2>2. F = E
    BY <1>7
  <2>3. CASE g.key \in h
    <3>1. Look(n, key, h, older) = older[h]
      BY <2>3 DEF Look
    <3> QED
      BY <1>3, <1>4, <1>7, <2>1, <2>2, <3>1
  <2>4. CASE g.key \notin h
    <3>. DEFINE r == older[h]
                w == [r EXCEPT !.result = <<n>> \o @]
    <3>1. Look(n, key, h, older) = w
      BY <1>7, <2>4 DEF Look
    <3>2. r.result \in Seq(DOMAIN blocks) /\ w.found = r.found /\ w.result = <<n>> \o r.result
      BY <1>2 DEF Results
    <3>. DEFINE L == Len(r.result)
    <3>3. /\ L \in Nat /\ Len(w.result) = L + 1 /\ w.result[1] = n
          /\ \A i \in 1 .. L : w.result[i + 1] = r.result[i]
      BY <3>2
    <3>. HIDE DEF r, w, L
    <3>4. Finds(r, E) => Finds(w, E)
      <4> SUFFICES ASSUME Finds(r, E) PROVE Finds(w, E)
        OBVIOUS
      <4>1. L \in 1 .. L /\ r.result[L] = Max(E) /\ r.found
        BY <3>3 DEF Finds, L
      <4>2. w.result[L + 1] = Max(E)
        BY <3>3, <4>1
      <4> QED
        BY <3>2, <3>3, <4>1, <4>2 DEF Finds
    <3>5. Misses(r, key) => Misses(w, key)
      <4> SUFFICES ASSUME Misses(r, key), NEW i \in 1 .. L + 1
                   PROVE  blocks[w.result[i]].grant.key # key
        BY <3>2, <3>3 DEF Misses
      <4>1. CASE i = 1
        BY <1>7, <3>3, <4>1
      <4>2. CASE i # 1
        <5>1. i - 1 \in 1 .. L /\ w.result[i] = r.result[i - 1]
          BY <3>3, <4>2
        <5> QED
          BY <5>1 DEF Misses, L
      <4> QED
        BY <4>1, <4>2
    <3> QED
      BY <1>3, <1>4, <1>7, <2>1, <2>2, <3>1, <3>4, <3>5 DEF r
  <2> QED
    BY <2>3, <2>4
<1> QED
  BY <1>5, <1>6, <1>7

(* The scan of a chain ends at the newest entry about the key if that one  *)
(* is active, and lists nothing about the key otherwise.                   *)
LEMMA ChainScanFinds ==
    ASSUME SecureAssumption, LinksBack(blocks), NEW head \in DOMAIN blocks,
           NEW types, NEW actions, NEW key, NEW now
    PROVE  LET scan == ChainScan(head, types, actions, key, now)
               E == Listed(head, types, actions, key)
           IN  /\ scan \in Results
               /\ IF ActiveAt(E, now) THEN Finds(scan, E) ELSE Misses(scan, key)
<1>. DEFINE E(n) == Listed(n, types, actions, key)
<1>0. /\ DOMAIN blocks = 1 .. Len(blocks) /\ Len(blocks) \in Nat
      /\ \A n \in DOMAIN blocks : blocks[n].prev \in 0 .. n - 1
  BY DEF LinksBack
<1>1. PICK f \in [DOMAIN blocks -> [KeySets -> Results]] :
          /\ \A n \in DOMAIN blocks :
                f[n] = ScanBody(n, IF blocks[n].prev = 0 THEN NothingOlder
                                   ELSE f[blocks[n].prev], types, actions, key, now)
          /\ \A b : ChainScan(b, types, actions, key, now) = f[b][{}]
  BY ScanExists
<1>. DEFINE Good == {n \in DOMAIN blocks : ScansRight(f[n], E(n), key, now)}
<1>2. ASSUME NEW n \in 1 .. Len(blocks), \A m \in 1 .. n - 1 : m \in Good
      PROVE  n \in Good
  <2>. DEFINE p == blocks[n].prev
              older == IF p = 0 THEN NothingOlder ELSE f[p]
              EO == IF p = 0 THEN {} ELSE E(p)
              here == Listing(n, types, actions) /\ blocks[n].grant.key = key
  <2>1. n \in DOMAIN blocks /\ p \in 0 .. n - 1
    BY <1>0
  <2>2. older \in [KeySets -> Results] /\ ScansRight(older, EO, key, now)
    <3>1. CASE p = 0
      <4>1. <<>> \in Seq(DOMAIN blocks) /\ Len(<<>>) = 0
        OBVIOUS
      <4>2. NothingOlder \in [KeySets -> Results]
        BY <4>1 DEF NothingOlder, Nothing, Results
      <4>3. \A hidden \in KeySets : Misses(NothingOlder[hidden], key)
        BY <4>1 DEF NothingOlder, Nothing, Misses
      <4> QED
        BY <3>1, <4>2, <4>3 DEF ScansRight, ActiveAt
    <3>2. CASE p # 0
      <4>1. p \in 1 .. n - 1 /\ p \in DOMAIN blocks
        BY <1>0, <2>1, <3>2
      <4> QED
        BY <1>1, <1>2, <3>2, <4>1
    <3> QED
      BY <3>1, <3>2
  <2>3. EO \in SUBSET (1 .. n - 1)
    <3>1. CASE p = 0
      BY <3>1
    <3>2. CASE p # 0
      <4>1. p \in DOMAIN blocks /\ \A x \in 1 .. p : x \in 1 .. n - 1
        BY <1>0, <2>1, <3>2
      <4>2. \A x \in ChainIn(blocks, p) : x \in 1 .. p
        BY <4>1, ChainFacts
      <4> QED
        BY <3>2, <4>1, <4>2 DEF Listed
    <3> QED
      BY <3>1, <3>2
  <2>4. E(n) = IF here THEN EO \cup {n} ELSE EO
    <3>1. ChainIn(blocks, n) = {n} \cup IF p = 0 THEN {} ELSE ChainIn(blocks, p)
      BY <2>1, ChainStep
    <3> QED
      BY <3>1 DEF Listed
  <2>5. f[n] = ScanBody(n, older, types, actions, key, now)
    BY <1>1, <2>1
  <2>. HIDE DEF E, EO, older
  <2>6. ScansRight(ScanBody(n, older, types, actions, key, now),
                   IF here THEN EO \cup {n} ELSE EO, key, now)
    BY <2>1, <2>2, <2>3, BodyScansRight
  <2> QED
    BY <2>1, <2>4, <2>5, <2>6
<1>3. \A n \in 1 .. Len(blocks) : n \in Good
  <2>. HIDE DEF Good
  <2> QED
    BY <1>0, <1>2, InductionUpTo
<1>4. {} \in KeySets /\ key \notin {}
  BY DEF KeySets
<1>5. ScansRight(f[head], E(head), key, now) /\ f[head] \in [KeySets -> Results]
  BY <1>0, <1>1, <1>3
<1>6. ChainScan(head, types, actions, key, now) = f[head][{}]
  BY <1>1
<1> QED
  BY <1>4, <1>5, <1>6 DEF ScansRight

(***************************************************************************)
(* The scan from a block up.                                               *)
(***************************************************************************)
LEMMA AboveIsBefore ==
    ASSUME SecureAssumption, NEW s, LinksBack(s)
    PROVE  \A b \in DOMAIN s : AboveIn(s, b) \subseteq 1 .. b
<1>. DEFINE Good == {b \in DOMAIN s : AboveIn(s, b) \subseteq 1 .. b}
<1>0. DOMAIN s = 1 .. Len(s) /\ Len(s) \in Nat /\ \A b \in DOMAIN s : s[b].parent \in 0 .. b - 1
  BY DEF LinksBack
<1>1. ASSUME NEW b \in 1 .. Len(s), \A m \in 1 .. b - 1 : m \in Good
      PROVE  b \in Good
  <2>1. AboveIn(s, b) = {RootIn(s, b)} \cup
            IF s[b].parent = 0 THEN {} ELSE AboveIn(s, s[b].parent)
    BY <1>0, AboveStep
  <2>2. RootIn(s, b) \in 1 .. b
    <3>1. b \in DOMAIN s
      BY <1>0
    <3>2. RootIn(s, b) \in DOMAIN s /\ RootIn(s, b) <= b
      BY <3>1, RootFacts
    <3> QED
      BY <1>0, <3>2
  <2>3. CASE s[b].parent = 0
    BY <1>0, <2>1, <2>2, <2>3
  <2>4. CASE s[b].parent # 0
    <3>1. s[b].parent \in 1 .. b - 1 /\ s[b].parent \in Good
      BY <1>0, <1>1, <2>4
    <3> QED
      BY <1>0, <2>1, <2>2, <2>4, <3>1
  <2> QED
    BY <2>3, <2>4
<1>2. \A b \in 1 .. Len(s) : b \in Good
  <2>. HIDE DEF Good
  <2> QED
    BY <1>0, <1>1, InductionUpTo
<1> QED
  BY <1>0, <1>2

(* The block above a chain, which its callers know as well.                *)
ParentOf(n) == blocks[RootOf(n)].parent

LEMMA KnownParent ==
    ASSUME SecureAssumption, Inv, NEW n \in Known
    PROVE  /\ n \in DOMAIN blocks /\ headCache[RootOf(n)] \in DOMAIN blocks
           /\ RootOf(n) \in 1 .. n /\ ParentOf(n) \in 0 .. RootOf(n) - 1
           /\ ParentOf(n) # 0 => ParentOf(n) \in Known
           /\ Above(n) = {RootOf(n)} \cup IF ParentOf(n) = 0 THEN {} ELSE Above(ParentOf(n))
<1>. DEFINE r == RootIn(blocks, n)
            p == blocks[r].parent
<1>0. /\ LinksBack(blocks) /\ ShapeIn(blocks) /\ HeadsOK(blocks, headCache)
      /\ DOMAIN blocks = 1 .. Len(blocks) /\ Len(blocks) \in Nat
  BY Facts DEF Inv
<1>1. /\ n \in DOMAIN blocks /\ RootOf(n) = r /\ r \in DOMAIN blocks
      /\ headCache[r] \in DOMAIN blocks
  BY KnownFacts
<1>2. r \in 1 .. n /\ p \in 0 .. r - 1 /\ p = blocks[n].parent
  <2>1. r <= n /\ p = blocks[n].parent
    BY <1>0, <1>1, RootFacts, Inherits
  <2>2. p \in 0 .. r - 1
    BY <1>0, <1>1 DEF LinksBack
  <2> QED
    BY <1>0, <1>1, <2>1, <2>2
<1>3. p # 0 => p \in Known
  BY <1>0, <1>1, WalksIn DEF HeadsOK, Headed, Known
<1>4. Above(n) = {r} \cup IF p = 0 THEN {} ELSE Above(p)
  BY <1>0, <1>1, <1>2, AboveStep, WalksIn
<1> QED
  BY <1>1, <1>2, <1>3, <1>4 DEF ParentOf

LEMMA ScanStep ==
    ASSUME SecureAssumption, Inv, NEW b \in Known,
           NEW types, NEW actions, NEW key, NEW now
    PROVE  LET here == ChainScan(headCache[RootOf(b)], types, actions, key, now) IN
           Scan(b, types, actions, key, now) =
               IF here.found \/ ParentOf(b) = 0 THEN here.result
               ELSE here.result \o Scan(ParentOf(b), types, actions, key, now)
<1>. DEFINE D == DOMAIN blocks
            V == Seq(D)
            Here(n) == ChainScan(headCache[RootOf(n)], types, actions, key, now)
            Body(f, n) == LET here == Here(n)
                              up   == blocks[RootOf(n)].parent
                          IN  IF here.found \/ up = 0 THEN here.result ELSE here.result \o f[up]
            scan[n \in Known] == Body(scan, n)
            up   == [n \in D |-> IF n \in Known THEN ParentOf(n) ELSE 0]
            last == [n \in D |-> IF n \in Known THEN Here(n).result ELSE <<>>]
            next == [n \in D |-> [v \in V |->
                        IF n \in Known
                        THEN IF Here(n).found THEN Here(n).result ELSE Here(n).result \o v
                        ELSE <<>>]]
<1>0. /\ LinksBack(blocks) /\ D = 1 .. Len(blocks) /\ Len(blocks) \in Nat
      /\ Known \subseteq D
  BY Facts DEF Inv, Known
<1>1. \A n \in Known : Here(n).result \in V
  <2> TAKE n \in Known
  <2>1. headCache[RootOf(n)] \in DOMAIN blocks
    BY KnownParent
  <2>2. Here(n) \in Results
    BY <1>0, <2>1, ChainScanFinds
  <2> QED
    BY <2>2 DEF Results
<1>2. \A n \in Known : ParentOf(n) \in 0 .. n - 1 /\ (ParentOf(n) # 0 => ParentOf(n) \in Known)
  <2> TAKE n \in Known
  <2>1. /\ RootOf(n) \in 1 .. n /\ ParentOf(n) \in 0 .. RootOf(n) - 1 /\ n \in D
        /\ ParentOf(n) # 0 => ParentOf(n) \in Known
    BY KnownParent
  <2> QED
    BY <1>0, <2>1
<1>. HIDE DEF Here
<1>3. PICK f \in [D -> V] : IsWalk(f, Len(blocks), up, last, next)
  <2>1. Descends(up, Len(blocks))
    <3>1. \A n \in 1 .. Len(blocks) : up[n] \in 0 .. n - 1
      BY <1>0, <1>2
    <3> QED
      BY <3>1 DEF Descends
  <2>2. <<>> \in V /\ \A v, w \in V : v \o w \in V
    BY ConcatProperties
  <2>. HIDE DEF V
  <2>3. last \in [D -> V]
    BY <1>1, <2>2
  <2>4. next \in [D -> [V -> V]]
    BY <1>1, <2>2
  <2>. HIDE DEF up, last, next, D
  <2> QED
    BY <1>0, <2>1, <2>3, <2>4, WalkExists
<1>4. \A n \in Known : f[n] = Body(f, n)
  <2> TAKE n \in Known
  <2>0. n \in D /\ up[n] = ParentOf(n)
    BY <1>0
  <2>1. f[n] = IF up[n] = 0 THEN last[n] ELSE next[n][f[up[n]]]
    BY <1>0, <1>3, <2>0 DEF IsWalk
  <2>2. CASE ParentOf(n) = 0
    BY <2>0, <2>1, <2>2 DEF ParentOf
  <2>3. CASE ParentOf(n) # 0
    <3>1. f[ParentOf(n)] \in V
      BY <1>0, <1>2, <2>3
    <3>. HIDE DEF V
    <3> QED
      BY <2>0, <2>1, <2>3, <3>1 DEF ParentOf
  <2> QED
    BY <2>2, <2>3
<1>5. scan = [n \in Known |-> Body(scan, n)]
  <2>. DEFINE g == [n \in Known |-> f[n]]
  <2>1. \A n \in Known : g[n] = Body(g, n)
    <3> TAKE n \in Known
    <3>1. ParentOf(n) # 0 => g[ParentOf(n)] = f[ParentOf(n)]
      BY <1>2
    <3> QED
      BY <1>4, <3>1 DEF ParentOf
  <2>2. g = [n \in Known |-> Body(g, n)]
    <3>. HIDE DEF Body
    <3>1. \A n \in Known : Body(g, n) = f[n]
      BY <2>1
    <3> QED
      BY <3>1
  <2>3. \E h : h = [n \in Known |-> Body(h, n)]
    BY <2>2
  <2>. HIDE DEF Body
  <2> QED
    BY <2>3 DEF scan
<1>6. \A n : Scan(n, types, actions, key, now) = scan[n]
  BY DEF Scan, Here
<1>. HIDE DEF scan
<1>7. scan[b] = Body(scan, b)
  BY <1>5
<1> QED
  BY <1>6, <1>7 DEF Here, ParentOf

(* The chains at or above b whose newest entry about the key is active.    *)
ActiveAbove(b, types, actions, key, now) ==
    {r \in Above(b) : ActiveAt(Listed(headCache[r], types, actions, key), now)}

(* The last entry of a scan is about the key in the nearest of them, and   *)
(* if there is none the scan lists nothing about the key.                  *)
LEMMA ScanFinds ==
    ASSUME SecureAssumption, Inv, NEW b \in Known,
           NEW types, NEW actions, NEW key, NEW now
    PROVE  LET A == ActiveAbove(b, types, actions, key, now)
               result == Scan(b, types, actions, key, now)
           IN  /\ result \in Seq(DOMAIN blocks)
               /\ A = {} => \A i \in 1 .. Len(result) : blocks[result[i]].grant.key # key
               /\ A # {} => /\ Len(result) > 0
                            /\ result[Len(result)] =
                                  Max(Listed(headCache[Max(A)], types, actions, key))
<1>. DEFINE A(n) == ActiveAbove(n, types, actions, key, now)
            E(r) == Listed(headCache[r], types, actions, key)
            Res(n) == Scan(n, types, actions, key, now)
            Right(n) ==
                /\ Res(n) \in Seq(DOMAIN blocks)
                /\ A(n) = {} => \A i \in 1 .. Len(Res(n)) : blocks[Res(n)[i]].grant.key # key
                /\ A(n) # {} => Len(Res(n)) > 0 /\ Res(n)[Len(Res(n))] = Max(E(Max(A(n))))
            Good == {n \in Nat : n \in Known => Right(n)}
<1>0. /\ LinksBack(blocks) /\ DOMAIN blocks = 1 .. Len(blocks) /\ Len(blocks) \in Nat
  BY Facts DEF Inv
<1>1. ASSUME NEW n \in 1 .. Len(blocks), \A m \in 1 .. n - 1 : m \in Good
      PROVE  n \in Good
  <2> SUFFICES ASSUME n \in Known PROVE Right(n)
    OBVIOUS
  <2>. DEFINE r == RootOf(n)
              p == ParentOf(n)
              here == ChainScan(headCache[r], types, actions, key, now)
              L == Len(here.result)
  <2>1. /\ headCache[r] \in DOMAIN blocks /\ r \in 1 .. n /\ p \in 0 .. r - 1
        /\ p # 0 => p \in Known
        /\ Above(n) = {r} \cup IF p = 0 THEN {} ELSE Above(p)
    BY KnownParent
  <2>2. /\ here \in Results
        /\ IF ActiveAt(E(r), now) THEN Finds(here, E(r)) ELSE Misses(here, key)
    BY <1>0, <2>1, ChainScanFinds
  <2>3. Res(n) = IF here.found \/ p = 0 THEN here.result ELSE here.result \o Res(p)
    BY ScanStep
  <2>4. here.result \in Seq(DOMAIN blocks) /\ L \in Nat
    BY <2>2 DEF Results
  <2>5. p # 0 => Right(p) /\ Above(p) \subseteq 1 .. p
    <3> SUFFICES ASSUME p # 0 PROVE Right(p) /\ Above(p) \subseteq 1 .. p
      OBVIOUS
    <3>1. p \in 1 .. n - 1 /\ p \in DOMAIN blocks
      BY <1>0, <2>1
    <3>2. p \in Good
      BY <1>1, <3>1
    <3>3. Above(p) \subseteq 1 .. p
      BY <1>0, <3>1, AboveIsBefore, WalksIn
    <3> QED
      BY <2>1, <3>2, <3>3
  <2>6. A(n) = (IF ActiveAt(E(r), now) THEN {r} ELSE {}) \cup IF p = 0 THEN {} ELSE A(p)
    BY <2>1 DEF ActiveAbove
  <2>. HIDE DEF E, Res, here, p, r
  <2>7. CASE ActiveAt(E(r), now)
    <3>1. here.found /\ L > 0 /\ here.result[L] = Max(E(r))
      BY <2>2, <2>7 DEF Finds
    <3>2. r \in A(n) /\ \A x \in A(n) : x \in Nat /\ r >= x
      <4>1. r \in A(n)
        BY <2>6, <2>7
      <4>2. \A x \in A(n) : x = r \/ (p # 0 /\ x \in Above(p))
        BY <2>6 DEF ActiveAbove
      <4>. HIDE DEF A
      <4> QED
        BY <2>1, <2>5, <4>1, <4>2
    <3>3. Max(A(n)) = r
      <4>. HIDE DEF A
      <4>1. \A x \in A(n) : (\A y \in A(n) : x >= y) => x = r
        BY <3>2
      <4> QED
        BY <3>2, <4>1 DEF Max
    <3> QED
      BY <2>3, <2>4, <3>1, <3>2, <3>3
  <2>8. CASE ~ActiveAt(E(r), now)
    <3>1. ~here.found /\ \A i \in 1 .. L : blocks[here.result[i]].grant.key # key
      BY <2>2, <2>8 DEF Misses
    <3>2. CASE p = 0
      <4>1. A(n) = {} /\ Res(n) = here.result
        BY <2>3, <2>6, <2>8, <3>2
      <4> QED
        BY <2>4, <3>1, <4>1
    <3>3. CASE p # 0
      <4>. DEFINE u == Res(p)
                  M == Len(u)
                  w == here.result \o u
      <4>1. A(n) = A(p) /\ Res(n) = w /\ Right(p)
        BY <2>3, <2>5, <2>6, <2>8, <3>1, <3>3
      <4>2. u \in Seq(DOMAIN blocks)
        BY <4>1
      <4>3. /\ w \in Seq(DOMAIN blocks) /\ M \in Nat /\ Len(w) = L + M
            /\ \A i \in 1 .. L : w[i] = here.result[i]
            /\ \A i \in 1 .. M : w[L + i] = u[i]
        <5>. HIDE DEF u
        <5> QED
          BY <2>4, <4>2, ConcatProperties
      <4>. HIDE DEF A, w, L, M
      <4>4. CASE A(p) = {}
        <5>1. ASSUME NEW i \in 1 .. L + M PROVE blocks[w[i]].grant.key # key
          <6>1. CASE i <= L
            <7>1. i \in 1 .. L
              BY <2>4, <6>1
            <7>2. w[i] = here.result[i]
              BY <4>3, <7>1
            <7> QED
              BY <3>1, <7>1, <7>2 DEF L
          <6>2. CASE i > L
            <7>1. i - L \in 1 .. M /\ w[i] = u[i - L]
              BY <2>4, <4>3, <6>2
            <7> QED
              BY <4>1, <4>4, <7>1 DEF M
          <6> QED
            BY <2>4, <4>3, <6>1, <6>2
        <5> QED
          BY <4>1, <4>3, <4>4, <5>1
      <4>5. CASE A(p) # {}
        <5>1. M > 0 /\ u[M] = Max(E(Max(A(p))))
          BY <4>1, <4>5 DEF M
        <5>2. L + M > 0 /\ w[L + M] = u[M]
          BY <2>4, <4>3, <5>1
        <5> QED
          BY <4>1, <4>3, <4>5, <5>1, <5>2
      <4> QED
        BY <4>4, <4>5
    <3> QED
      BY <3>2, <3>3
  <2> QED
    BY <2>7, <2>8
<1>2. \A n \in 1 .. Len(blocks) : n \in Good
  <2>. HIDE DEF Good
  <2> QED
    BY <1>0, <1>1, InductionUpTo
<1>3. b \in 1 .. Len(blocks)
  BY <1>0, KnownParent
<1> QED
  BY <1>2, <1>3


(* The chains above a block that callers know have their heads cached.     *)
LEMMA AboveHeaded ==
    ASSUME SecureAssumption, Inv, NEW b \in Known
    PROVE  \A r \in Above(b) : r \in 1 .. b /\ headCache[r] \in DOMAIN blocks
<1>. DEFINE Good == {n \in Nat : n \in Known =>
                        \A r \in Above(n) : r \in 1 .. n /\ headCache[r] \in DOMAIN blocks}
<1>0. LinksBack(blocks) /\ DOMAIN blocks = 1 .. Len(blocks) /\ Len(blocks) \in Nat
  BY Facts DEF Inv
<1>1. ASSUME NEW n \in 1 .. Len(blocks), \A m \in 1 .. n - 1 : m \in Good
      PROVE  n \in Good
  <2> SUFFICES ASSUME n \in Known, NEW r \in Above(n)
               PROVE  r \in 1 .. n /\ headCache[r] \in DOMAIN blocks
    OBVIOUS
  <2>1. /\ headCache[RootOf(n)] \in DOMAIN blocks /\ RootOf(n) \in 1 .. n
        /\ ParentOf(n) \in 0 .. RootOf(n) - 1
        /\ ParentOf(n) # 0 => ParentOf(n) \in Known
        /\ Above(n) = {RootOf(n)} \cup IF ParentOf(n) = 0 THEN {} ELSE Above(ParentOf(n))
    BY KnownParent
  <2>2. CASE r = RootOf(n)
    BY <2>1, <2>2
  <2>3. CASE r # RootOf(n)
    <3>1. ParentOf(n) # 0 /\ r \in Above(ParentOf(n)) /\ ParentOf(n) \in Known
      BY <2>1, <2>3
    <3>2. ParentOf(n) \in 1 .. n - 1
      BY <1>0, <2>1, <3>1
    <3>3. r \in 1 .. ParentOf(n) /\ headCache[r] \in DOMAIN blocks
      BY <1>1, <3>1, <3>2
    <3> QED
      BY <1>0, <3>2, <3>3
  <2> QED
    BY <2>2, <2>3
<1>2. \A n \in 1 .. Len(blocks) : n \in Good
  <2>. HIDE DEF Good
  <2> QED
    BY <1>0, <1>1, InductionUpTo
<1>3. b \in 1 .. Len(blocks)
  BY <1>0, KnownParent
<1> QED
  BY <1>2, <1>3

(* What a seek answers: the newest entry about the key, in the nearest     *)
(* chain where that one is active.                                         *)
LEMMA SeekAnswers ==
    ASSUME SecureAssumption, Inv, NEW b \in Known,
           NEW types, NEW actions, NEW key, NEW now
    PROVE  LET A == ActiveAbove(b, types, actions, key, now) IN
           Seeked(Scan(b, types, actions, key, now), key) =
               IF A = {} THEN 0 ELSE Max(Listed(headCache[Max(A)], types, actions, key))
<1>. DEFINE A == ActiveAbove(b, types, actions, key, now)
            result == Scan(b, types, actions, key, now)
            L == Len(result)
<1>0. LinksBack(blocks) /\ DOMAIN blocks = 1 .. Len(blocks) /\ Len(blocks) \in Nat
  BY Facts DEF Inv
<1>1. /\ result \in Seq(DOMAIN blocks)
      /\ A = {} => \A i \in 1 .. L : blocks[result[i]].grant.key # key
      /\ A # {} => L > 0 /\ result[L] = Max(Listed(headCache[Max(A)], types, actions, key))
  BY ScanFinds
<1>2. L \in Nat /\ (L > 0 => L \in 1 .. L) /\ (L = 0 => result = <<>>) /\ (result = <<>> => L = 0)
  <2>. HIDE DEF result
  <2> QED
    BY <1>1
<1>3. CASE A = {}
  <2>1. L > 0 => blocks[result[L]].grant.key # key
    BY <1>1, <1>2, <1>3
  <2> QED
    BY <1>2, <1>3, <2>1 DEF Seeked, Last
<1>4. CASE A # {}
  <2>1. b \in Nat /\ A \in SUBSET (1 .. b)
    <3>1. b \in DOMAIN blocks
      BY KnownParent
    <3> QED
      BY <1>0, <3>1, AboveHeaded DEF ActiveAbove
  <2>2. Max(A) \in A
    <3>. HIDE DEF A
    <3> QED
      BY <1>4, <2>1, NewestIsLast
  <2>. DEFINE hd == headCache[Max(A)]
              E == Listed(hd, types, actions, key)
  <2>3. hd \in DOMAIN blocks /\ E # {}
    BY <2>2, AboveHeaded DEF ActiveAbove, ActiveAt
  <2>4. E \in SUBSET (1 .. hd) /\ hd \in Nat
    BY <1>0, <2>3, ChainFacts DEF Listed
  <2>5. Max(E) \in E
    <3>. HIDE DEF E
    <3> QED
      BY <2>3, <2>4, NewestIsLast
  <2>6. blocks[Max(E)].grant.key = key
    BY <2>5 DEF Listed
  <2>7. L > 0 /\ result[L] = Max(E) /\ result # <<>>
    BY <1>1, <1>2, <1>4
  <2>8. Seeked(result, key) = Max(E)
    <3>. HIDE DEF result, E
    <3> QED
      BY <2>6, <2>7 DEF Seeked, Last, L
  <2> QED
    BY <1>4, <2>8
<1> QED
  BY <1>3, <1>4

(* The key seek finds the nearest active entry about its key, whatever was *)
(* granted, revoked and granted again in the chains it crosses, and        *)
(* whatever other calls are doing: an entry that is not active hides older *)
(* ones, in its own chain only, and entries about other keys do not end    *)
(* the scan.                                                               *)
THEOREM KeySeeksAreExact == Spec => []KeySeekExact
<1>1. ASSUME Inv, NEW b \in KnownRoots, NEW key \in Keys, NEW action \in {"r", "w"},
             NEW now \in Times
      PROVE  LET Found(r) == KeyEntries(headCache[r], key, action) IN
             KeySeek(b, key, action, now) = NearestActive(b, Found, now)
  <2>. DEFINE types == {"root", "key"}
              actions == {action, "*"}
              A == ActiveAbove(b, types, actions, key, now)
  <2>1. b \in Known
    BY DEF KnownRoots
  <2>2. \A r : KeyEntries(headCache[r], key, action) = Listed(headCache[r], types, actions, key)
    <3>1. \A hd : KeyEntries(hd, key, action) = Listed(hd, types, actions, key)
      BY WalksIn DEF KeyEntries, Listed, Listing
    <3> QED
      BY <3>1
  <2>3. A = {r \in Above(b) :
                /\ KeyEntries(headCache[r], key, action) # {}
                /\ IsKeyActive(blocks[Max(KeyEntries(headCache[r], key, action))].grant, now)}
    BY <2>2 DEF ActiveAbove, ActiveAt
  <2>4. KeySeek(b, key, action, now) =
            IF A = {} THEN 0 ELSE Max(KeyEntries(headCache[Max(A)], key, action))
    <3>1. Seeked(Scan(b, types, actions, key, now), key) =
              IF A = {} THEN 0 ELSE Max(Listed(headCache[Max(A)], types, actions, key))
      BY <1>1, <2>1, SecureAssumption, SeekAnswers
    <3> QED
      BY <2>2, <3>1 DEF KeySeek
  <2>. HIDE DEF A
  <2> QED
    BY <2>3, <2>4 DEF NearestActive
<1>2. Inv => KeySeekExact
  BY <1>1 DEF KeySeekExact
<1> QED
  BY <1>2, Invariant, PTL

(* The secret seek finds the nearest active secret of its reference, among *)
(* keys and secrets of other references.                                   *)
THEOREM SecretSeeksAreExact == Spec => []SecretSeekExact
<1>1. ASSUME Inv, NEW b \in KnownRoots, NEW ref \in {g.key : g \in Secrets}, NEW now \in Times
      PROVE  LET Found(r) == SecretEntries(headCache[r], ref) IN
             SecretSeek(b, ref, now) = NearestActive(b, Found, now)
  <2>. DEFINE types == {"secret"}
              actions == {"r", "w", "*"}
              A == ActiveAbove(b, types, actions, ref, now)
  <2>0. b \in Known /\ LinksBack(blocks)
    BY <1>1 DEF KnownRoots, Inv
  <2>1. \A hd \in DOMAIN blocks : SecretEntries(hd, ref) = Listed(hd, types, actions, ref)
    <3> TAKE hd \in DOMAIN blocks
    <3>1. \A n \in ChainIn(blocks, hd) : blocks[n].grant.action \in actions
      <4>1. \A n \in ChainIn(blocks, hd) : n \in DOMAIN blocks
        <5>1. \A n \in ChainIn(blocks, hd) : n \in 1 .. hd
          BY <2>0, SecureAssumption, ChainFacts
        <5>2. DOMAIN blocks = 1 .. Len(blocks) /\ Len(blocks) \in Nat
          BY <1>1, SecureAssumption, Facts
        <5> QED
          BY <5>1, <5>2
      <4> QED
        BY <2>0, <4>1, SecureAssumption, StorageFacts DEF Block, GrantData
    <3> QED
      BY <3>1, WalksIn DEF SecretEntries, Listed, Listing
  <2>2. \A r \in Above(b) : SecretEntries(headCache[r], ref) =
                                Listed(headCache[r], types, actions, ref)
    BY <1>1, <2>0, <2>1, SecureAssumption, AboveHeaded
  <2>3. A = {r \in Above(b) :
                /\ SecretEntries(headCache[r], ref) # {}
                /\ IsKeyActive(blocks[Max(SecretEntries(headCache[r], ref))].grant, now)}
    BY <2>2 DEF ActiveAbove, ActiveAt
  <2>4. A # {} => Max(A) \in Above(b)
    <3> SUFFICES ASSUME A # {} PROVE Max(A) \in A
      BY DEF ActiveAbove
    <3>1. b \in Nat /\ A \in SUBSET (1 .. b)
      <4>1. b \in DOMAIN blocks /\ DOMAIN blocks \subseteq Nat
        BY <1>1, <2>0, SecureAssumption, KnownParent, StorageFacts
      <4> QED
        BY <1>1, <2>0, <4>1, SecureAssumption, AboveHeaded DEF ActiveAbove
    <3>. HIDE DEF A
    <3> QED
      BY <3>1, NewestIsLast
  <2>5. SecretSeek(b, ref, now) =
            IF A = {} THEN 0 ELSE Max(SecretEntries(headCache[Max(A)], ref))
    <3>1. Seeked(Scan(b, types, actions, ref, now), ref) =
              IF A = {} THEN 0 ELSE Max(Listed(headCache[Max(A)], types, actions, ref))
      BY <1>1, <2>0, SecureAssumption, SeekAnswers
    <3> QED
      BY <2>2, <2>4, <3>1 DEF SecretSeek
  <2>. HIDE DEF A
  <2> QED
    BY <2>3, <2>5 DEF NearestActive
<1>2. Inv => SecretSeekExact
  BY <1>1 DEF SecretSeekExact
<1> QED
  BY <1>2, Invariant, PTL

(***************************************************************************)
(* One caller: the keys that grant keys.  An auditor's reading of the      *)
(* first n blocks: the write entries at or above a place that are the      *)
(* newest about their key in their chain and active, the sets of keys that *)
(* are closed under them, and the keys in all of those.                    *)
(***************************************************************************)
WriteEntry(s, e) == s[e].type \in {"root", "key"} /\ s[e].grant.action \in {"w", "*"}

ActiveWrites(s, n, at) ==
    {e \in 1 .. n : /\ WriteEntry(s, e) /\ RootIn(s, e) \in AboveIn(s, at)
                    /\ \E now \in Times : IsKeyActive(s[e].grant, now)
                    /\ \A m \in 1 .. n : m > e /\ WriteEntry(s, m) /\ RootIn(s, m) = RootIn(s, e)
                          => s[m].grant.key # s[e].grant.key}

Closed(s, n, at, D) ==
    NoKey \in D /\ \A e \in ActiveWrites(s, n, at) : s[e].signer \in D => s[e].grant.key \in D

DerivesIn(s, n, at, key) == \A D \in KeySets : Closed(s, n, at, D) => key \in D

LEMMA DerivesOver ==
    ASSUME NEW b, NEW key
    PROVE  Derives(b, key) <=> DerivesIn(blocks, b - 1, blocks[b].prev, key)
<1>. DEFINE at == blocks[b].prev
<1>1. ActiveBefore(b) = ActiveWrites(blocks, b - 1, at)
  <2>1. /\ \A e : RootOf(e) = RootIn(blocks, e) /\ Above(at) = AboveIn(blocks, at)
        /\ \A e : EverActive(e) <=> \E now \in Times : IsKeyActive(blocks[e].grant, now)
    BY WalksIn DEF EverActive
  <2>. DEFINE entries == {e \in 1 .. b - 1 :
                              /\ blocks[e].type \in {"root", "key"}
                              /\ blocks[e].grant.action \in {"w", "*"}
                              /\ RootOf(e) \in Above(at)}
  <2>2. \A e : e \in entries <=> e \in 1 .. b - 1 /\ WriteEntry(blocks, e)
                                 /\ RootIn(blocks, e) \in AboveIn(blocks, at)
    BY <2>1 DEF WriteEntry
  <2>3. ActiveBefore(b) = {e \in entries :
                              /\ EverActive(e)
                              /\ \A n \in entries : n > e /\ RootOf(n) = RootOf(e) =>
                                     blocks[n].grant.key # blocks[e].grant.key}
    BY DEF ActiveBefore
  <2>. HIDE DEF entries, at
  <2>4. \A e : e \in ActiveBefore(b) <=> e \in ActiveWrites(blocks, b - 1, at)
    BY <2>1, <2>2, <2>3 DEF ActiveWrites
  <2> QED
    BY <2>4
<1> QED
  BY <1>1 DEF Derives, DerivesIn, Closed

(* The entry a seek of one caller stops at is one of them.                 *)
LEMMA SeekIsActive ==
    ASSUME SecureAssumption, Inv, SeqInv, NEW c \in Calls, At(c, "seek"), NEW now \in Times,
           SeekEntries(calls[c]) # {},
           IsKeyActive(blocks[Newest(SeekEntries(calls[c]))].grant, now),
           NEW at, RootIn(blocks, calls[c].at) \in AboveIn(blocks, at)
    PROVE  LET e == Newest(SeekEntries(calls[c])) IN
           /\ e \in ActiveWrites(blocks, Len(blocks), at) /\ e \in DOMAIN blocks
           /\ blocks[e].grant.key = calls[c].key
           /\ RootIn(blocks, e) = RootIn(blocks, calls[c].at)
<1>. DEFINE s == blocks
            n == Len(s)
            k == calls[c]
            r == RootIn(s, k.at)
            S == SeekEntries(k)
            e == Newest(S)
<1>0. LinksBack(s) /\ DOMAIN s = 1 .. n /\ n \in Nat
  BY Facts DEF Inv
<1>1. /\ e \in 1 .. n /\ e \in EntriesIn(s, e, k.key, "w") /\ RootIn(s, e) = r
  BY <1>0, SeekFinds
<1>2. S = EntriesOf(s, n, r, k.key)
  BY SeekSeesAll
<1>3. \A m \in S : m <= e
  <2>1. S \in SUBSET (1 .. n)
    BY <1>2 DEF EntriesOf
  <2>. HIDE DEF S
  <2> QED
    BY <1>0, <2>1, NewestIsLast DEF Newest, S
<1>4. WriteEntry(s, e) /\ s[e].grant.key = k.key
  BY <1>1 DEF EntriesIn, WriteEntry
<1>5. ASSUME NEW m \in 1 .. n, m > e, WriteEntry(s, m), RootIn(s, m) = RootIn(s, e)
      PROVE  s[m].grant.key # s[e].grant.key
  <2>1. m \in ChainIn(s, m)
    BY <1>0, ChainFacts
  <2> SUFFICES ASSUME s[m].grant.key = k.key PROVE FALSE
    BY <1>4
  <2>2. m \in EntriesIn(s, m, k.key, "w")
    BY <1>5, <2>1 DEF EntriesIn, WriteEntry
  <2>3. m \in S
    BY <1>1, <1>2, <1>5, <2>2 DEF EntriesOf
  <2> QED
    BY <1>1, <1>3, <1>5, <2>3
<1>. HIDE DEF s, n, k, r, e
<1> QED
  BY <1>0, <1>1, <1>4, <1>5 DEF ActiveWrites, s, n, k, r, e, S

(***************************************************************************)
(* The invariant: what the walk of validateParentKey has shown so far.  Of *)
(* the key it looks for next, all that is known is that the signer derives *)
(* if that key does; the walk ends at a key that nobody granted.           *)
(***************************************************************************)
Granter(s, k) ==
    /\ k.type = "key" /\ k.prev \in DOMAIN s
    /\ k.at \in DOMAIN s /\ RootIn(s, k.at) \in AboveIn(s, k.prev)
    /\ k.base \in DOMAIN s /\ RootIn(s, k.base) \in AboveIn(s, k.prev)
    /\ s[k.base].parent = 0 => RootIn(s, k.at) = RootIn(s, k.base)
    /\ \A D \in KeySets : Closed(s, Len(s), k.prev, D) /\ k.key \in D => k.signer \in D

DeriveOK(s, k) ==
    /\ k.pc \in {"count", "store"} /\ k.parent = 0 => k.signer = NoKey
    /\ k.pc = "seek" /\ k.goal = "granter" => Granter(s, k)
    /\ k.pc = "nonce" => k.type # "key"
    /\ k.pc \in {"checkNext", "store"} /\ k.type = "key" /\ k.parent # 0 =>
          DerivesIn(s, Len(s), k.prev, k.signer)

TopUnsigned(s) == \A b \in DOMAIN s : s[b].parent = 0 => s[b].signer = NoKey

DerivedIn(s) ==
    \A b \in DOMAIN s : s[b].type = "key" /\ s[b].parent # 0 =>
        s[b].prev \in DOMAIN s /\ DerivesIn(s, b - 1, s[b].prev, s[b].signer)

DeriveInv ==
    /\ TopUnsigned(blocks) /\ DerivedIn(blocks)
    /\ \A c \in Calls : DeriveOK(blocks, calls[c])

LEMMA DerivesStable ==
    ASSUME SecureAssumption, NEW s, NEW t, LinksBack(s), LinksBack(t), Grows(s, t),
           NEW n \in Nat, n <= Len(s), NEW at \in DOMAIN s, NEW key, DerivesIn(s, n, at, key)
    PROVE  DerivesIn(t, n, at, key)
<1>1. \A e \in 1 .. n : e \in DOMAIN s /\ t[e] = s[e] /\ RootIn(t, e) = RootIn(s, e)
  BY StorageFacts, WalksStable DEF Grows
<1>2. AboveIn(t, at) = AboveIn(s, at)
  BY WalksStable
<1>3. \A e : e \in ActiveWrites(t, n, at) <=> e \in ActiveWrites(s, n, at)
  BY <1>1, <1>2 DEF ActiveWrites, WriteEntry
<1>4. \A e \in ActiveWrites(t, n, at) : e \in 1 .. n
  BY DEF ActiveWrites
<1>5. \A D : Closed(t, n, at, D) => Closed(s, n, at, D)
  BY <1>1, <1>3, <1>4 DEF Closed
<1> QED
  BY <1>5 DEF DerivesIn

(* The new block.                                                          *)
LEMMA DeriveStore ==
    ASSUME SecureAssumption, Inv, DeriveInv, NEW c \in Calls, Start(c) \/ Continue(c),
           blocks' # blocks
    PROVE  TopUnsigned(blocks') /\ DerivedIn(blocks') /\ DeriveOK(blocks', calls'[c])
<1>. DEFINE k == calls[c]
            n == Len(blocks) + 1
            s == blocks
            t == blocks'
<1>0. /\ LinksBack(s) /\ CallOK(s, headCache, k) /\ k \in Call
      /\ TopUnsigned(s) /\ DerivedIn(s) /\ DeriveOK(s, k)
  BY Facts DEF Inv, DeriveInv
<1>1. /\ Store(c) /\ Len(s) < MaxBlocks /\ k.pc = "store" /\ DOMAIN t = 1 .. n
      /\ Grows(s, t) /\ t[n] = NewBlock(k)
  BY StoreGrows DEF At
<1>2. calls'[c].pc = "publish"
  <2>1. calls'[c] = [k EXCEPT !.pc = "publish", !.block = n]
    BY <1>1, Facts DEF Store, Set
  <2> QED
    BY <1>0, <2>1 DEF Call
<1>3. /\ t[n].type = k.type /\ t[n].prev = k.prev /\ t[n].parent = k.parent
      /\ t[n].signer = k.signer
  BY <1>1 DEF NewBlock
<1>4. /\ n \in Nat /\ Len(s) \in Nat /\ DOMAIN s = 1 .. n - 1 /\ n - 1 = Len(s)
      /\ \A b \in DOMAIN t : b = n \/ b \in DOMAIN s
  BY <1>1, Facts
<1>5. LinksBack(t)
  BY StoreStep
<1>6. k.type = "key" /\ k.parent # 0 => k.prev \in DOMAIN s
  BY <1>0, <1>1 DEF CallOK, TopLevel, Placed, Headed
<1>. HIDE DEF k, n, s, t
<1>7. TopUnsigned(t)
  BY <1>0, <1>1, <1>3, <1>4 DEF TopUnsigned, DeriveOK, Grows
<1>8. DerivedIn(t)
  <2>1. ASSUME NEW b \in DOMAIN s, t[b].type = "key", t[b].parent # 0
        PROVE  t[b].prev \in DOMAIN t /\ DerivesIn(t, b - 1, t[b].prev, t[b].signer)
    <3>. DEFINE m == b - 1
                at == t[b].prev
    <3>1. at \in DOMAIN s /\ DerivesIn(s, m, at, t[b].signer)
      BY <1>0, <1>1, <2>1 DEF DerivedIn, Grows
    <3>2. m \in Nat /\ m <= Len(s)
      BY <1>4
    <3>. HIDE DEF m, at
    <3>3. DerivesIn(t, m, at, t[b].signer)
      BY <1>0, <1>1, <1>5, <3>1, <3>2, DerivesStable
    <3> QED
      BY <1>1, <3>1, <3>3 DEF m, at, Grows
  <2>2. ASSUME k.type = "key", k.parent # 0
        PROVE  k.prev \in DOMAIN t /\ DerivesIn(t, n - 1, k.prev, k.signer)
    <3>. DEFINE m == Len(s)
    <3>1. k.prev \in DOMAIN s /\ DerivesIn(s, m, k.prev, k.signer) /\ m \in Nat /\ m <= Len(s)
      BY <1>0, <1>1, <1>4, <1>6, <2>2 DEF DeriveOK
    <3>. HIDE DEF m
    <3>2. DerivesIn(t, m, k.prev, k.signer)
      BY <1>0, <1>1, <1>5, <3>1, DerivesStable
    <3> QED
      BY <1>1, <1>4, <3>1, <3>2 DEF m, Grows
  <2> QED
    BY <1>3, <1>4, <2>1, <2>2 DEF DerivedIn
<1>9. DeriveOK(t, calls'[c])
  BY <1>2 DEF DeriveOK
<1> QED
  BY <1>7, <1>8, <1>9 DEF t

(* The walk of validateParentKey, one entry or one level up.               *)
LEMMA DeriveSeek ==
    ASSUME SecureAssumption, Inv, SeqInv, DeriveInv, NEW c \in Calls, NEW now \in Times,
           Seek(c, now)
    PROVE  DeriveOK(blocks, calls'[c])
<1>. DEFINE k == calls[c]
            s == blocks
            n == Len(s)
            S == SeekEntries(k)
            e == Newest(S)
            w == calls'[c]
            found == S # {} /\ IsKeyActive(s[e].grant, now)
<1>0. /\ LinksBack(s) /\ ShapeIn(s) /\ CallOK(s, headCache, k) /\ k \in Call
      /\ DeriveOK(s, k) /\ TopUnsigned(s) /\ At(c, "seek") /\ k.pc = "seek"
      /\ DOMAIN s = 1 .. n /\ n \in Nat /\ 0 \notin DOMAIN s
  BY Facts DEF Inv, DeriveInv, Seek, At
<1>1. /\ k.goal = "signer" \/ k.goal = "granter"
      /\ k.goal = "signer" => k.key = k.signer
      /\ k.goal = "granter" => Granter(s, k)
      /\ Placed(s, headCache, k) /\ k.at \in DOMAIN s
  BY <1>0 DEF CallOK, DeriveOK, Call, Headed
<1>2. /\ k.type = "key" => k.prev # 0 /\ k.prev \in DOMAIN s
      /\ k.parent # 0
  BY <1>0, <1>1 DEF Placed, Headed
<1>3. \/ found /\ w = AfterSeek(k, e)
      \/ s[RootIn(s, k.at)].parent # 0 /\ w = [k EXCEPT !.at = s[RootIn(s, k.at)].parent]
      \/ \E x \in Errs : w = Reject(x)
  BY Facts, WalksIn DEF Seek, Set, Errs
<1>4. ASSUME w = Validated(k), k.type = "key" => DerivesIn(s, n, k.prev, k.signer)
      PROVE  DeriveOK(s, w)
  <2>1. /\ w.pc = (IF k.prev = 0 THEN "nonce" ELSE "checkNext")
        /\ w.type = k.type /\ w.prev = k.prev /\ w.parent = k.parent /\ w.signer = k.signer
    BY <1>0, <1>4 DEF Validated, Call
  <2>. HIDE DEF w, k, s, n
  <2> QED
    BY <1>2, <1>4, <2>1 DEF DeriveOK, n
<1>5. ASSUME \E x \in Errs : w = Reject(x) PROVE DeriveOK(s, w)
  <2>1. w.pc = "idle"
    BY <1>5, RejectTyped
  <2> QED
    BY <2>1 DEF DeriveOK
<1>6. ASSUME s[RootIn(s, k.at)].parent # 0, w = [k EXCEPT !.at = s[RootIn(s, k.at)].parent]
      PROVE  DeriveOK(s, w)
  <2>. DEFINE r == RootIn(s, k.at)
              up == s[r].parent
  <2>1. /\ w.pc = "seek" /\ w.goal = k.goal /\ w.type = k.type /\ w.prev = k.prev
        /\ w.signer = k.signer /\ w.key = k.key /\ w.base = k.base /\ w.at = up
    BY <1>0, <1>6 DEF Call
  <2>2. r \in DOMAIN s /\ up \in DOMAIN s
    BY <1>0, <1>1, <1>6, RootFacts, StorageFacts
  <2>3. ASSUME k.goal = "granter" PROVE Granter(s, w)
    <3>1. Granter(s, k)
      BY <1>1, <2>3
    <3>2. RootIn(s, up) \in AboveIn(s, k.prev)
      BY <1>0, <1>6, <3>1, Climb DEF Granter
    <3>3. s[k.base].parent # 0
      <4> SUFFICES ASSUME s[k.base].parent = 0 PROVE FALSE
        OBVIOUS
      <4>1. r = RootIn(s, k.base) /\ k.base \in DOMAIN s
        BY <3>1 DEF Granter
      <4>2. s[r].parent = s[k.base].parent
        BY <1>0, <4>1, Inherits
      <4> QED
        BY <1>6, <4>2
    <3>. HIDE DEF s, k, w, up, r
    <3> QED
      BY <2>1, <2>2, <3>1, <3>2, <3>3 DEF Granter
  <2>. HIDE DEF w, s, k
  <2> QED
    BY <2>1, <2>3 DEF DeriveOK
<1>7. ASSUME found, w = AfterSeek(k, e) PROVE DeriveOK(s, w)
  <2>1. CASE k.goal = "signer" /\ k.type # "key"
    BY <1>4, <1>7, <2>1 DEF AfterSeek
  <2>2. CASE k.goal = "signer" /\ k.type = "key"
    <3>1. w = [k EXCEPT !.goal = "granter", !.at = k.prev, !.base = k.prev]
      BY <1>7, <2>2 DEF AfterSeek
    <3>2. /\ w.pc = "seek" /\ w.goal = "granter" /\ w.type = k.type /\ w.prev = k.prev
          /\ w.signer = k.signer /\ w.key = k.signer /\ w.base = k.prev /\ w.at = k.prev
      BY <1>0, <1>1, <2>2, <3>1 DEF Call
    <3>3. RootIn(s, k.prev) \in AboveIn(s, k.prev)
      BY <1>0, <1>2, <2>2, Climb
    <3>. HIDE DEF w, s, k
    <3>4. Granter(s, w)
      BY <1>2, <2>2, <3>2, <3>3 DEF Granter
    <3> QED
      BY <3>2, <3>4 DEF DeriveOK
  <2>3. CASE k.goal = "granter"
    <3>. DEFINE up == s[k.base].parent
                granter == s[e].signer
    <3>0. Granter(s, k)
      BY <1>1, <2>3
    <3>1. /\ e \in ActiveWrites(s, n, k.prev) /\ e \in DOMAIN s
          /\ s[e].grant.key = k.key /\ RootIn(s, e) = RootIn(s, k.at)
      BY <1>0, <1>7, <3>0, SeekIsActive DEF Granter
    <3>2. \A D \in KeySets : Closed(s, n, k.prev, D) /\ granter \in D => k.signer \in D
      <4>. HIDE DEF s, n, k, e
      <4> QED
        BY <3>0, <3>1 DEF Granter, Closed, n
    <3>3. w = IF granter = NoKey \/ up = 0 THEN Validated(k)
              ELSE [k EXCEPT !.key = granter, !.at = up, !.base = up]
      BY <1>7, <2>3 DEF AfterSeek
    <3>4. CASE granter = NoKey \/ up = 0
      <4>1. granter = NoKey
        <5> SUFFICES ASSUME up = 0 PROVE granter = NoKey
          BY <3>4
        <5>1. RootIn(s, e) = RootIn(s, k.base) /\ k.base \in DOMAIN s
          BY <3>0, <3>1 DEF Granter
        <5>2. s[RootIn(s, e)].parent = s[e].parent /\ s[RootIn(s, e)].parent = up
          BY <1>0, <3>1, <5>1, Inherits
        <5> QED
          BY <1>0, <3>1, <5>2 DEF TopUnsigned
      <4>2. DerivesIn(s, n, k.prev, k.signer)
        BY <3>2, <4>1 DEF DerivesIn, Closed
      <4> QED
        BY <1>4, <3>3, <3>4, <4>2
    <3>5. CASE ~ (granter = NoKey \/ up = 0)
      <4>1. w = [k EXCEPT !.key = granter, !.at = up, !.base = up]
        BY <3>3, <3>5
      <4>2. /\ w.pc = "seek" /\ w.goal = "granter" /\ w.type = k.type /\ w.prev = k.prev
            /\ w.signer = k.signer /\ w.key = granter /\ w.base = up /\ w.at = up
        BY <1>0, <2>3, <4>1 DEF Call
      <4>3. up \in DOMAIN s /\ RootIn(s, up) \in AboveIn(s, k.prev)
        <5>1. k.base \in DOMAIN s /\ RootIn(s, k.base) \in AboveIn(s, k.prev)
              /\ k.prev \in DOMAIN s
          BY <3>0 DEF Granter
        <5>2. s[RootIn(s, k.base)].parent = up
          BY <1>0, <5>1, Inherits
        <5>3. up \in DOMAIN s
          BY <1>0, <3>5, <5>1, StorageFacts
        <5> QED
          BY <1>0, <3>5, <5>1, <5>2, <5>3, Climb
      <4>. HIDE DEF w, s, k, up, granter
      <4>4. Granter(s, w)
        BY <3>0, <3>2, <4>2, <4>3 DEF Granter, n
      <4> QED
        BY <4>2, <4>4 DEF DeriveOK
    <3> QED
      BY <3>4, <3>5
  <2> QED
    BY <1>1, <2>1, <2>2, <2>3
<1> QED
  BY <1>3, <1>5, <1>6, <1>7

(* Entering the layer, the checks before the write, and the steps after it.*)
LEMMA DeriveStart ==
    ASSUME SecureAssumption, Inv, DeriveInv, NEW c \in Calls, Start(c)
    PROVE  DeriveOK(blocks, calls'[c])
<1>. DEFINE w == calls'[c]
<1>0. \A x \in Errs : Reject(x).pc = "idle"
  BY RejectTyped
<1>1. ASSUME NEW type, NEW g, StartRoot(c, type, g)
      PROVE  (\E x \in Errs : w = Reject(x)) \/ (w.pc = "count" /\ w.signer = NoKey)
  <2>. DEFINE k == [NewCall EXCEPT !.pc = "count", !.type = type, !.grant = g]
  <2>1. w = IF RootRefused THEN Reject("invalidRoot") ELSE k
    BY <1>1, Facts DEF StartRoot, Set
  <2>2. k.pc = "count" /\ k.signer = NoKey
    BY DEF NewCall
  <2>. HIDE DEF k
  <2> QED
    BY <2>1, <2>2 DEF Errs
<1>2. ASSUME NEW type, NEW b, NEW signer, NEW nonce, StartChild(c, type, b, signer, nonce)
      PROVE  (\E x \in Errs : w = Reject(x)) \/ (w.pc = "seek" /\ w.goal = "signer")
  <2>. DEFINE k == [NewCall EXCEPT !.pc = "seek", !.type = type, !.parent = ParentFor(b),
                                   !.nonce = nonce, !.signer = signer,
                                   !.goal = "signer", !.key = signer, !.at = ParentFor(b)]
  <2>1. w = k \/ w = Reject("invalidParentType")
    BY <1>2, Facts DEF StartChild, Set
  <2>2. k.pc = "seek" /\ k.goal = "signer"
    BY DEF NewCall
  <2>. HIDE DEF k
  <2> QED
    BY <2>1, <2>2 DEF Errs
<1>3. ASSUME NEW type, NEW b, NEW signer, NEW g, StartAppend(c, type, b, signer, g)
      PROVE  (\E x \in Errs : w = Reject(x)) \/ (w.pc = "seek" /\ w.goal = "signer")
  <2>. DEFINE prev == headCache[RootOf(b)]
              parent == InheritedParent(prev)
              at == IF type \in {"secret", "record"} THEN prev ELSE parent
              k == [NewCall EXCEPT
                      !.pc = "seek", !.type = type, !.prev = prev, !.parent = parent,
                      !.signer = signer, !.grant = g, !.goal = "signer", !.key = signer,
                      !.at = at]
  <2>1. w = CASE parent = 0 -> Reject("notFound")
              [] parent # 0 /\ ~AllowedUnder(type, RootOf(prev)) -> Reject("invalidParentType")
              [] OTHER -> k
    BY <1>3, Facts DEF StartAppend, Set
  <2>2. k.pc = "seek" /\ k.goal = "signer"
    BY DEF NewCall
  <2>. HIDE DEF k, parent, prev
  <2> QED
    BY <2>1, <2>2 DEF Errs
<1>4. \/ \E x \in Errs : w = Reject(x)
      \/ w.pc = "count" /\ w.signer = NoKey
      \/ w.pc = "seek" /\ w.goal = "signer"
  BY <1>1, <1>2, <1>3 DEF Start, StartWrite
<1>. HIDE DEF w
<1>5. \/ w.pc = "idle"
      \/ w.pc = "count" /\ w.signer = NoKey
      \/ w.pc = "seek" /\ w.goal = "signer"
  BY <1>0, <1>4
<1> QED
  BY <1>5 DEF DeriveOK, w

LEMMA DeriveOther ==
    ASSUME SecureAssumption, Inv, DeriveInv, NEW c \in Calls, blocks' = blocks,
           \/ Count(c) \/ CheckNonce(c) \/ CheckNext(c)
           \/ Store(c) \/ Publish(c) \/ CacheRoot(c) \/ CacheZone(c)
    PROVE  DeriveOK(blocks, calls'[c])
<1>. DEFINE k == calls[c]
            s == blocks
            w == calls'[c]
            r == [k EXCEPT !.pc = "store"]
<1>0. /\ CallOK(s, headCache, k) /\ k \in Call /\ DeriveOK(s, k) /\ 0 \notin DOMAIN s
      /\ \A x \in Errs : Reject(x).pc = "idle"
  BY Facts, RejectTyped DEF Inv, DeriveInv
<1>1. CASE w.pc \in {"idle", "publish", "cacheRoot", "cacheZone"}
  BY <1>1 DEF DeriveOK
<1>2. CASE w = r /\ k.pc \in {"count", "nonce", "checkNext"}
  <2>1. /\ r.pc = "store" /\ r.type = k.type /\ r.prev = k.prev /\ r.parent = k.parent
        /\ r.signer = k.signer
    BY <1>0 DEF Call
  <2>2. k.pc = "count" => k.parent = 0
    BY <1>0 DEF CallOK, TopLevel
  <2>3. k.pc \in {"nonce", "checkNext"} => k.parent # 0
    BY <1>0 DEF CallOK, Placed, Headed
  <2>4. w = r
    BY <1>2
  <2>5. k.pc \in {"count", "nonce", "checkNext"} /\ DeriveOK(s, k)
    BY <1>0, <1>2
  <2>. HIDE DEF w, k, s, r
  <2>6. DeriveOK(s, w)
    BY <2>1, <2>2, <2>3, <2>4, <2>5 DEF DeriveOK
  <2> QED
    BY <2>6 DEF s, w
<1>3. CASE Count(c) \/ CheckNonce(c) \/ CheckNext(c)
  <2>1. /\ k.pc \in {"count", "nonce", "checkNext"}
        /\ w = r \/ \E x \in Errs : w = Reject(x)
    <3>1. CASE Count(c)
      BY <3>1, Facts DEF Count, At, Set, Goto, Errs
    <3>2. CASE CheckNext(c)
      BY <3>2, NextChecked DEF Errs
    <3>3. CASE CheckNonce(c)
      BY <3>3, NonceChecked DEF Errs
    <3> QED
      BY <1>3, <3>1, <3>2, <3>3
  <2> QED
    BY <1>0, <1>1, <1>2, <2>1
<1>4. CASE Store(c)
  <2>1. w = [k EXCEPT !.pc = "publish", !.block = Len(blocks) + 1] \/ w = Reject("full")
    BY <1>4, Facts DEF Store, Set
  <2>2. [k EXCEPT !.pc = "publish", !.block = Len(blocks) + 1].pc = "publish"
    BY <1>0 DEF Call
  <2> QED
    BY <1>0, <1>1, <2>1, <2>2 DEF Errs
<1>5. CASE Publish(c) \/ CacheRoot(c) \/ CacheZone(c)
  <2>1. \/ w = [k EXCEPT !.pc = "cacheRoot"]
        \/ w = [k EXCEPT !.pc = "cacheZone"]
        \/ w = NewCall
    BY <1>5, Facts DEF Publish, CacheRoot, CacheZone, Set
  <2>2. /\ [k EXCEPT !.pc = "cacheRoot"].pc = "cacheRoot"
        /\ [k EXCEPT !.pc = "cacheZone"].pc = "cacheZone"
        /\ NewCall.pc = "idle"
    BY <1>0 DEF Call, NewCall
  <2> QED
    BY <1>1, <2>1, <2>2
<1> QED
  BY <1>3, <1>4, <1>5

LEMMA DeriveStep ==
    ASSUME SecureAssumption, OneCaller, Inv, SeqInv, DeriveInv,
           NEW c \in Calls, Start(c) \/ Continue(c)
    PROVE  DeriveInv'
<1>0. TopUnsigned(blocks) /\ DerivedIn(blocks) /\ \A d \in Calls : d = c
  BY DEF DeriveInv, OneCaller
<1>1. TopUnsigned(blocks') /\ DerivedIn(blocks') /\ DeriveOK(blocks', calls'[c])
  <2>1. CASE blocks' # blocks
    BY <2>1, DeriveStore
  <2>2. CASE blocks' = blocks
    <3>1. DeriveOK(blocks, calls'[c])
      <4>1. CASE Start(c)
        BY <4>1, DeriveStart
      <4>2. CASE \E now \in Times : Seek(c, now)
        BY <4>2, DeriveSeek
      <4>3. CASE \/ Count(c) \/ CheckNonce(c) \/ CheckNext(c)
                 \/ Store(c) \/ Publish(c) \/ CacheRoot(c) \/ CacheZone(c)
        BY <2>2, <4>3, DeriveOther
      <4> QED
        BY <4>1, <4>2, <4>3 DEF Continue
    <3> QED
      BY <1>0, <2>2, <3>1
  <2> QED
    BY <2>1, <2>2
<1> QED
  BY <1>0, <1>1 DEF DeriveInv

(* One caller: a key that grants a key derives, over keys that were all    *)
(* still active, from one that nobody granted: once a key is revoked, the  *)
(* keys it granted grant no further key.                                   *)
THEOREM GrantersAllDerive ==
    ASSUME OneCaller
    PROVE  Spec => []GrantersDerive
<1>1. Init => DeriveInv
  <2> SUFFICES ASSUME Init PROVE DeriveInv
    OBVIOUS
  <2>1. blocks = <<>> /\ DOMAIN blocks = {} /\ \A c \in Calls : calls[c].pc = "idle"
    BY SecureAssumption, NewCallTyped DEF Init
  <2> QED
    BY <2>1 DEF DeriveInv, TopUnsigned, DerivedIn, DeriveOK
<1>2. Inv /\ SeqInv /\ DeriveInv /\ [Next]_vars => DeriveInv'
  <2>1. ASSUME DeriveInv, UNCHANGED vars PROVE DeriveInv'
    <3>1. blocks' = blocks /\ calls' = calls
      BY <2>1 DEF vars
    <3> QED
      BY <2>1, <3>1 DEF DeriveInv
  <2> QED
    BY <2>1, SecureAssumption, DeriveStep DEF Next
<1>3. DeriveInv => GrantersDerive
  BY DerivesOver DEF DeriveInv, DerivedIn, GrantersDerive
<1>4. Spec => [](Inv /\ SeqInv)
  BY SeqInvariant
<1> QED
  BY <1>1, <1>2, <1>3, <1>4, PTL DEF Spec
=============================================================================
