----------------------------- MODULE LeastNumber -----------------------------
(***************************************************************************)
(* The least-number principle for a set of naturals, the form in which the *)
(* proofs of this project use induction: a scan's first match is the least *)
(* element of the matching positions, and a claim about every block is     *)
(* proved from the least block it could fail for.  The claim is the set of *)
(* the blocks it holds for, and the walk the recursive function of a       *)
(* module, so that no lemma takes an operator as a parameter.              *)
(***************************************************************************)
EXTENDS Integers, TLAPS, WellFoundedInduction

Less == {p \in Nat \X Nat : p[1] < p[2]}

(* The order of the naturals, as a set of pairs, is well founded. *)
LEMMA LessIsWellFounded == IsWellFoundedOn(Less, Nat)
BY NatLessThanWellFounded DEF OpToRel, Less

(* A nonempty set of naturals has a least element. *)
LEMMA LeastElement ==
    ASSUME NEW S \in SUBSET Nat, S # {}
    PROVE  \E n \in S : \A m \in S : n <= m
<1>1. PICK n \in S : \A m \in S : <<m, n>> \notin Less
  BY LessIsWellFounded, WFMin
<1>2. \A i, j \in Nat : <<i, j>> \in Less <=> i < j
  BY DEF Less
<1>3. ASSUME NEW m \in S PROVE n <= m
  <2>1. m \in Nat /\ n \in Nat
    OBVIOUS
  <2>2. <<m, n>> \notin Less
    BY <1>1
  <2>3. ~ (m < n)
    BY <1>2, <2>1, <2>2
  <2> QED
    BY <2>1, <2>3
<1> QED
  BY <1>3

(* Induction up to N, over the set of the numbers a claim holds for: it    *)
(* holds for n when it holds for every number before n.                    *)
LEMMA InductionUpTo ==
    ASSUME NEW N \in Nat, NEW S,
           \A n \in 1 .. N : (\A m \in 1 .. n - 1 : m \in S) => n \in S
    PROVE  \A n \in 1 .. N : n \in S
<1>. DEFINE Bad == {n \in 1 .. N : n \notin S}
<1> SUFFICES ASSUME Bad # {} PROVE FALSE
  OBVIOUS
<1>1. Bad \in SUBSET Nat
  OBVIOUS
<1>2. PICK m \in Bad : \A n \in Bad : m <= n
  <2> HIDE DEF Bad
  <2> QED
    BY <1>1, LeastElement
<1>3. \A n \in 1 .. m - 1 : n \in S
  BY <1>2
<1> QED
  BY <1>3

(***************************************************************************)
(* Walks.  From n a walk goes on to up[n], an earlier number, until up is  *)
(* 0; what it returns is last[n] there, and next[n][v] where the rest of   *)
(* the walk returned v.                                                    *)
(***************************************************************************)
Descends(up, N) == \A n \in 1 .. N : up[n] \in 0 .. n - 1

IsWalk(f, N, up, last, next) ==
    \A n \in 1 .. N : f[n] = IF up[n] = 0 THEN last[n] ELSE next[n][f[up[n]]]

(* A recursive function over the blocks is well defined when every block   *)
(* it goes on with was stored before.                                      *)
LEMMA WalkExists ==
    ASSUME NEW N \in Nat, NEW up, Descends(up, N),
           NEW V, NEW last \in [1 .. N -> V], NEW next \in [1 .. N -> [V -> V]]
    PROVE  \E f \in [1 .. N -> V] : IsWalk(f, N, up, last, next)
<1>. DEFINE Walks(m) == \E f \in [1 .. m -> V] : IsWalk(f, m, up, last, next)
            Good == {m \in 1 .. N : Walks(m)}
<1>1. Walks(0)
  <2>1. [n \in 1 .. 0 |-> last[n]] \in [1 .. 0 -> V]
    OBVIOUS
  <2>2. IsWalk([n \in 1 .. 0 |-> last[n]], 0, up, last, next)
    BY DEF IsWalk
  <2> QED
    BY <2>1, <2>2
<1>2. ASSUME NEW m \in 1 .. N, Walks(m - 1) PROVE Walks(m)
  <2>1. PICK f \in [1 .. m - 1 -> V] : IsWalk(f, m - 1, up, last, next)
    BY <1>2
  <2>. DEFINE v == IF up[m] = 0 THEN last[m] ELSE next[m][f[up[m]]]
              g == [n \in 1 .. m |-> IF n = m THEN v ELSE f[n]]
  <2>2. up[m] \in 0 .. m - 1
    BY DEF Descends
  <2>3. v \in V
    BY <2>2
  <2>4. g \in [1 .. m -> V]
    BY <2>3
  <2>5. ASSUME NEW n \in 1 .. m
        PROVE  g[n] = IF up[n] = 0 THEN last[n] ELSE next[n][g[up[n]]]
    <3>1. up[n] \in 0 .. n - 1
      BY DEF Descends
    <3>2. up[n] # 0 => g[up[n]] = f[up[n]]
      BY <3>1
    <3>3. n # m => f[n] = IF up[n] = 0 THEN last[n] ELSE next[n][f[up[n]]]
      BY <2>1 DEF IsWalk
    <3> QED
      BY <3>2, <3>3
  <2> QED
    BY <2>4, <2>5 DEF IsWalk
<1>3. \A m \in 1 .. N : m \in Good
  <2>1. ASSUME NEW m \in 1 .. N, \A n \in 1 .. m - 1 : n \in Good
        PROVE  m \in Good
    <3>1. Walks(m - 1)
      <4>1. CASE m = 1
        <5>1. m - 1 = 0
          BY <4>1
        <5>. HIDE DEF Walks
        <5> QED
          BY <1>1, <5>1
      <4>2. CASE m # 1
        <5>1. m - 1 \in 1 .. m - 1
          BY <4>2
        <5> QED
          BY <2>1, <5>1
      <4> QED
        BY <4>1, <4>2
    <3>. HIDE DEF Walks
    <3> QED
      BY <1>2, <3>1
  <2>. HIDE DEF Good
  <2> QED
    BY <2>1, InductionUpTo
<1> QED
  <2>1. CASE N = 0
    BY <1>1, <2>1
  <2>2. CASE N # 0
    BY <1>3, <2>2
  <2> QED
    BY <2>1, <2>2

IsFold(f, N, first, step) ==
    f[0] = first /\ \A n \in 1 .. N : f[n] = step[n][f[n - 1]]

(* So is one that goes over N steps from the first to the last.            *)
LEMMA FoldExists ==
    ASSUME NEW N \in Nat, NEW V, NEW first \in V, NEW step \in [1 .. N -> [V -> V]]
    PROVE  \E f \in [0 .. N -> V] : IsFold(f, N, first, step)
<1>. DEFINE up   == [n \in 1 .. N + 1 |-> n - 1]
            last == [n \in 1 .. N + 1 |-> first]
            next == [n \in 1 .. N + 1 |-> IF n = 1 THEN [v \in V |-> v] ELSE step[n - 1]]
<1>1. Descends(up, N + 1)
  BY DEF Descends
<1>2. last \in [1 .. N + 1 -> V] /\ next \in [1 .. N + 1 -> [V -> V]]
  <2>1. ASSUME NEW n \in 1 .. N + 1, n # 1 PROVE step[n - 1] \in [V -> V]
    <3>1. n - 1 \in 1 .. N
      BY <2>1
    <3> QED
      BY <3>1
  <2>2. [v \in V |-> v] \in [V -> V]
    OBVIOUS
  <2> QED
    BY <2>1, <2>2
<1>3. PICK g \in [1 .. N + 1 -> V] : IsWalk(g, N + 1, up, last, next)
  <2>. HIDE DEF up, last, next
  <2>1. N + 1 \in Nat
    OBVIOUS
  <2> QED
    BY <1>1, <1>2, <2>1, WalkExists
<1>. DEFINE f == [n \in 0 .. N |-> g[n + 1]]
<1>4. f \in [0 .. N -> V]
  OBVIOUS
<1>5. f[0] = first
  <2>1. g[1] = last[1]
    BY <1>3 DEF IsWalk
  <2> QED
    BY <2>1
<1>6. ASSUME NEW n \in 1 .. N PROVE f[n] = step[n][f[n - 1]]
  <2>1. g[n + 1] = next[n + 1][g[n]]
    BY <1>3 DEF IsWalk
  <2>2. next[n + 1] = step[n]
    OBVIOUS
  <2> QED
    BY <2>1, <2>2
<1> QED
  <2>1. IsFold(f, N, first, step)
    BY <1>5, <1>6 DEF IsFold
  <2> QED
    BY <1>4, <2>1
=============================================================================
