---------------------------- MODULE StorageProofs ----------------------------
(***************************************************************************)
(* Proofs about Storage, for every byte size, every set of blocks, every   *)
(* slot size and every number of calls.                                    *)
(*                                                                         *)
(* First Encoding and Encryption: what the encoders return is a buffer, a  *)
(* decoder that finds those bytes at its place returns the value they were *)
(* made from, and decrypt gives what was encrypted.  Then the table: the   *)
(* slots, the invariant, and what is read of a block that was written.     *)
(***************************************************************************)
EXTENDS Storage, LeastNumber, SequenceTheorems, FiniteSetTheorems

LEMMA Constants ==
    /\ Base \in Nat /\ Base >= 8 /\ Base - 1 \in Nat /\ Null \notin Buffer
    /\ Int64Size \in Nat \ {0} /\ HashSize \in Nat \ {0} /\ Int16Size = 2
    /\ \A n \in 0 .. 7 : n \in Byte
    /\ \A n \in Byte : n \in Nat /\ n < Base
    /\ <<>> \in Buffer
<1>1. Base \in Nat /\ Base >= 8 /\ Null \notin Seq(0 .. Base - 1)
      /\ Int64Size \in Nat \ {0} /\ HashSize \in Nat \ {0}
  BY EncodingAssumption
<1> QED
  BY <1>1 DEF Buffer, Byte, Int16Size

(* A buffer of the bytes e[1] .. e[n]. *)
LEMMA BytesAreBuffer ==
    ASSUME NEW n \in Nat, NEW e, \A i \in 1 .. n : e[i] \in Byte, e = [i \in 1 .. n |-> e[i]]
    PROVE  e \in Buffer /\ Len(e) = n /\ DOMAIN e = 1 .. n
<1>1. e \in [1 .. n -> Byte]
  OBVIOUS
<1>2. e \in Seq(Byte)
  BY <1>1, SeqDef
<1> QED
  BY <1>1, <1>2, LenProperties DEF Buffer

LEMMA OneByte ==
    ASSUME NEW b \in Byte
    PROVE  <<b>> \in Buffer /\ Len(<<b>>) = 1 /\ <<b>>[1] = b
BY DEF Buffer

LEMMA Concat ==
    ASSUME NEW s \in Buffer, NEW t \in Buffer
    PROVE  /\ s \o t \in Buffer
           /\ Len(s \o t) = Len(s) + Len(t) /\ Len(s) \in Nat /\ Len(t) \in Nat
           /\ \A i \in 1 .. Len(s) : (s \o t)[i] = s[i]
           /\ \A i \in 1 .. Len(t) : (s \o t)[Len(s) + i] = t[i]
<1>1. Len(s) \in Nat /\ Len(t) \in Nat
  BY LenProperties DEF Buffer
<1>2. /\ s \o t \in Buffer /\ Len(s \o t) = Len(s) + Len(t)
      /\ \A i \in 1 .. Len(s) + Len(t) : (s \o t)[i] =
             IF i <= Len(s) THEN s[i] ELSE t[i - Len(s)]
  BY ConcatProperties DEF Buffer
<1>3. ASSUME NEW i \in 1 .. Len(s) PROVE (s \o t)[i] = s[i]
  BY <1>1, <1>2
<1>4. ASSUME NEW i \in 1 .. Len(t) PROVE (s \o t)[Len(s) + i] = t[i]
  <2>. DEFINE j == Len(s) + i
  <2>1. j \in 1 .. Len(s) + Len(t) /\ ~ (j <= Len(s)) /\ j - Len(s) = i
    BY <1>1
  <2>. HIDE DEF j
  <2>2. (s \o t)[j] = t[i]
    BY <1>2, <2>1
  <2> QED
    BY <2>2 DEF j
<1> QED
  BY <1>1, <1>2, <1>3, <1>4

(***************************************************************************)
(* Integers.                                                               *)
(***************************************************************************)
LEMMA PowerStep ==
    ASSUME NEW n \in Nat
    PROVE  \E f : /\ Power(n) = f[n] /\ f[0] = 1
                  /\ \A i \in 1 .. n : f[i] = Base * f[i - 1]
<1>. DEFINE Body(f, i) == IF i = 0 THEN 1 ELSE Base * f[i - 1]
            power[i \in 0 .. n] == Body(power, i)
            step == [i \in 1 .. n |-> [v \in Nat |-> Base * v]]
<1>1. PICK f \in [0 .. n -> Nat] : IsFold(f, n, 1, step)
  <2>1. step \in [1 .. n -> [Nat -> Nat]]
    BY Constants
  <2>. HIDE DEF step
  <2> QED
    BY <2>1, FoldExists
<1>2. ASSUME NEW i \in 0 .. n PROVE f[i] = Body(f, i)
  <2>1. CASE i = 0
    BY <1>1, <2>1 DEF IsFold
  <2>2. CASE i # 0
    <3>1. i \in 1 .. n /\ i - 1 \in 0 .. n
      BY <2>2
    <3>2. f[i] = step[i][f[i - 1]]
      BY <1>1, <3>1 DEF IsFold
    <3> QED
      BY <2>2, <3>1, <3>2
  <2> QED
    BY <2>1, <2>2
<1>3. f = [i \in 0 .. n |-> Body(f, i)]
  BY <1>2
<1>4. \E g : g = [i \in 0 .. n |-> Body(g, i)]
  BY <1>3
<1>5. power = [i \in 0 .. n |-> Body(power, i)]
  BY <1>4 DEF power
<1>6. Power(n) = power[n]
  BY DEF Power
<1>. HIDE DEF power
<1>7. power[0] = 1
  BY <1>5
<1>8. ASSUME NEW i \in 1 .. n PROVE power[i] = Base * power[i - 1]
  <2>1. i \in 0 .. n /\ i # 0
    OBVIOUS
  <2> QED
    BY <1>5, <2>1
<1> QED
  BY <1>6, <1>7, <1>8

LEMMA PowerFacts ==
    /\ \A n \in Nat : Power(n) \in Nat \ {0}
    /\ Power(0) = 1 /\ Power(1) = Base /\ Power(2) = Base * Base
<1>1. ASSUME NEW n \in Nat PROVE Power(n) \in Nat \ {0}
  <2>1. PICK f : /\ Power(n) = f[n] /\ f[0] = 1
                 /\ \A i \in 1 .. n : f[i] = Base * f[i - 1]
    BY PowerStep
  <2>. DEFINE Good == {i \in 1 .. n : f[i] \in Nat \ {0}}
  <2>2. ASSUME NEW i \in 1 .. n, \A m \in 1 .. i - 1 : m \in Good
        PROVE  i \in Good
    <3>1. f[i - 1] \in Nat \ {0}
      <4>1. CASE i = 1
        <5>1. i - 1 = 0
          BY <4>1
        <5> QED
          BY <2>1, <5>1
      <4>2. CASE i # 1
        <5>1. i - 1 \in 1 .. i - 1
          BY <4>2
        <5> QED
          BY <2>2, <5>1
      <4> QED
        BY <4>1, <4>2
    <3>. DEFINE v == f[i - 1]
    <3>2. v \in Nat \ {0} /\ f[i] = Base * v
      BY <2>1, <3>1
    <3>. HIDE DEF v
    <3>3. Base * v \in Nat \ {0}
      BY <3>2, Constants
    <3> QED
      BY <3>2, <3>3
  <2>3. \A i \in 1 .. n : i \in Good
    <3>. HIDE DEF Good
    <3> QED
      BY <2>2, InductionUpTo
  <2> QED
    <3>1. CASE n = 0
      BY <2>1, <3>1
    <3>2. CASE n # 0
      BY <2>1, <2>3, <3>2
    <3> QED
      BY <3>1, <3>2
<1>2. Power(0) = 1
  <2>1. PICK f : Power(0) = f[0] /\ f[0] = 1
    BY PowerStep
  <2> QED
    BY <2>1
<1>3. Power(1) = Base
  <2>1. PICK f : Power(1) = f[1] /\ f[0] = 1 /\ \A i \in 1 .. 1 : f[i] = Base * f[i - 1]
    BY PowerStep
  <2>2. f[1] = Base * f[0]
    BY <2>1
  <2> QED
    BY <2>1, <2>2, Constants
<1>4. Power(2) = Base * Base
  <2>1. PICK f : Power(2) = f[2] /\ f[0] = 1 /\ \A i \in 1 .. 2 : f[i] = Base * f[i - 1]
    BY PowerStep
  <2>2. f[1] = Base * f[0] /\ f[2] = Base * f[1]
    BY <2>1
  <2> QED
    BY <2>1, <2>2, Constants
<1> QED
  BY <1>1, <1>2, <1>3, <1>4

LEMMA FromIntBytes ==
    ASSUME NEW n \in Nat, NEW size \in Nat
    PROVE  FromInt(n, size) \in Buffer /\ Len(FromInt(n, size)) = size
<1>. DEFINE e == FromInt(n, size)
<1>1. ASSUME NEW i \in 1 .. size PROVE e[i] \in Byte
  <2>. DEFINE p == Power(size - i)
  <2>1. p \in Nat \ {0} /\ e[i] = (n \div p) % Base
    BY PowerFacts DEF FromInt
  <2>. HIDE DEF p
  <2>2. n \div p \in Nat
    BY <2>1
  <2> QED
    BY <2>1, <2>2, Constants DEF Byte
<1>2. e = [i \in 1 .. size |-> e[i]]
  BY DEF FromInt
<1>. HIDE DEF e
<1>3. e \in Buffer /\ Len(e) = size
  BY <1>1, <1>2, BytesAreBuffer
<1> QED
  BY <1>3 DEF e


(***************************************************************************)
(* Folds.  MapThenFoldSet goes over the subsets of the indices and takes   *)
(* the greatest first; only the sets 1 .. m are ever reached.              *)
(***************************************************************************)
LEMMA MaxOfRange ==
    ASSUME NEW n \in Nat \ {0}
    PROVE  Max(1 .. n) = n /\ (1 .. n) \ {n} = 1 .. n - 1
<1>1. n \in 1 .. n /\ \A y \in 1 .. n : n >= y
  OBVIOUS
<1>2. \A x \in 1 .. n : (\A y \in 1 .. n : x >= y) => x = n
  BY <1>1
<1> QED
  BY <1>1, <1>2 DEF Max

LEMMA MaxInRange ==
    ASSUME NEW n \in Nat, NEW S \in SUBSET (1 .. n), S # {}
    PROVE  Max(S) \in S
<1>. DEFINE T == {n - x : x \in S}
<1>1. T \in SUBSET Nat /\ T # {}
  <2>1. \A x \in S : n - x \in Nat
    OBVIOUS
  <2>2. PICK x \in S : TRUE
    OBVIOUS
  <2>3. n - x \in T
    OBVIOUS
  <2> QED
    BY <2>1, <2>3
<1>2. PICK d \in T : \A e \in T : d <= e
  <2>. HIDE DEF T
  <2> QED
    BY <1>1, LeastElement
<1>3. PICK m \in S : d = n - m
  BY <1>2
<1>4. \A x \in S : m >= x
  <2> TAKE x \in S
  <2>1. n - x \in T
    OBVIOUS
  <2> QED
    BY <1>2, <1>3, <2>1
<1> QED
  BY <1>3, <1>4 DEF Max

IsSetFold(f, N, first, step) ==
    \A S \in SUBSET (1 .. N) :
        f[S] = IF S = {} THEN first ELSE step[Max(S)][f[S \ {Max(S)}]]

LEMMA SetFoldExists ==
    ASSUME NEW N \in Nat, NEW V, NEW first \in V, NEW step \in [1 .. N -> [V -> V]]
    PROVE  \E f \in [SUBSET (1 .. N) -> V] : IsSetFold(f, N, first, step)
<1>. DEFINE Folds(m) == \E f \in [SUBSET (1 .. m) -> V] : IsSetFold(f, m, first, step)
            Good == {m \in 1 .. N : Folds(m)}
<1>1. Folds(0)
  <2>. DEFINE f == [S \in SUBSET (1 .. 0) |-> first]
  <2>1. f \in [SUBSET (1 .. 0) -> V]
    OBVIOUS
  <2>2. \A S \in SUBSET (1 .. 0) : S = {}
    OBVIOUS
  <2>3. IsSetFold(f, 0, first, step)
    BY <2>2 DEF IsSetFold
  <2> QED
    BY <2>1, <2>3
<1>2. ASSUME NEW m \in 1 .. N, Folds(m - 1) PROVE Folds(m)
  <2>1. PICK f \in [SUBSET (1 .. m - 1) -> V] : IsSetFold(f, m - 1, first, step)
    BY <1>2
  <2>. DEFINE v(S) == IF m \in S THEN step[m][f[S \ {m}]] ELSE f[S]
              g == [S \in SUBSET (1 .. m) |-> v(S)]
  <2>2. ASSUME NEW S \in SUBSET (1 .. m)
        PROVE  /\ S \ {m} \in SUBSET (1 .. m - 1)
               /\ m \notin S => S \in SUBSET (1 .. m - 1)
               /\ m \in S => Max(S) = m
    <3>1. m \in S => Max(S) = m
      <4>1. ASSUME m \in S PROVE Max(S) = m
        <5>1. \A y \in S : m >= y
          OBVIOUS
        <5>2. \A x \in S : (\A y \in S : x >= y) => x = m
          BY <4>1, <5>1
        <5> QED
          BY <4>1, <5>1, <5>2 DEF Max
      <4> QED
        BY <4>1
    <3> QED
      BY <3>1
  <2>3. ASSUME NEW S \in SUBSET (1 .. m) PROVE v(S) \in V
    BY <2>2
  <2>4. g \in [SUBSET (1 .. m) -> V]
    BY <2>3
  <2>5. ASSUME NEW S \in SUBSET (1 .. m)
        PROVE  g[S] = IF S = {} THEN first ELSE step[Max(S)][g[S \ {Max(S)}]]
    <3>1. CASE m \in S
      <4>. DEFINE T == S \ {m}
      <4>1. T \in SUBSET (1 .. m) /\ m \notin T /\ Max(S) = m /\ S # {}
        BY <2>2, <3>1
      <4>2. g[T] = f[T] /\ g[S] = step[m][f[T]]
        BY <3>1, <4>1
      <4> QED
        BY <4>1, <4>2
    <3>2. CASE m \notin S
      <4>1. S \in SUBSET (1 .. m - 1) /\ g[S] = f[S]
        BY <2>2, <3>2
      <4>2. f[S] = IF S = {} THEN first ELSE step[Max(S)][f[S \ {Max(S)}]]
        BY <2>1, <4>1 DEF IsSetFold
      <4>. DEFINE T == S \ {Max(S)}
      <4>3. T \in SUBSET (1 .. m) /\ m \notin T
        BY <3>2
      <4>4. g[T] = f[T]
        BY <4>3
      <4> QED
        BY <4>1, <4>2, <4>4
    <3> QED
      BY <3>1, <3>2
  <2>. HIDE DEF g
  <2> QED
    BY <2>4, <2>5 DEF IsSetFold
<1>3. \A m \in 1 .. N : m \in Good
  <2>1. ASSUME NEW m \in 1 .. N, \A n \in 1 .. m - 1 : n \in Good
        PROVE  m \in Good
    <3>1. Folds(m - 1)
      <4>1. CASE m = 1
        <5>1. m - 1 = 0
          BY <4>1
        <5>. HIDE DEF Folds
        <5> QED
          BY <1>1, <5>1
      <4>2. CASE m # 1
        <5>1. m - 1 \in 1 .. m - 1
          BY <4>2
        <5> QED
          BY <2>1, <5>1
      <4> QED
        BY <4>1, <4>2
    <3>. HIDE DEF Folds
    <3> QED
      BY <1>2, <3>1
  <2>. HIDE DEF Good
  <2> QED
    BY <2>1, InductionUpTo
<1> QED
  <2>1. CASE N = 0
    BY <1>1, <2>1
  <2>2. CASE N # 0
    <3>1. N \in Good
      <4>1. N \in 1 .. N
        BY <2>2
      <4>. HIDE DEF Good
      <4> QED
        BY <1>3, <4>1
    <3> QED
      BY <3>1
  <2> QED
    BY <2>1, <2>2

(* A recursive function over the subsets of the indices that goes on as a  *)
(* fold does stays within the values of the fold.                          *)
LEMMA SetFoldWithin ==
    ASSUME NEW N \in Nat, NEW V, NEW f, f[{}] \in V,
           \A m \in 1 .. N : f[1 .. m - 1] \in V => f[1 .. m] \in V
    PROVE  f[1 .. N] \in V
<1>. DEFINE Good == {m \in 1 .. N : f[1 .. m] \in V}
<1>1. ASSUME NEW m \in 1 .. N, \A i \in 1 .. m - 1 : i \in Good
      PROVE  m \in Good
  <2>1. f[1 .. m - 1] \in V
    <3>1. CASE m = 1
      <4>1. 1 .. m - 1 = {}
        BY <3>1
      <4> QED
        BY <4>1
    <3>2. CASE m # 1
      <4>1. m - 1 \in 1 .. m - 1
        BY <3>2
      <4> QED
        BY <1>1, <4>1
    <3> QED
      BY <3>1, <3>2
  <2> QED
    BY <2>1
<1>2. \A m \in 1 .. N : m \in Good
  <2>. HIDE DEF Good
  <2> QED
    BY <1>1, InductionUpTo
<1>3. CASE N = 0
  <2>1. 1 .. N = {}
    BY <1>3
  <2> QED
    BY <2>1
<1>4. CASE N # 0
  <2>1. N \in 1 .. N
    BY <1>4
  <2> QED
    BY <1>2, <2>1
<1> QED
  BY <1>3, <1>4

(* An integer of two bytes. *)
LEMMA ToIntOfTwo ==
    ASSUME NEW buf \in Buffer, NEW i \in 1 .. Len(buf) - 1
    PROVE  ToInt(buf, i, Int16Size) = buf[i] * Base + buf[i + 1]
<1>. DEFINE s == SubSeq(buf, i, i + Int16Size - 1)
            Body(f, S) == IF S = {} THEN 0 ELSE LET x == Max(S) IN f[S \ {x}] * Base + s[x]
            iter[S \in SUBSET DOMAIN s] == Body(iter, S)
            step == [x \in 1 .. 2 |-> [v \in Nat |-> v * Base + s[x]]]
<1>1. ToInt(buf, i, Int16Size) = iter[DOMAIN s]
  BY DEF ToInt, FoldLeft, MapThenFoldSet
<1>2. DOMAIN s = 1 .. 2 /\ s[1] = buf[i] /\ s[2] = buf[i + 1] /\ s[1] \in Nat /\ s[2] \in Nat
  <2>1. \A j \in i .. i + 1 : buf[j] \in Byte
    BY LenProperties DEF Buffer
  <2>2. i \in Int /\ i + Int16Size - 1 = i + 1 /\ i + 1 \in Int
    BY Constants
  <2>. DEFINE j == i + 1
  <2>3. s = SubSeq(buf, i, j)
    BY <2>2
  <2>. HIDE DEF s
  <2>a. j \in Int /\ j - i + 1 = 2 /\ i <= j
    BY <2>2
  <2>. HIDE DEF j
  <2>4. /\ SubSeq(buf, i, j) \in Seq(Byte) /\ Len(SubSeq(buf, i, j)) = j - i + 1
        /\ \A m \in 1 .. j - i + 1 : SubSeq(buf, i, j)[m] = buf[i + m - 1]
    BY <2>1, <2>2, <2>a, SubSeqProperties DEF j
  <2>5. s[1] = buf[i] /\ s[2] = buf[i + 1]
    BY <2>3, <2>a, <2>4
  <2>6. DOMAIN s = 1 .. 2
    BY <2>3, <2>a, <2>4
  <2> QED
    BY <2>1, <2>5, <2>6, Constants
<1>. HIDE DEF s
<1>3. PICK f \in [SUBSET (1 .. 2) -> Nat] : IsSetFold(f, 2, 0, step)
  <2>1. \A x \in 1 .. 2 : s[x] \in Nat
    BY <1>2
  <2>. DEFINE next(v, x) == v * Base + s[x]
  <2>a. ASSUME NEW x \in 1 .. 2, NEW v \in Nat PROVE next(v, x) \in Nat
    <3>1. s[x] \in Nat
      BY <2>1
    <3>2. Base \in Nat
      BY Constants
    <3>3. PICK m \in Nat : m = v * Base
      BY <3>2
    <3> QED
      BY <3>1, <3>3
  <2>b. step = [x \in 1 .. 2 |-> [v \in Nat |-> next(v, x)]]
    OBVIOUS
  <2>. HIDE DEF step, next
  <2>2. step \in [1 .. 2 -> [Nat -> Nat]]
    BY <2>a, <2>b
  <2> QED
    BY <2>2, SetFoldExists
<1>4. ASSUME NEW S \in SUBSET (1 .. 2) PROVE f[S] = Body(f, S)
  <2>1. f[S] = IF S = {} THEN 0 ELSE step[Max(S)][f[S \ {Max(S)}]]
    BY <1>3 DEF IsSetFold
  <2>2. ASSUME S # {} PROVE Max(S) \in 1 .. 2 /\ f[S \ {Max(S)}] \in Nat
    <3>1. Max(S) \in S
      BY <2>2, MaxInRange
    <3> QED
      BY <3>1
  <2> QED
    BY <2>1, <2>2
<1>5. f = [S \in SUBSET (1 .. 2) |-> Body(f, S)]
  BY <1>4
<1>6. iter = [S \in SUBSET (1 .. 2) |-> Body(iter, S)]
  <2>1. \E g : g = [S \in SUBSET (1 .. 2) |-> Body(g, S)]
    BY <1>5
  <2> QED
    BY <1>2, <2>1 DEF iter
<1>. HIDE DEF iter
<1>7. iter[{}] = 0
  BY <1>6
<1>8. iter[1 .. 1] = s[1]
  <2>1. 1 .. 1 \in SUBSET (1 .. 2) /\ 1 .. 1 # {} /\ Max(1 .. 1) = 1 /\ (1 .. 1) \ {1} = {}
    <3>1. Max(1 .. 1) = 1
      <4>. DEFINE n == 1
      <4>1. n \in Nat \ {0}
        OBVIOUS
      <4>. HIDE DEF n
      <4>2. Max(1 .. n) = n
        BY <4>1, MaxOfRange
      <4> QED
        BY <4>2 DEF n
    <3> QED
      BY <3>1
  <2>2. iter[1 .. 1] = iter[{}] * Base + s[1]
    BY <1>6, <2>1
  <2>3. iter[{}] * Base = 0
    <3>1. Base \in Nat
      BY Constants
    <3> QED
      BY <1>7, <3>1
  <2>4. s[1] \in Nat
    BY <1>2
  <2> QED
    BY <2>2, <2>3, <2>4
<1>9. iter[1 .. 2] = s[1] * Base + s[2]
  <2>1. 1 .. 2 \in SUBSET (1 .. 2) /\ 1 .. 2 # {} /\ Max(1 .. 2) = 2 /\ (1 .. 2) \ {2} = 1 .. 1
    <3>1. Max(1 .. 2) = 2
      <4>. DEFINE n == 2
      <4>1. n \in Nat \ {0}
        OBVIOUS
      <4>. HIDE DEF n
      <4>2. Max(1 .. n) = n
        BY <4>1, MaxOfRange
      <4> QED
        BY <4>2 DEF n
    <3> QED
      BY <3>1
  <2> QED
    BY <1>6, <1>8, <2>1
<1> QED
  BY <1>1, <1>2, <1>9

(* A length that fits its prefix reads back from it. *)
LEMMA LengthReadsBack ==
    ASSUME NEW n \in Nat, FitsIn(n, Int16Size)
    PROVE  FromInt(n, Int16Size)[1] * Base + FromInt(n, Int16Size)[2] = n
<1>. DEFINE q == n \div Base
            m == n % Base
<1>1. n < Base * Base
  <2>1. Base * Base \in Nat
    BY Constants
  <2> QED
    BY <2>1, PowerFacts, Constants DEF FitsIn
<1>2. FromInt(n, Int16Size)[1] = q % Base /\ FromInt(n, Int16Size)[2] = m
  <2>1. FromInt(n, 2) = [i \in 1 .. 2 |-> (n \div Power(2 - i)) % Base]
    BY DEF FromInt
  <2>2. 2 - 1 = 1 /\ 2 - 2 = 0 /\ n \div 1 = n
    OBVIOUS
  <2>3. /\ FromInt(n, 2)[1] = (n \div Power(2 - 1)) % Base
        /\ FromInt(n, 2)[2] = (n \div Power(2 - 2)) % Base
    BY <2>1
  <2> QED
    BY <2>2, <2>3, PowerFacts, Constants
<1>3. q \in Nat /\ q < Base /\ m \in Nat /\ n = (q * Base) + m
  BY <1>1, Constants
<1>. HIDE DEF q, m
<1>4. q % Base = q
  BY <1>3, Constants
<1> QED
  BY <1>2, <1>3, <1>4


(***************************************************************************)
(* What the encoders return is a buffer.                                   *)
(***************************************************************************)
LEMMA VarBinaryBytes ==
    ASSUME NEW v \in MaybeBuffer
    PROVE  FromVarBinary(v) \in Buffer /\ Optional(v) \in Buffer
<1>1. CASE v = Null
  <2>1. FromInt(0, Int16Size) \in Buffer
    BY FromIntBytes, Constants
  <2> QED
    BY <1>1, <2>1, Constants DEF FromVarBinary, Optional
<1>2. CASE v # Null
  <2>1. v \in Buffer /\ Len(v) \in Nat
    BY <1>2, LenProperties DEF MaybeBuffer, Buffer
  <2>2. FromInt(Len(v), Int16Size) \in Buffer
    BY <2>1, FromIntBytes, Constants
  <2> QED
    BY <1>2, <2>1, <2>2, Concat DEF FromVarBinary, Optional
<1> QED
  BY <1>1, <1>2

LEMMA WindowBytes ==
    ASSUME NEW d, d.tsInit \in Nat, d.tsExp \in Nat, d.data \in MaybeBuffer
    PROVE  FromWindow(d) \in Buffer
<1>1. /\ FromInt(d.tsInit, Int64Size) \in Buffer /\ FromInt(d.tsExp, Int64Size) \in Buffer
      /\ Optional(d.data) \in Buffer
  BY FromIntBytes, VarBinaryBytes, Constants
<1>2. FromInt(d.tsInit, Int64Size) \o FromInt(d.tsExp, Int64Size) \in Buffer
  BY <1>1, Concat
<1> QED
  BY <1>1, <1>2, Concat DEF FromWindow

LEMMA SmallIsByte ==
    ASSUME NEW n, FitsIn(n, 1)
    PROVE  n \in Byte
BY PowerFacts DEF FitsIn, Byte

LEMMA KeyBytes ==
    ASSUME NEW d \in KeyFields, FitsIn(d.action, 1)
    PROVE  FromKey(d) \in Buffer
<1>1. /\ d.parentKey \in MaybeBuffer /\ d.key \in MaybeBuffer
      /\ d.tsInit \in Nat /\ d.tsExp \in Nat /\ d.data \in MaybeBuffer
  BY DEF KeyFields
<1>. DEFINE p == FromVarBinary(d.parentKey)
            q == FromVarBinary(d.key)
            a == <<d.action>>
            w == FromWindow(d)
<1>2. p \in Buffer /\ q \in Buffer /\ a \in Buffer /\ w \in Buffer
  BY <1>1, VarBinaryBytes, WindowBytes, SmallIsByte, OneByte
<1>3. FromKey(d) = ((p \o q) \o a) \o w
  BY DEF FromKey
<1>. HIDE DEF p, q, a, w
<1>4. p \o q \in Buffer
  BY <1>2, Concat
<1>5. (p \o q) \o a \in Buffer
  BY <1>2, <1>4, Concat
<1> QED
  BY <1>2, <1>3, <1>5, Concat

LEMMA SecretBytes ==
    ASSUME NEW d \in SecretFields
    PROVE  FromSecret(d) \in Buffer
<1>1. /\ d.key \in MaybeBuffer /\ d.ref \in MaybeBuffer /\ d.secret \in MaybeBuffer
      /\ d.tsInit \in Nat /\ d.tsExp \in Nat /\ d.data \in MaybeBuffer
  BY DEF SecretFields
<1>. DEFINE p == FromVarBinary(d.key)
            q == FromVarBinary(d.ref)
            r == FromVarBinary(d.secret)
            w == FromWindow(d)
<1>2. p \in Buffer /\ q \in Buffer /\ r \in Buffer /\ w \in Buffer
  BY <1>1, VarBinaryBytes, WindowBytes
<1>3. FromSecret(d) = ((p \o q) \o r) \o w
  BY DEF FromSecret
<1>. HIDE DEF p, q, r, w
<1>4. p \o q \in Buffer
  BY <1>2, Concat
<1>5. (p \o q) \o r \in Buffer
  BY <1>2, <1>4, Concat
<1> QED
  BY <1>2, <1>3, <1>5, Concat

(* The options are folded pair by pair. *)
WithPair(buf, o) == buf \o <<Len(o.key)>> \o o.key \o <<Len(o.value)>> \o o.value

LEMMA PairBytes ==
    ASSUME NEW o \in [key : Buffer, value : Buffer], FitsIn(Len(o.key), 1),
           FitsIn(Len(o.value), 1), NEW v \in Buffer
    PROVE  WithPair(v, o) \in Buffer
<1>. DEFINE a == <<Len(o.key)>>
            k == o.key
            b == <<Len(o.value)>>
            w == o.value
<1>1. a \in Buffer /\ k \in Buffer /\ b \in Buffer /\ w \in Buffer
  BY SmallIsByte, OneByte
<1>. HIDE DEF a, k, b, w
<1>2. v \o a \in Buffer
  BY <1>1, Concat
<1>3. (v \o a) \o k \in Buffer
  BY <1>1, <1>2, Concat
<1>4. ((v \o a) \o k) \o b \in Buffer
  BY <1>1, <1>3, Concat
<1>5. (((v \o a) \o k) \o b) \o w \in Buffer
  BY <1>1, <1>4, Concat
<1> QED
  BY <1>5 DEF WithPair, a, k, b, w

LEMMA OptionsFold ==
    ASSUME NEW d \in OptionsFields, FitsIn(Len(d.options), 1),
           \A o \in ToSet(d.options) : FitsIn(Len(o.key), 1) /\ FitsIn(Len(o.value), 1)
    PROVE  \E g : /\ FromOptions(d) = g[Len(d.options)]
                  /\ g[0] = <<Len(d.options)>>
                  /\ \A m \in 0 .. Len(d.options) : g[m] \in Buffer
                  /\ \A m \in 1 .. Len(d.options) : g[m] = WithPair(g[m - 1], d.options[m])
<1>. DEFINE s == d.options
            N == Len(s)
            first == <<N>>
            Body(f, S) ==
                IF S = {} THEN first ELSE LET x == Max(S) IN WithPair(f[S \ {x}], s[x])
            iter[S \in SUBSET DOMAIN s] == Body(iter, S)
            step == [x \in 1 .. N |-> [v \in Buffer |-> WithPair(v, s[x])]]
            g == [m \in 0 .. N |-> iter[1 .. m]]
<1>1. FromOptions(d) = iter[DOMAIN s]
  BY DEF FromOptions, FoldLeft, MapThenFoldSet, WithPair
<1>2. N \in Nat /\ DOMAIN s = 1 .. N /\ \A x \in 1 .. N : s[x] \in [key : Buffer, value : Buffer]
  <2>1. s \in Seq([key : Buffer, value : Buffer])
    BY DEF OptionsFields
  <2>. HIDE DEF s
  <2> QED
    BY <2>1, LenProperties, ElementOfSeq
<1>3. first \in Buffer
  BY SmallIsByte, OneByte
<1>4. ASSUME NEW x \in 1 .. N, NEW v \in Buffer PROVE WithPair(v, s[x]) \in Buffer
  <2>1. s[x] \in ToSet(s)
    BY <1>2 DEF ToSet
  <2> QED
    BY <1>2, <2>1, PairBytes
<1>. HIDE DEF s, N, first
<1>5. PICK f \in [SUBSET (1 .. N) -> Buffer] : IsSetFold(f, N, first, step)
  <2>1. step \in [1 .. N -> [Buffer -> Buffer]]
    BY <1>4
  <2>. HIDE DEF step
  <2> QED
    BY <1>2, <1>3, <2>1, SetFoldExists
<1>6. ASSUME NEW S \in SUBSET (1 .. N) PROVE f[S] = Body(f, S)
  <2>1. f[S] = IF S = {} THEN first ELSE step[Max(S)][f[S \ {Max(S)}]]
    BY <1>5 DEF IsSetFold
  <2>2. ASSUME S # {} PROVE Max(S) \in 1 .. N /\ f[S \ {Max(S)}] \in Buffer
    BY <1>2, <2>2, MaxInRange
  <2> QED
    BY <2>1, <2>2
<1>7. f = [S \in SUBSET (1 .. N) |-> Body(f, S)]
  BY <1>6
<1>8. iter = [S \in SUBSET (1 .. N) |-> Body(iter, S)]
  <2>1. \E h : h = [S \in SUBSET (1 .. N) |-> Body(h, S)]
    BY <1>7
  <2> QED
    BY <1>2, <2>1 DEF iter
<1>. HIDE DEF iter
<1>9. g[0] = first
  <2>1. 1 .. 0 = {} /\ 0 \in 0 .. N
    BY <1>2
  <2> QED
    BY <1>8, <2>1
<1>10. ASSUME NEW m \in 1 .. N PROVE g[m] = WithPair(g[m - 1], s[m])
  <2>1. m \in Nat \ {0} /\ 1 .. m \in SUBSET (1 .. N) /\ 1 .. m # {}
        /\ m \in 0 .. N /\ m - 1 \in 0 .. N
    <3>1. m \in 1 .. m /\ \A i \in 1 .. m : i \in 1 .. N
      BY <1>2
    <3>2. m \in Nat \ {0} /\ m \in 0 .. N /\ m - 1 \in 0 .. N
      BY <1>2
    <3> QED
      BY <3>1, <3>2
  <2>2. Max(1 .. m) = m /\ (1 .. m) \ {m} = 1 .. m - 1
    BY <2>1, MaxOfRange
  <2>3. iter[1 .. m] = WithPair(iter[1 .. m - 1], s[m])
    BY <1>8, <2>1, <2>2
  <2> QED
    BY <2>1, <2>3
<1>. HIDE DEF g
<1>11. \A m \in 0 .. N : g[m] \in Buffer
  <2>. DEFINE Good == {m \in 1 .. N : g[m] \in Buffer}
  <2>1. ASSUME NEW m \in 1 .. N, \A i \in 1 .. m - 1 : i \in Good PROVE m \in Good
    <3>1. g[m - 1] \in Buffer
      <4>1. CASE m = 1
        <5>1. m - 1 = 0
          BY <4>1
        <5> QED
          BY <1>3, <1>9, <5>1
      <4>2. CASE m # 1
        <5>1. m - 1 \in 1 .. m - 1
          BY <4>2
        <5> QED
          BY <2>1, <5>1
      <4> QED
        BY <4>1, <4>2
    <3> QED
      BY <1>4, <1>10, <3>1
  <2>2. \A m \in 1 .. N : m \in Good
    <3>. HIDE DEF Good
    <3> QED
      BY <1>2, <2>1, InductionUpTo
  <2>3. \A m \in 0 .. N : m = 0 \/ m \in 1 .. N
    BY <1>2
  <2> QED
    BY <1>3, <1>9, <2>2, <2>3
<1>12. FromOptions(d) = g[N]
  BY <1>1, <1>2 DEF g
<1> QED
  BY <1>9, <1>10, <1>11, <1>12 DEF s, N, first

LEMMA OptionsBytes ==
    ASSUME NEW d \in OptionsFields, FitsIn(Len(d.options), 1),
           \A o \in ToSet(d.options) : FitsIn(Len(o.key), 1) /\ FitsIn(Len(o.value), 1)
    PROVE  FromOptions(d) \in Buffer
<1>1. Len(d.options) \in 0 .. Len(d.options)
  <2>1. d.options \in Seq([key : Buffer, value : Buffer])
    BY DEF OptionsFields
  <2> QED
    BY <2>1, LenProperties
<1> QED
  BY <1>1, OptionsFold


(***************************************************************************)
(* The data of a block, plain or encrypted, and the block.                 *)
(***************************************************************************)
LEMMA PlainBytes ==
    ASSUME NEW type \in ToSet(TypeNames), NEW d \in PlainData(type), PlainFits(type, d)
    PROVE  FromPlain(type, d) \in Buffer
<1>1. <<0>> \in Buffer /\ <<1>> \in Buffer
  BY OneByte, Constants
<1>2. CASE type \in KeyTypes
  <2>1. d \in KeyFields /\ FitsIn(d.action, 1)
    BY <1>2 DEF PlainData, PlainFits, KeyTypes, OptionsTypes
  <2>2. FromPlain(type, d) = <<1>> \o FromKey(d)
    BY <1>2 DEF FromPlain, KeyTypes, OptionsTypes
  <2> QED
    BY <1>1, <2>1, <2>2, KeyBytes, Concat
<1>3. CASE type = "secret"
  <2>1. d \in SecretFields
    BY <1>3 DEF PlainData, KeyTypes
  <2>2. FromPlain(type, d) = <<1>> \o FromSecret(d)
    BY <1>3 DEF FromPlain, KeyTypes, OptionsTypes
  <2> QED
    BY <1>1, <2>1, <2>2, SecretBytes, Concat
<1>4. CASE type \in OptionsTypes
  <2>1. d \in OptionsFields
    BY <1>4 DEF PlainData, KeyTypes, OptionsTypes
  <2>2. /\ FitsIn(Len(d.options), 1)
        /\ \A o \in ToSet(d.options) : FitsIn(Len(o.key), 1) /\ FitsIn(Len(o.value), 1)
    BY <1>4 DEF PlainFits, KeyTypes, OptionsTypes
  <2>3. FromPlain(type, d) = <<1>> \o FromOptions(d)
    BY <1>4 DEF FromPlain, KeyTypes, OptionsTypes
  <2> QED
    BY <1>1, <2>1, <2>2, <2>3, OptionsBytes, Concat
<1>5. CASE type = "record"
  BY <1>1, <1>5 DEF FromPlain, KeyTypes, OptionsTypes
<1>6. type \in KeyTypes \/ type = "secret" \/ type \in OptionsTypes \/ type = "record"
  BY DEF ToSet, TypeNames, KeyTypes, OptionsTypes
<1> QED
  BY <1>2, <1>3, <1>4, <1>5, <1>6

(* Which of its forms the data of a block has shows in its fields.         *)
LEMMA DataKinds ==
    ASSUME NEW type
    PROVE  /\ \A d \in PlainData(type) : "encryptedData" \notin DOMAIN d /\ "plain" \notin DOMAIN d
           /\ \A d \in EncryptedData : "encryptedData" \in DOMAIN d /\ "plain" \notin DOMAIN d
           /\ \A d \in SealedData(type) : "encryptedData" \notin DOMAIN d /\ "plain" \in DOMAIN d
<1>1. \A d \in KeyFields \cup SecretFields \cup OptionsFields :
          "encryptedData" \notin DOMAIN d /\ "plain" \notin DOMAIN d
  BY DEF KeyFields, SecretFields, OptionsFields
<1>2. PlainData(type) \in {KeyFields, SecretFields, OptionsFields}
  BY DEF PlainData
<1>3. \A d \in PlainData(type) : "encryptedData" \notin DOMAIN d /\ "plain" \notin DOMAIN d
  BY <1>1, <1>2
<1>4. \A d \in EncryptedData : "encryptedData" \in DOMAIN d /\ "plain" \notin DOMAIN d
  BY DEF EncryptedData
<1>5. \A d \in SealedData(type) : "encryptedData" \notin DOMAIN d /\ "plain" \in DOMAIN d
  BY DEF SealedData
<1> QED
  BY <1>3, <1>4, <1>5

LEMMA EncryptedFacts ==
    ASSUME NEW data \in EncryptedData, data # Null
    PROVE  /\ IsEncrypted(data)
           /\ data.key \in Buffer /\ data.key \in MaybeBuffer
           /\ data.encryptedData \in Buffer
<1>1. "encryptedData" \in DOMAIN data
  BY DataKinds
<1>2. data.key \in Buffer /\ data.encryptedData \in Buffer
  BY DEF EncryptedData
<1>3. Null \notin Buffer
  BY EncodingAssumption DEF Buffer, Byte
<1>4. data.key # Null
  BY <1>2, <1>3
<1>5. data.key \in MaybeBuffer
  BY <1>2 DEF MaybeBuffer
<1> QED
  BY <1>1, <1>2, <1>4, <1>5 DEF IsEncrypted

LEMMA DataBytes ==
    ASSUME NEW type \in ToSet(TypeNames), NEW data,
           data \in {Null} \cup PlainData(type) \cup EncryptedData, DataFits(type, data)
    PROVE  FromData(type, data) \in Buffer
<1>1. CASE data = Null
  <2>1. FromData(type, data) = <<0>>
    BY <1>1 DEF FromData, IsEncrypted
  <2> QED
    BY <2>1, OneByte, Constants
<1>2. CASE data # Null /\ data \in PlainData(type)
  <2>1. ~IsEncrypted(data)
    BY <1>2, DataKinds DEF IsEncrypted
  <2>2. FromData(type, data) = FromPlain(type, data) /\ PlainFits(type, data)
    BY <1>2, <2>1 DEF FromData, DataFits
  <2> QED
    BY <1>2, <2>2, PlainBytes
<1>3. CASE data # Null /\ data \in EncryptedData
  <2>1. IsEncrypted(data)
    BY <1>3, EncryptedFacts
  <2>2. data.key \in MaybeBuffer /\ data.encryptedData \in Buffer
    BY <1>3, EncryptedFacts
  <2>. DEFINE p == <<2>>
              q == FromVarBinary(data.key)
              r == data.encryptedData
  <2>3. FromData(type, data) = (p \o q) \o r
    BY <1>3, <2>1 DEF FromData
  <2>4. p \in Buffer /\ q \in Buffer /\ r \in Buffer
    <3>1. p \in Buffer
      BY OneByte, Constants
    <3>2. q \in Buffer
      BY <2>2, VarBinaryBytes
    <3> QED
      BY <2>2, <3>1, <3>2
  <2>. HIDE DEF p, q, r
  <2>5. p \o q \in Buffer
    BY <2>4, Concat
  <2> QED
    BY <2>3, <2>4, <2>5, Concat
<1> QED
  BY <1>1, <1>2, <1>3

LEMMA DigestIsNat ==
    ASSUME NEW buf \in Buffer
    PROVE  Digest(buf) \in Nat
<1>. DEFINE N == Len(buf)
            Mod == Base * Base
            Add(n, digit) == (3 * n + digit + 1) % Mod
            Body(f, S) == IF S = {} THEN 0 ELSE LET x == Max(S) IN Add(f[S \ {x}], buf[x])
            iter[S \in SUBSET DOMAIN buf] == Body(iter, S)
            step == [x \in 1 .. N |-> [v \in Nat |-> Add(v, buf[x])]]
<1>1. Digest(buf) = iter[DOMAIN buf]
  BY DEF Digest, FoldLeft, MapThenFoldSet
<1>2. N \in Nat /\ DOMAIN buf = 1 .. N /\ \A x \in 1 .. N : buf[x] \in Nat
  BY LenProperties, ElementOfSeq, Constants DEF Buffer
<1>3. Mod \in Nat \ {0}
  BY Constants
<1>. HIDE DEF N, Mod
<1>4. ASSUME NEW v \in Nat, NEW x \in 1 .. N PROVE Add(v, buf[x]) \in Nat
  <2>. DEFINE a == 3 * v + buf[x] + 1
  <2>1. a \in Nat
    BY <1>2
  <2>. HIDE DEF a
  <2>2. a % Mod \in Nat
    BY <1>3, <2>1
  <2> QED
    BY <2>2 DEF a
<1>. HIDE DEF Add
<1>5. PICK f \in [SUBSET (1 .. N) -> Nat] : IsSetFold(f, N, 0, step)
  <2>1. step \in [1 .. N -> [Nat -> Nat]]
    BY <1>4
  <2>. HIDE DEF step
  <2> QED
    BY <1>2, <2>1, SetFoldExists
<1>6. ASSUME NEW S \in SUBSET (1 .. N) PROVE f[S] = Body(f, S)
  <2>1. f[S] = IF S = {} THEN 0 ELSE step[Max(S)][f[S \ {Max(S)}]]
    BY <1>5 DEF IsSetFold
  <2>2. ASSUME S # {} PROVE Max(S) \in 1 .. N /\ f[S \ {Max(S)}] \in Nat
    BY <1>2, <2>2, MaxInRange
  <2> QED
    BY <2>1, <2>2
<1>7. f = [S \in SUBSET (1 .. N) |-> Body(f, S)]
  BY <1>6
<1>8. iter = [S \in SUBSET (1 .. N) |-> Body(iter, S)]
  <2>1. \E g : g = [S \in SUBSET (1 .. N) |-> Body(g, S)]
    BY <1>7
  <2> QED
    BY <1>2, <2>1 DEF iter
<1>. HIDE DEF iter
<1>9. iter[{}] \in Nat
  BY <1>8
<1>10. ASSUME NEW m \in 1 .. N, iter[1 .. m - 1] \in Nat PROVE iter[1 .. m] \in Nat
  <2>1. m \in Nat \ {0} /\ 1 .. m \in SUBSET (1 .. N) /\ 1 .. m # {}
    <3>1. m \in 1 .. m /\ \A i \in 1 .. m : i \in 1 .. N
      BY <1>2
    <3>2. m \in Nat \ {0}
      BY <1>2
    <3> QED
      BY <3>1, <3>2
  <2>2. Max(1 .. m) = m /\ (1 .. m) \ {m} = 1 .. m - 1
    BY <2>1, MaxOfRange
  <2>3. iter[1 .. m] = Add(iter[1 .. m - 1], buf[m])
    BY <1>8, <2>1, <2>2
  <2> QED
    BY <1>4, <1>10, <2>3
<1>11. iter[1 .. N] \in Nat
  BY <1>2, <1>9, <1>10, SetFoldWithin
<1> QED
  BY <1>1, <1>2, <1>11

LEMMA ShiftBytes ==
    ASSUME NEW buf \in Buffer, NEW n \in Int
    PROVE  Shift(buf, n) \in Buffer
<1>. DEFINE e == Shift(buf, n)
            m == Len(buf)
<1>1. m \in Nat /\ DOMAIN buf = 1 .. m /\ \A i \in 1 .. m : buf[i] \in Nat
  BY LenProperties, ElementOfSeq, Constants DEF Buffer
<1>2. e = [i \in 1 .. m |-> (buf[i] + n) % Base]
  BY <1>1 DEF Shift
<1>. HIDE DEF e, m
<1>3. \A i \in 1 .. m : e[i] \in Byte
  BY <1>1, <1>2, Constants DEF Byte
<1>4. e = [i \in 1 .. m |-> e[i]]
  BY <1>2
<1>5. e \in Buffer
  BY <1>1, <1>3, <1>4, BytesAreBuffer
<1> QED
  BY <1>5 DEF e

LEMMA EncryptBytes ==
    ASSUME NEW key \in Buffer, NEW data \in Buffer, NEW random \in Random
    PROVE  Encrypt(key, data, random) \in Buffer
<1>. DEFINE a == PublicEncrypt(key, random.key)
            p == FromInt(Len(a), Int16Size)
            c == Cipher(random, data)
<1>1. a \in Buffer
  BY DigestIsNat, ShiftBytes DEF PublicEncrypt, Random
<1>2. c \in Buffer
  <2>1. random.key \in Buffer /\ random.iv \in Buffer
    BY DEF Random
  <2>. DEFINE k == random.key \o random.iv
              v == random.iv
  <2>2. k \in Buffer /\ v \in Buffer /\ c = v \o Shift(data, Digest(k))
    BY <2>1, Concat DEF Cipher, CipherIv
  <2>. HIDE DEF k, v, c
  <2>3. Shift(data, Digest(k)) \in Buffer
    BY <2>2, DigestIsNat, ShiftBytes
  <2> QED
    BY <2>2, <2>3, Concat
<1>3. Encrypt(key, data, random) = (p \o a) \o c
  BY DEF Encrypt
<1>. HIDE DEF a, c
<1>4. p \in Buffer
  <2>1. Len(a) \in Nat
    BY <1>1, LenProperties DEF Buffer
  <2> QED
    BY <2>1, FromIntBytes, Constants
<1>. HIDE DEF p
<1>5. p \o a \in Buffer
  BY <1>1, <1>4, Concat
<1> QED
  BY <1>2, <1>3, <1>5, Concat


(* What the encoder is given: a block whose data are plain or encrypted.   *)
Encodable(b) ==
    /\ b.seq \in Nat /\ b.nonce \in Nat /\ b.timestamp \in Nat /\ b.layer \in Nat
    /\ b.prev \in HashValue \cup {Null} /\ b.parent \in HashValue \cup {Null}
    /\ b.type \in ToSet(TypeNames) /\ b.sig \in MaybeBuffer
    /\ b.data \in {Null} \cup PlainData(b.type) \cup EncryptedData
    /\ Serializable(b)

LEMMA SealedIsEncodable ==
    ASSUME NEW b \in DOMAIN Value
    PROVE  Encodable(Sealed(b)) /\ Sealed(b).prev = b.prev
<1>1. b \in Blocks /\ Serializable(Sealed(b)) /\ (IsSealed(b) => DataFits(b.type, b.data.plain))
  BY DEF Value, EncoderThrows
<1>2. PICK type \in ToSet(TypeNames) : b \in BlockOf(type)
  BY <1>1, StorageAssumption
<1>3. /\ b.seq \in Nat /\ b.nonce \in Nat /\ b.timestamp \in Nat /\ b.layer \in Nat
      /\ b.prev \in HashValue \cup {Null} /\ b.parent \in HashValue \cup {Null}
      /\ b.type = type /\ b.sig \in MaybeBuffer
      /\ b.data \in {Null} \cup PlainData(type) \cup EncryptedData \cup SealedData(type)
  BY <1>2 DEF BlockOf
<1>4. CASE ~IsSealed(b)
  <2>1. Sealed(b) = b
    BY <1>4 DEF Sealed
  <2>2. b.data \in {Null} \cup PlainData(type) \cup EncryptedData
    BY <1>3, <1>4, DataKinds DEF IsSealed
  <2> QED
    BY <1>1, <1>2, <1>3, <2>1, <2>2 DEF Encodable
<1>5. CASE IsSealed(b)
  <2>. DEFINE d == b.data
              e == EncryptBlockData(d.key, b.type, d.plain, d.random)
  <2>1. d \in SealedData(type)
    <3>1. d # Null /\ "plain" \in DOMAIN d
      BY <1>5 DEF IsSealed
    <3>2. d \notin PlainData(type) /\ d \notin EncryptedData
      BY <3>1, DataKinds
    <3> QED
      BY <1>3, <3>1, <3>2
  <2>2. /\ d.key \in Buffer /\ d.plain \in PlainData(type)
        /\ d.random \in Random /\ DataFits(type, d.plain)
    BY <1>1, <1>3, <1>5, <2>1 DEF SealedData
  <2>3. e \in EncryptedData
    <3>. DEFINE p == FromData(type, d.plain)
                x == Encrypt(d.key, p, d.random)
    <3>1. p \in Buffer
      BY <2>2, DataBytes
    <3>. HIDE DEF p
    <3>2. x \in Buffer
      BY <2>2, <3>1, EncryptBytes
    <3>3. e = [key |-> d.key, encryptedData |-> x]
      BY <1>3 DEF EncryptBlockData, p
    <3>. HIDE DEF x, d, e
    <3> QED
      BY <2>2, <3>2, <3>3 DEF EncryptedData
  <2>4. Sealed(b) = [b EXCEPT !.data = e]
    BY <1>5 DEF Sealed
  <2>. HIDE DEF e, d
  <2>5. /\ Sealed(b).data = e /\ Sealed(b).seq = b.seq /\ Sealed(b).nonce = b.nonce
        /\ Sealed(b).timestamp = b.timestamp /\ Sealed(b).layer = b.layer
        /\ Sealed(b).prev = b.prev /\ Sealed(b).parent = b.parent
        /\ Sealed(b).type = b.type /\ Sealed(b).sig = b.sig
    BY <1>2, <2>4 DEF BlockOf
  <2> QED
    BY <1>1, <1>3, <2>3, <2>5 DEF Encodable
<1> QED
  BY <1>4, <1>5

LEMMA CodeIsByte ==
    ASSUME NEW type \in ToSet(TypeNames)
    PROVE  CodeOf(type) \in Byte
<1>1. DOMAIN TypeNames = 1 .. 8
  BY DEF TypeNames
<1>2. \E i \in DOMAIN TypeNames : TypeNames[i] = type
  BY DEF ToSet
<1>3. (CHOOSE i \in DOMAIN TypeNames : TypeNames[i] = type) \in 1 .. 8
  BY <1>1, <1>2
<1>4. CodeOf(type) \in 0 .. 7
  BY <1>3 DEF CodeOf
<1> QED
  BY <1>4, Constants

LEMMA HashBytes ==
    ASSUME NEW h \in HashValue \cup {Null}
    PROVE  /\ FromHash(h) \in Buffer /\ Len(FromHash(h)) = HashSize
           /\ h = IF FromHash(h) = ZeroHash THEN Null ELSE FromHash(h)
<1>1. ZeroHash \in Buffer /\ Len(ZeroHash) = HashSize
  <2>. DEFINE z == ZeroHash
  <2>1. z = [i \in 1 .. HashSize |-> z[i]] /\ \A i \in 1 .. HashSize : z[i] \in Byte
    BY Constants DEF ZeroHash
  <2>. HIDE DEF z
  <2>2. z \in Buffer /\ Len(z) = HashSize
    BY <2>1, BytesAreBuffer, Constants
  <2> QED
    BY <2>2 DEF z
<1>2. CASE h = Null
  BY <1>1, <1>2 DEF FromHash
<1>3. CASE h # Null
  BY <1>3 DEF FromHash, HashValue
<1> QED
  BY <1>2, <1>3

LEMMA SecureBytes ==
    ASSUME NEW b, Encodable(b)
    PROVE  FromSecure(b) \in Buffer
<1>. DEFINE p == <<CodeOf(b.type)>>
            q == FromVarBinary(b.sig)
            r == FromData(b.type, b.data)
<1>1. p \in Buffer
  BY CodeIsByte, OneByte DEF Encodable
<1>2. q \in Buffer
  BY VarBinaryBytes DEF Encodable
<1>3. r \in Buffer
  BY DataBytes DEF Encodable, Serializable
<1>4. FromSecure(b) = (p \o q) \o r
  BY DEF FromSecure
<1>. HIDE DEF p, q, r
<1>5. p \o q \in Buffer
  BY <1>1, <1>2, Concat
<1> QED
  BY <1>3, <1>4, <1>5, Concat

LEMMA BlocktreeBytes ==
    ASSUME NEW b, Encodable(b)
    PROVE  FromBlocktree(b) \in Buffer
<1>. DEFINE p == FromHash(b.parent)
            q == <<SecureLayer(b.layer)>>
            r == FromSecure(b)
<1>1. p \in Buffer
  BY HashBytes DEF Encodable
<1>2. q \in Buffer
  <2>1. b.layer \in Nat /\ b.layer < Base
    <3>1. b.layer \in Nat /\ b.layer \in 0 .. Power(1) - 1
      BY DEF Encodable, Serializable, FitsIn
    <3>. DEFINE l == b.layer
    <3>. HIDE DEF l
    <3>2. l \in 0 .. Base - 1
      BY <3>1, PowerFacts DEF l
    <3>3. l \in Nat /\ l < Base
      BY <3>2, Constants
    <3> QED
      BY <3>3 DEF l
  <2>2. SecureLayer(b.layer) \in Byte
    BY <2>1, Constants DEF SecureLayer, Byte
  <2> QED
    BY <2>2, OneByte
<1>3. r \in Buffer
  BY SecureBytes
<1>4. FromBlocktree(b) = (p \o q) \o r
  BY DEF FromBlocktree
<1>. HIDE DEF p, q, r
<1>5. p \o q \in Buffer
  BY <1>1, <1>2, Concat
<1> QED
  BY <1>3, <1>4, <1>5, Concat

(* A value starts with its sequence number and prev, and is longer than    *)
(* its header.                                                             *)
LEMMA EncodeBytes ==
    ASSUME NEW b, Encodable(b)
    PROVE  /\ Encode(b) \in Buffer /\ Len(Encode(b)) >= HeaderSize
           /\ \A i \in 1 .. HashSize : Encode(b)[Int64Size + i] = FromHash(b.prev)[i]
<1>. DEFINE p == FromInt(b.seq, Int64Size)
            q == FromHash(b.prev)
            r == FromInt(b.nonce, Int64Size)
            s == FromInt(b.timestamp, Int64Size)
            t == FromBlocktree(b)
<1>1. p \in Buffer /\ Len(p) = Int64Size
  BY FromIntBytes, Constants DEF Encodable
<1>2. q \in Buffer /\ Len(q) = HashSize
  BY HashBytes DEF Encodable
<1>3. r \in Buffer /\ Len(r) = Int64Size
  BY FromIntBytes, Constants DEF Encodable
<1>4. s \in Buffer /\ Len(s) = Int64Size
  BY FromIntBytes, Constants DEF Encodable
<1>5. t \in Buffer
  BY BlocktreeBytes
<1>6. Encode(b) = (((p \o q) \o r) \o s) \o t /\ q = FromHash(b.prev)
  BY DEF Encode
<1>. HIDE DEF p, q, r, s, t
<1>. DEFINE u == p \o q
            v == u \o r
            w == v \o s
<1>7. /\ u \in Buffer /\ Len(u) = Int64Size + HashSize
      /\ \A i \in 1 .. HashSize : u[Int64Size + i] = q[i]
  BY <1>1, <1>2, Concat
<1>. HIDE DEF u
<1>8. /\ v \in Buffer /\ Len(v) = Int64Size + HashSize + Int64Size
      /\ \A i \in 1 .. Len(u) : v[i] = u[i]
  BY <1>3, <1>7, Concat
<1>. HIDE DEF v
<1>9. /\ w \in Buffer /\ Len(w) = HeaderSize
      /\ \A i \in 1 .. Len(v) : w[i] = v[i]
  <2>1. /\ w \in Buffer /\ Len(w) = Len(v) + Len(s)
        /\ \A i \in 1 .. Len(v) : w[i] = v[i]
    BY <1>4, <1>8, Concat
  <2>. HIDE DEF w
  <2>2. Len(w) = HeaderSize
    BY <1>4, <1>8, <2>1, Constants DEF HeaderSize
  <2> QED
    BY <2>1, <2>2
<1>. HIDE DEF w
<1>10. /\ w \o t \in Buffer /\ Len(w \o t) = Len(w) + Len(t) /\ Len(t) \in Nat
       /\ \A i \in 1 .. Len(w) : (w \o t)[i] = w[i]
  BY <1>5, <1>9, Concat
<1>11. Encode(b) = w \o t
  BY <1>6 DEF u, v, w
<1>12. ASSUME NEW i \in 1 .. HashSize
       PROVE  Encode(b)[Int64Size + i] = FromHash(b.prev)[i]
  <2>. DEFINE j == Int64Size + i
  <2>1. j \in 1 .. Len(u) /\ j \in 1 .. Len(v) /\ j \in 1 .. Len(w) /\ u[j] = q[i]
    BY <1>7, <1>8, <1>9, Constants DEF HeaderSize
  <2>. HIDE DEF j
  <2>2. Encode(b)[j] = q[i]
    BY <1>8, <1>9, <1>10, <1>11, <2>1
  <2> QED
    BY <1>6, <2>2 DEF j
<1> QED
  BY <1>9, <1>10, <1>11, <1>12, Constants DEF HeaderSize


(***************************************************************************)
(* The slots of the table.                                                 *)
(***************************************************************************)
Smaller(m, n) == IF m < n THEN m ELSE n

LEMMA SliceBytes ==
    ASSUME NEW buf \in Buffer, NEW from \in 1 .. Len(buf) + 1, NEW to \in Nat, to >= from - 1
    PROVE  /\ Slice(buf, from, to) \in Buffer
           /\ Len(Slice(buf, from, to)) = Smaller(to, Len(buf)) - from + 1
           /\ \A i \in 1 .. Smaller(to, Len(buf)) - from + 1 :
                 Slice(buf, from, to)[i] = buf[from + i - 1]
<1>. DEFINE n == Smaller(to, Len(buf))
<1>1. Len(buf) \in Nat /\ \A i \in 1 .. Len(buf) : buf[i] \in Byte
  BY LenProperties, ElementOfSeq DEF Buffer
<1>2. n \in Nat /\ from \in Nat /\ from - 1 <= n /\ n <= Len(buf) /\ from >= 1
  BY <1>1 DEF Smaller
<1>3. Slice(buf, from, to) = SubSeq(buf, from, n)
  BY DEF Slice, Smaller
<1>. HIDE DEF n
<1>4. \A i \in from .. n : buf[i] \in Byte
  BY <1>1, <1>2
<1>5. /\ SubSeq(buf, from, n) \in Seq(Byte)
      /\ Len(SubSeq(buf, from, n)) = IF from <= n THEN n - from + 1 ELSE 0
      /\ \A i \in 1 .. n - from + 1 : SubSeq(buf, from, n)[i] = buf[from + i - 1]
  BY <1>2, <1>4, SubSeqProperties
<1>6. (IF from <= n THEN n - from + 1 ELSE 0) = n - from + 1
  BY <1>2
<1> QED
  BY <1>3, <1>5, <1>6 DEF n, Buffer

(* What the table keeps of a value. *)
Cut(h) == Slice(h, 1, ValueSize - Int16Size)

SlotOf(h) == Slot(FromInt(Len(h), Int16Size) \o h)

LEMMA Sizes ==
    /\ ValueSize \in Nat /\ ValueSize - Int16Size \in Nat /\ HeaderSize \in Nat
    /\ ValueSize - Int16Size >= HeaderSize /\ HeaderSize >= Int64Size + HashSize
    /\ MaxKeys \in Nat \ {0}
  BY StorageAssumption, Constants DEF HeaderSize

(* A slot reads back as its value, or as what it kept of it.               *)
LEMMA SlotReadsBack ==
    ASSUME NEW h \in Buffer, FitsIn(Len(h), Int16Size)
    PROVE  /\ SlotOf(h) \in Buffer /\ Len(SlotOf(h)) = ValueSize
           /\ SlotValue(SlotOf(h)) = Cut(h)
           /\ Cut(h) \in Buffer /\ Len(Cut(h)) = Smaller(ValueSize - Int16Size, Len(h))
           /\ \A i \in 1 .. Len(Cut(h)) : Cut(h)[i] = h[i]
<1>. DEFINE L == Len(h)
            p == FromInt(L, Int16Size)
            v == p \o h
            slot == Slot(v)
            K == ValueSize - Int16Size
<1>1. L \in Nat
  BY LenProperties DEF Buffer
<1>2. p \in Buffer /\ Len(p) = 2 /\ p[1] * Base + p[2] = L
  BY <1>1, FromIntBytes, LengthReadsBack, Constants
<1>. HIDE DEF p
<1>3. /\ v \in Buffer /\ Len(v) = 2 + L /\ v[1] = p[1] /\ v[2] = p[2]
      /\ \A i \in 1 .. L : v[2 + i] = h[i]
  <2>1. /\ v \in Buffer /\ Len(v) = Len(p) + L
        /\ \A i \in 1 .. Len(p) : v[i] = p[i]
        /\ \A i \in 1 .. L : v[Len(p) + i] = h[i]
    BY <1>2, Concat
  <2>. HIDE DEF v
  <2>2. 1 \in 1 .. Len(p) /\ 2 \in 1 .. Len(p)
    BY <1>2
  <2> QED
    BY <1>2, <2>1, <2>2
<1>4. K \in Nat /\ ValueSize = K + 2 /\ ValueSize \in Nat
  BY Sizes, Constants
<1>5. /\ slot = [i \in 1 .. ValueSize |-> IF i <= Len(v) THEN v[i] ELSE 0]
      /\ SlotOf(h) = slot
  BY DEF Slot, SlotOf, p
<1>. HIDE DEF v, slot, K
<1>6. slot \in Buffer /\ Len(slot) = ValueSize
  <2>1. ASSUME NEW i \in 1 .. ValueSize PROVE slot[i] \in Byte
    <3>1. CASE i <= Len(v)
      <4>1. i \in 1 .. Len(v)
        BY <1>3, <1>4, <3>1
      <4>2. v[i] \in Byte
        BY <1>3, <4>1, ElementOfSeq DEF Buffer
      <4> QED
        BY <1>5, <3>1, <4>2
    <3>2. CASE ~ (i <= Len(v))
      BY <1>5, <3>2, Constants
    <3> QED
      BY <3>1, <3>2
  <2>2. slot = [i \in 1 .. ValueSize |-> slot[i]]
    BY <1>5
  <2> QED
    BY <1>4, <2>1, <2>2, BytesAreBuffer
<1>7. slot[1] = p[1] /\ slot[2] = p[2]
  <2>1. 1 \in 1 .. ValueSize /\ 2 \in 1 .. ValueSize /\ 1 <= Len(v) /\ 2 <= Len(v)
    BY <1>1, <1>3, <1>4
  <2> QED
    BY <1>3, <1>5, <2>1
<1>8. ASSUME NEW i \in 1 .. Smaller(K, L) PROVE slot[2 + i] = h[i]
  <2>. DEFINE j == 2 + i
  <2>1. i \in 1 .. L /\ j \in 1 .. ValueSize /\ j <= Len(v)
    BY <1>1, <1>3, <1>4 DEF Smaller
  <2>2. v[j] = h[i]
    BY <1>3, <2>1
  <2>. HIDE DEF j
  <2>3. slot[j] = h[i]
    BY <1>5, <2>1, <2>2
  <2> QED
    BY <2>3 DEF j
<1>9. ToInt(slot, 1, Int16Size) = L
  <2>. DEFINE i == 1
  <2>1. i \in 1 .. Len(slot) - 1
    BY <1>4, <1>6, Sizes, Constants DEF HeaderSize
  <2>. HIDE DEF i
  <2>2. ToInt(slot, i, Int16Size) = slot[i] * Base + slot[i + 1]
    BY <1>6, <2>1, ToIntOfTwo
  <2>3. ToInt(slot, 1, Int16Size) = slot[1] * Base + slot[2]
    BY <2>2 DEF i
  <2> QED
    BY <1>2, <1>7, <2>3
<1>10. /\ SlotValue(slot) \in Buffer /\ Len(SlotValue(slot)) = Smaller(K, L)
       /\ \A i \in 1 .. Smaller(K, L) : SlotValue(slot)[i] = h[i]
  <2>. DEFINE from == 3
              to == 2 + L
              s == Slice(slot, from, to)
  <2>1. SlotValue(slot) = s
    BY <1>9, Constants DEF SlotValue
  <2>2. from \in 1 .. Len(slot) + 1 /\ to \in Nat /\ to >= from - 1
    BY <1>1, <1>4, <1>6
  <2>3. Smaller(to, Len(slot)) - from + 1 = Smaller(K, L)
    BY <1>1, <1>4, <1>6 DEF Smaller
  <2>4. \A i \in 1 .. Smaller(K, L) : from + i - 1 = 2 + i
    BY <1>1, <1>4 DEF Smaller
  <2>. HIDE DEF from, to
  <2>5. /\ s \in Buffer /\ Len(s) = Smaller(K, L)
        /\ \A i \in 1 .. Smaller(K, L) : s[i] = slot[from + i - 1]
    BY <1>6, <2>2, <2>3, SliceBytes
  <2>. HIDE DEF s
  <2> QED
    BY <1>8, <2>1, <2>4, <2>5
<1>11. /\ Cut(h) \in Buffer /\ Len(Cut(h)) = Smaller(K, L)
       /\ \A i \in 1 .. Smaller(K, L) : Cut(h)[i] = h[i]
  <2>. DEFINE from == 1
              s == Slice(h, from, K)
  <2>1. Cut(h) = s
    BY DEF Cut, K
  <2>2. from \in 1 .. Len(h) + 1 /\ K \in Nat /\ K >= from - 1
    BY <1>1, <1>4
  <2>3. Smaller(K, Len(h)) - from + 1 = Smaller(K, L)
    BY <1>1, <1>4 DEF Smaller
  <2>4. \A i \in 1 .. Smaller(K, L) : from + i - 1 = i
    BY <1>1, <1>4 DEF Smaller
  <2>. HIDE DEF from
  <2>5. /\ s \in Buffer /\ Len(s) = Smaller(K, L)
        /\ \A i \in 1 .. Smaller(K, L) : s[i] = h[from + i - 1]
    BY <2>2, <2>3, SliceBytes
  <2>. HIDE DEF s
  <2> QED
    BY <2>1, <2>4, <2>5
<1>12. SlotValue(slot) = Cut(h)
  <2>. DEFINE s == SlotValue(slot)
              t == Cut(h)
  <2>1. s \in Seq(Byte) /\ t \in Seq(Byte) /\ Len(s) = Len(t) /\ \A i \in 1 .. Len(s) : s[i] = t[i]
    BY <1>10, <1>11 DEF Buffer
  <2>. HIDE DEF s, t
  <2>2. s = t
    BY <2>1, SeqEqual
  <2> QED
    BY <2>2 DEF s, t
<1> QED
  BY <1>5, <1>6, <1>11, <1>12 DEF K

(* A value that fits its slot is not cut; one that does not fit has lost   *)
(* its end, and is shorter than before.                                    *)
LEMMA CutOrWhole ==
    ASSUME NEW h \in Buffer, FitsIn(Len(h), Int16Size)
    PROVE  Cut(h) = h <=> Fits(h)
<1>1. Len(h) \in Nat
  BY LenProperties DEF Buffer
<1>2. /\ Cut(h) \in Buffer /\ Len(Cut(h)) = Smaller(ValueSize - Int16Size, Len(h))
      /\ \A i \in 1 .. Len(Cut(h)) : Cut(h)[i] = h[i]
  BY SlotReadsBack
<1>3. CASE Fits(h)
  <2>1. Len(Cut(h)) = Len(h)
    BY <1>1, <1>2, <1>3, Sizes, Constants DEF Fits, Smaller
  <2>. DEFINE t == Cut(h)
  <2>2. t \in Seq(Byte) /\ h \in Seq(Byte) /\ Len(t) = Len(h) /\ \A i \in 1 .. Len(t) : t[i] = h[i]
    BY <1>2, <2>1 DEF Buffer
  <2>. HIDE DEF t
  <2>3. t = h
    BY <2>2, SeqEqual
  <2> QED
    BY <1>3, <2>3 DEF t
<1>4. CASE ~Fits(h)
  <2>1. Len(Cut(h)) # Len(h)
    BY <1>1, <1>2, <1>4, Sizes, Constants DEF Fits, Smaller
  <2> QED
    BY <1>4, <2>1
<1> QED
  BY <1>3, <1>4

(* The prev of a value reads back, also from what a slot kept of it.       *)
LEMMA PrevReadsBack ==
    ASSUME NEW b \in DOMAIN Value, FitsIn(Len(Value[b]), Int16Size)
    PROVE  Value[b] \in Buffer /\ ToPrev(Cut(Value[b])) = b.prev
<1>. DEFINE e == Sealed(b)
            h == Value[b]
            t == Cut(h)
            q == FromHash(e.prev)
<1>1. Encodable(e) /\ e.prev = b.prev
  BY SealedIsEncodable
<1>2. h = Encode(e)
  BY DEF Value
<1>. HIDE DEF e
<1>3. /\ h \in Buffer /\ Len(h) >= HeaderSize /\ Len(h) \in Nat
      /\ \A i \in 1 .. HashSize : h[Int64Size + i] = q[i]
  <2>1. /\ h \in Buffer /\ Len(h) >= HeaderSize
        /\ \A i \in 1 .. HashSize : h[Int64Size + i] = q[i]
    BY <1>1, <1>2, EncodeBytes
  <2> QED
    BY <2>1, LenProperties DEF Buffer
<1>4. /\ q \in Buffer /\ Len(q) = HashSize
      /\ e.prev = IF q = ZeroHash THEN Null ELSE q
  BY <1>1, HashBytes DEF Encodable
<1>5. FitsIn(Len(h), Int16Size)
  OBVIOUS
<1>. HIDE DEF h, q
<1>6. /\ t \in Buffer /\ Len(t) = Smaller(ValueSize - Int16Size, Len(h))
      /\ \A i \in 1 .. Len(t) : t[i] = h[i]
  BY <1>3, <1>5, SlotReadsBack
<1>. HIDE DEF t
<1>7. Len(t) \in Nat /\ Len(t) >= Int64Size + HashSize
  <2>1. PICK k \in Nat : k = ValueSize - Int16Size /\ k >= HeaderSize
    BY Sizes
  <2>2. Len(t) \in {k, Len(h)}
    BY <1>6, <2>1 DEF Smaller
  <2>3. Len(t) \in Nat /\ Len(t) >= HeaderSize
    BY <1>3, <2>1, <2>2
  <2>4. HeaderSize \in Nat /\ HeaderSize >= Int64Size + HashSize /\ Int64Size + HashSize \in Nat
    BY Sizes, Constants
  <2> QED
    BY <2>3, <2>4
<1>. DEFINE m == Int64Size + 1
            n == Int64Size + HashSize
            s == SubSeq(t, m, n)
<1>8. m \in Int /\ n \in Int /\ n - m + 1 = HashSize /\ m <= n /\ m + HashSize - 1 = n
  BY Constants
<1>9. \A i \in m .. n : t[i] \in Byte
  <2>1. \A i \in 1 .. Len(t) : t[i] \in Byte
    BY <1>6, ElementOfSeq DEF Buffer
  <2> QED
    BY <1>7, <2>1, Constants
<1>10. ASSUME NEW i \in 1 .. HashSize PROVE t[m + i - 1] = q[i]
  <2>. DEFINE j == Int64Size + i
  <2>1. j \in 1 .. Len(t) /\ m + i - 1 = j
    BY <1>7, Constants
  <2>2. h[j] = q[i]
    BY <1>3
  <2>. HIDE DEF j
  <2> QED
    BY <1>6, <2>1, <2>2
<1>11. ToPrev(t) = IF s = ZeroHash THEN Null ELSE s
  BY <1>8 DEF ToPrev, ToHash
<1>. HIDE DEF m, n
<1>12. /\ s \in Seq(Byte) /\ Len(s) = HashSize
       /\ \A i \in 1 .. HashSize : s[i] = t[m + i - 1]
  BY <1>8, <1>9, SubSeqProperties
<1>. HIDE DEF s
<1>13. s = q
  <2>1. q \in Seq(Byte) /\ Len(s) = Len(q) /\ \A i \in 1 .. Len(s) : s[i] = q[i]
    BY <1>4, <1>10, <1>12 DEF Buffer
  <2> QED
    BY <1>12, <2>1, SeqEqual
<1>14. ToPrev(t) = b.prev
  BY <1>1, <1>4, <1>11, <1>13
<1> QED
  BY <1>3, <1>14 DEF h, t

(***************************************************************************)
(* The decoders.  Holds: the bytes v stand in buf from place i; Ends: and  *)
(* buf ends with them.                                                     *)
(***************************************************************************)
Holds(buf, i, v) ==
    /\ i \in 1 .. Len(buf) + 1 /\ i + Len(v) <= Len(buf) + 1
    /\ \A j \in 1 .. Len(v) : buf[i + j - 1] = v[j]

Ends(buf, i, v) == Holds(buf, i, v) /\ i + Len(v) = Len(buf) + 1

LEMMA BufferLen == \A v \in Buffer : Len(v) \in Nat
BY LenProperties DEF Buffer

LEMMA HoldsSplit ==
    ASSUME NEW buf \in Buffer, NEW s \in Buffer, NEW t \in Buffer, NEW i, Holds(buf, i, s \o t)
    PROVE  /\ Holds(buf, i, s) /\ Holds(buf, i + Len(s), t) /\ i \in Nat \ {0}
           /\ i + Len(s) + Len(t) = i + Len(s \o t)
<1>. DEFINE u == s \o t
            m == Len(s)
            n == Len(t)
            k == i + m
<1>1. /\ Len(u) = m + n /\ m \in Nat /\ n \in Nat
      /\ \A j \in 1 .. m : u[j] = s[j]
      /\ \A j \in 1 .. n : u[m + j] = t[j]
  BY Concat
<1>2. /\ i \in 1 .. Len(buf) + 1 /\ i + Len(u) <= Len(buf) + 1 /\ Len(buf) \in Nat
      /\ \A j \in 1 .. Len(u) : buf[i + j - 1] = u[j]
  BY BufferLen DEF Holds
<1>. HIDE DEF u, m, n
<1>3. ASSUME NEW j \in 1 .. m PROVE buf[i + j - 1] = s[j]
  <2>1. j \in 1 .. Len(u)
    BY <1>1
  <2> QED
    BY <1>1, <1>2, <2>1
<1>4. ASSUME NEW j \in 1 .. n PROVE buf[k + j - 1] = t[j]
  <2>. DEFINE l == m + j
  <2>1. u[l] = t[j]
    BY <1>1
  <2>2. l \in 1 .. Len(u) /\ k + j - 1 = i + l - 1
    BY <1>1, <1>2
  <2>. HIDE DEF l, k
  <2> QED
    BY <1>2, <2>1, <2>2
<1>5. k \in 1 .. Len(buf) + 1 /\ k + n <= Len(buf) + 1 /\ i + m <= Len(buf) + 1
      /\ i \in Nat \ {0} /\ k + n = i + Len(u)
  BY <1>1, <1>2
<1> QED
  BY <1>2, <1>3, <1>4, <1>5 DEF Holds, m, n, u

LEMMA EndsSplit ==
    ASSUME NEW buf \in Buffer, NEW s \in Buffer, NEW t \in Buffer, NEW i, Ends(buf, i, s \o t)
    PROVE  Holds(buf, i, s) /\ Ends(buf, i + Len(s), t) /\ i \in Nat \ {0}
<1>1. Holds(buf, i, s) /\ Holds(buf, i + Len(s), t) /\ i + Len(s) + Len(t) = i + Len(s \o t)
      /\ i \in Nat \ {0}
  BY HoldsSplit DEF Ends
<1> QED
  BY <1>1 DEF Ends

LEMMA EndsWhole ==
    ASSUME NEW v \in Buffer
    PROVE  Ends(v, 1, v)
<1>1. Len(v) \in Nat
  BY BufferLen
<1>2. \A j \in 1 .. Len(v) : 1 + j - 1 = j
  OBVIOUS
<1> QED
  BY <1>1, <1>2 DEF Ends, Holds

LEMMA HoldsByte ==
    ASSUME NEW buf \in Buffer, NEW b \in Byte, NEW i, Holds(buf, i, <<b>>)
    PROVE  buf[i] = b /\ i \in Nat \ {0}
<1>1. Len(<<b>>) = 1 /\ <<b>>[1] = b /\ Len(buf) \in Nat
  BY OneByte, BufferLen
<1>2. i \in 1 .. Len(buf) + 1 /\ buf[i + 1 - 1] = b
  BY <1>1 DEF Holds
<1> QED
  BY <1>1, <1>2

LEMMA SliceHolds ==
    ASSUME NEW buf \in Buffer, NEW v \in Buffer, NEW i, Holds(buf, i, v)
    PROVE  Slice(buf, i, i + Len(v) - 1) = v /\ SubSeq(buf, i, i + Len(v) - 1) = v
<1>. DEFINE n == Len(v)
            to == i + n - 1
            s == Slice(buf, i, to)
<1>1. n \in Nat /\ Len(buf) \in Nat
  BY BufferLen
<1>2. /\ i \in 1 .. Len(buf) + 1 /\ i + n <= Len(buf) + 1
      /\ \A j \in 1 .. n : buf[i + j - 1] = v[j]
  BY DEF Holds
<1>. HIDE DEF n
<1>3. to \in Nat /\ to >= i - 1 /\ Smaller(to, Len(buf)) = to /\ to - i + 1 = n
  BY <1>1, <1>2 DEF Smaller
<1>4. Slice(buf, i, to) = SubSeq(buf, i, to)
  BY <1>1, <1>2, <1>3 DEF Slice, Smaller
<1>. HIDE DEF to
<1>5. /\ s \in Buffer /\ Len(s) = n /\ \A j \in 1 .. n : s[j] = buf[i + j - 1]
  BY <1>2, <1>3, SliceBytes
<1>. HIDE DEF s
<1>6. s = v
  <2>1. s \in Seq(Byte) /\ v \in Seq(Byte) /\ Len(s) = Len(v) /\ \A j \in 1 .. Len(s) : s[j] = v[j]
    BY <1>2, <1>5 DEF Buffer, n
  <2> QED
    BY <2>1, SeqEqual
<1> QED
  BY <1>4, <1>6 DEF s, to, n

LEMMA FromEnds ==
    ASSUME NEW buf \in Buffer, NEW v \in Buffer, NEW i, Ends(buf, i, v)
    PROVE  From(buf, i) = v
<1>1. Slice(buf, i, i + Len(v) - 1) = v
  BY SliceHolds DEF Ends
<1>2. i + Len(v) - 1 = Len(buf)
  <2>1. i \in 1 .. Len(buf) + 1 /\ i + Len(v) = Len(buf) + 1 /\ Len(buf) \in Nat /\ Len(v) \in Nat
    BY BufferLen DEF Ends, Holds
  <2> QED
    BY <2>1
<1> QED
  BY <1>1, <1>2 DEF From

LEMMA PowerNext ==
    ASSUME NEW n \in Nat
    PROVE  Power(n + 1) = Base * Power(n)
<1>1. PICK f : /\ Power(n) = f[n] /\ f[0] = 1
               /\ \A i \in 1 .. n : f[i] = Base * f[i - 1]
  BY PowerStep
<1>2. PICK g : /\ Power(n + 1) = g[n + 1] /\ g[0] = 1
               /\ \A i \in 1 .. n + 1 : g[i] = Base * g[i - 1]
  BY PowerStep
<1>. DEFINE Same == {i \in 1 .. n : f[i] = g[i]}
<1>3. ASSUME NEW i \in 1 .. n, \A m \in 1 .. i - 1 : m \in Same PROVE i \in Same
  <2>1. f[i - 1] = g[i - 1]
    <3>1. CASE i = 1
      <4>1. i - 1 = 0
        BY <3>1
      <4> QED
        BY <1>1, <1>2, <4>1
    <3>2. CASE i # 1
      <4>1. i - 1 \in 1 .. i - 1
        BY <3>2
      <4> QED
        BY <1>3, <4>1
    <3> QED
      BY <3>1, <3>2
  <2>2. i \in 1 .. n + 1
    OBVIOUS
  <2> QED
    BY <1>1, <1>2, <2>1, <2>2
<1>4. \A i \in 1 .. n : i \in Same
  <2>. HIDE DEF Same
  <2> QED
    BY <1>3, InductionUpTo
<1>5. f[n] = g[n]
  <2>1. CASE n = 0
    BY <1>1, <1>2, <2>1
  <2>2. CASE n # 0
    BY <1>4, <2>2
  <2> QED
    BY <2>1, <2>2
<1>6. n + 1 \in 1 .. n + 1 /\ n + 1 - 1 = n
  OBVIOUS
<1>. DEFINE j == n + 1
<1>7. j \in 1 .. n + 1 /\ j - 1 = n
  BY <1>6
<1>. HIDE DEF j
<1>8. g[j] = Base * g[n]
  BY <1>2, <1>7
<1> QED
  BY <1>1, <1>2, <1>5, <1>8 DEF j

LEMMA DivisionIsUnique ==
    ASSUME NEW n \in Nat, NEW d \in Nat \ {0}, NEW q \in Nat, NEW r \in Nat, r < d,
           n = q * d + r
    PROVE  n \div d = q
<1>. DEFINE p == n \div d
            m == n % d
<1>1. p \in Nat /\ m \in Nat /\ m < d /\ n = p * d + m
  OBVIOUS
<1>. HIDE DEF p, m
<1>2. ASSUME NEW x \in Nat, NEW y \in Nat, x < y PROVE x * d + d <= y * d
  <2>. DEFINE z == y - x - 1
  <2>1. z \in Nat /\ y = x + 1 + z
    BY <1>2
  <2>. HIDE DEF z
  <2>2. y * d = x * d + d + z * d /\ z * d \in Nat /\ x * d \in Nat
    BY <2>1
  <2> QED
    BY <2>2
<1>3. p * d \in Nat /\ q * d \in Nat
  BY <1>1
<1>4. ~ (p < q)
  <2>1. ASSUME p < q PROVE FALSE
    <3>1. p * d + d <= q * d
      BY <1>1, <1>2, <2>1
    <3> QED
      BY <1>1, <1>3, <3>1
  <2> QED
    BY <2>1
<1>5. ~ (q < p)
  <2>1. ASSUME q < p PROVE FALSE
    <3>1. q * d + d <= p * d
      BY <1>1, <1>2, <2>1
    <3> QED
      BY <1>1, <1>3, <3>1
  <2> QED
    BY <2>1
<1> QED
  BY <1>1, <1>4, <1>5 DEF p

(* Taking off a digit, and putting it back. *)
LEMMA DigitStep ==
    ASSUME NEW n \in Nat, NEW k \in Nat
    PROVE  /\ n \div Power(k) \in Nat
           /\ (n \div Power(k + 1)) * Base + ((n \div Power(k)) % Base) = n \div Power(k)
<1>. DEFINE p == Power(k)
            x == n \div p
            q == x \div Base
            s == x % Base
            r == n % p
<1>1. p \in Nat \ {0} /\ Power(k + 1) = Base * p /\ Base \in Nat \ {0}
  BY PowerFacts, PowerNext, Constants
<1>. HIDE DEF p
<1>2. x \in Nat /\ r \in Nat /\ r < p /\ n = x * p + r
  BY <1>1
<1>. HIDE DEF x, r
<1>3. q \in Nat /\ s \in Nat /\ s < Base /\ x = q * Base + s
  BY <1>1, <1>2
<1>. HIDE DEF q, s
<1>. DEFINE d == Base * p
            t == s * p + r
<1>4. d \in Nat \ {0}
  BY <1>1
<1>5. t \in Nat /\ t < d
  <2>. DEFINE z == Base - 1 - s
  <2>1. z \in Nat /\ Base = s + 1 + z
    BY <1>1, <1>3
  <2>. HIDE DEF z
  <2>2. z * p \in Nat /\ s * p \in Nat
    BY <1>1, <1>3, <2>1
  <2>3. d = s * p + p + z * p
    BY <1>1, <1>3, <2>1
  <2> QED
    BY <1>1, <1>2, <2>2, <2>3
<1>6. n = q * d + t
  <2>1. x * p = (q * Base) * p + s * p
    BY <1>1, <1>3
  <2>2. (q * Base) * p = q * (Base * p)
    BY <1>1, <1>3
  <2>3. q * (Base * p) \in Nat /\ s * p \in Nat
    BY <1>1, <1>3
  <2> QED
    BY <1>2, <2>1, <2>2, <2>3
<1>. HIDE DEF d, t
<1>7. n \div d = q
  BY <1>3, <1>4, <1>5, <1>6, DivisionIsUnique
<1> QED
  BY <1>1, <1>2, <1>3, <1>7 DEF d, p, x, q, s

(* An integer that fits its field reads back from it. *)
LEMMA IntReads ==
    ASSUME NEW n \in Nat, NEW size \in Nat, FitsIn(n, size),
           NEW buf \in Buffer, NEW i, Holds(buf, i, FromInt(n, size))
    PROVE  ToInt(buf, i, size) = n
<1>. DEFINE v == FromInt(n, size)
            s == SubSeq(buf, i, i + size - 1)
            Body(f, S) == IF S = {} THEN 0 ELSE LET x == Max(S) IN f[S \ {x}] * Base + s[x]
            iter[S \in SUBSET DOMAIN s] == Body(iter, S)
            step == [x \in 1 .. size |-> [w \in Nat |-> w * Base + s[x]]]
<1>1. ToInt(buf, i, size) = iter[DOMAIN s]
  BY DEF ToInt, FoldLeft, MapThenFoldSet
<1>2. /\ DOMAIN s = 1 .. size /\ \A x \in 1 .. size : s[x] \in Nat
      /\ \A x \in 1 .. size : s[x] = (n \div Power(size - x)) % Base
  <2>1. v \in Buffer /\ Len(v) = size
    BY FromIntBytes
  <2>2. s = v
    BY <2>1, SliceHolds
  <2>3. \A x \in 1 .. size : v[x] = (n \div Power(size - x)) % Base
    BY DEF FromInt
  <2>. HIDE DEF v, s
  <2>4. DOMAIN v = 1 .. size /\ \A x \in 1 .. size : v[x] \in Nat
    BY <2>1, LenProperties, ElementOfSeq, Constants DEF Buffer
  <2> QED
    BY <2>2, <2>3, <2>4
<1>. HIDE DEF s, v
<1>3. PICK f \in [SUBSET (1 .. size) -> Nat] : IsSetFold(f, size, 0, step)
  <2>1. ASSUME NEW x \in 1 .. size, NEW w \in Nat PROVE w * Base + s[x] \in Nat
    <3>1. s[x] \in Nat /\ Base \in Nat
      BY <1>2, Constants
    <3> QED
      BY <3>1
  <2>2. step \in [1 .. size -> [Nat -> Nat]]
    BY <2>1
  <2>. HIDE DEF step
  <2> QED
    BY <2>2, SetFoldExists
<1>4. ASSUME NEW S \in SUBSET (1 .. size) PROVE f[S] = Body(f, S)
  <2>1. f[S] = IF S = {} THEN 0 ELSE step[Max(S)][f[S \ {Max(S)}]]
    BY <1>3 DEF IsSetFold
  <2>2. ASSUME S # {} PROVE Max(S) \in 1 .. size /\ f[S \ {Max(S)}] \in Nat
    BY <2>2, MaxInRange
  <2> QED
    BY <2>1, <2>2
<1>5. f = [S \in SUBSET (1 .. size) |-> Body(f, S)]
  BY <1>4
<1>6. iter = [S \in SUBSET (1 .. size) |-> Body(iter, S)]
  <2>1. \E g : g = [S \in SUBSET (1 .. size) |-> Body(g, S)]
    BY <1>5
  <2> QED
    BY <1>2, <2>1 DEF iter
<1>. HIDE DEF iter
<1>. DEFINE Good == {m \in 1 .. size : iter[1 .. m] = n \div Power(size - m)}
<1>7. iter[{}] = 0 /\ n \div Power(size) = 0
  <2>1. iter[{}] = 0
    BY <1>6
  <2>. DEFINE p == Power(size)
  <2>2. p \in Nat \ {0} /\ n \in 0 .. p - 1
    BY PowerFacts DEF FitsIn
  <2>. HIDE DEF p
  <2>3. n \div p = 0
    <3>1. n = 0 * p + n /\ n < p
      BY <2>2
    <3> QED
      BY <2>2, <3>1, DivisionIsUnique
  <2> QED
    BY <2>1, <2>3 DEF p
<1>8. ASSUME NEW m \in 1 .. size, \A x \in 1 .. m - 1 : x \in Good PROVE m \in Good
  <2>1. m \in Nat \ {0} /\ 1 .. m \in SUBSET (1 .. size) /\ 1 .. m # {}
    <3>1. m \in 1 .. m /\ (\A x \in 1 .. m : x \in 1 .. size) /\ m \in Nat \ {0}
      OBVIOUS
    <3> QED
      BY <3>1
  <2>2. Max(1 .. m) = m /\ (1 .. m) \ {m} = 1 .. m - 1
    BY <2>1, MaxOfRange
  <2>3. iter[1 .. m] = iter[1 .. m - 1] * Base + s[m]
    BY <1>6, <2>1, <2>2
  <2>. DEFINE k == size - m
  <2>4. k \in Nat /\ size - (m - 1) = k + 1
    OBVIOUS
  <2>5. iter[1 .. m - 1] = n \div Power(k + 1)
    <3>1. CASE m = 1
      <4>1. 1 .. m - 1 = {} /\ k + 1 = size
        BY <3>1
      <4>. HIDE DEF k
      <4> QED
        BY <1>7, <4>1
    <3>2. CASE m # 1
      <4>. DEFINE x == m - 1
      <4>1. x \in 1 .. m - 1
        BY <3>2
      <4>2. iter[1 .. x] = n \div Power(size - x)
        BY <1>8, <4>1
      <4> QED
        BY <2>4, <4>2
    <3> QED
      BY <3>1, <3>2
  <2>6. s[m] = (n \div Power(k)) % Base
    BY <1>2
  <2>. HIDE DEF k
  <2>7. iter[1 .. m] = n \div Power(k)
    BY <2>3, <2>4, <2>5, <2>6, DigitStep
  <2> QED
    BY <2>7 DEF k
<1>9. \A m \in 1 .. size : m \in Good
  <2>. HIDE DEF Good
  <2> QED
    BY <1>8, InductionUpTo
<1>10. iter[1 .. size] = n
  <2>1. CASE size = 0
    <3>1. 1 .. size = {} /\ n = 0
      BY <2>1, PowerFacts DEF FitsIn
    <3> QED
      BY <1>7, <3>1
  <2>2. CASE size # 0
    <3>1. iter[1 .. size] = n \div Power(size - size)
      BY <1>9, <2>2
    <3>2. size - size = 0 /\ n \div 1 = n
      OBVIOUS
    <3> QED
      BY <3>1, <3>2, PowerFacts
  <2> QED
    BY <2>1, <2>2
<1> QED
  BY <1>1, <1>2, <1>10

(***************************************************************************)
(* Fields of variable size, keys and secrets.                              *)
(***************************************************************************)
LEMMA VarReads ==
    ASSUME NEW v \in MaybeBuffer, FitsVar(v),
           NEW buf \in Buffer, NEW i, Holds(buf, i, FromVarBinary(v))
    PROVE  /\ ToVarBinary(buf, i).result = NonEmpty(v)
           /\ ToVarBinary(buf, i).index = i + Len(FromVarBinary(v))
<1>. DEFINE size  == ToInt(buf, i, Int16Size)
            start == i + Int16Size
<1>1. i \in Nat
  BY BufferLen DEF Holds
<1>2. CASE v = Null
  <2>1. FromVarBinary(v) = FromInt(0, Int16Size) /\ FitsIn(0, Int16Size)
    <3>1. FromVarBinary(v) = FromInt(0, Int16Size)
      BY <1>2 DEF FromVarBinary
    <3>2. PICK n \in Nat \ {0} : Power(Int16Size) = n
      BY PowerFacts, Constants
    <3>3. FitsIn(0, Int16Size)
      BY <3>2 DEF FitsIn
    <3> QED
      BY <3>1, <3>3
  <2>2. size = 0
    BY <2>1, IntReads, Constants
  <2>3. Len(FromVarBinary(v)) = Int16Size
    BY <2>1, FromIntBytes, Constants
  <2>4. ToVarBinary(buf, i).result = Null /\ ToVarBinary(buf, i).index = i + Int16Size
    BY <1>1, <2>2, Constants DEF ToVarBinary
  <2> QED
    BY <1>2, <2>3, <2>4 DEF NonEmpty
<1>3. CASE v # Null
  <2>. DEFINE n == Len(v)
              p == FromInt(n, Int16Size)
  <2>1. v \in Buffer /\ n \in Nat /\ FitsIn(n, Int16Size) /\ FromVarBinary(v) = p \o v
    BY <1>3, BufferLen DEF MaybeBuffer, FitsVar, FromVarBinary
  <2>. HIDE DEF n
  <2>2. p \in Buffer /\ Len(p) = Int16Size
    BY <2>1, FromIntBytes, Constants
  <2>3. Holds(buf, i, p) /\ Holds(buf, start, v)
    BY <2>1, <2>2, HoldsSplit
  <2>4. size = n
    BY <2>1, <2>3, IntReads, Constants
  <2>5. Slice(buf, start, start + n - 1) = v
    BY <2>1, <2>3, SliceHolds DEF n
  <2>6. n = 0 <=> v = <<>>
    BY <2>1, EmptySeq DEF Buffer, n
  <2>7. Len(FromVarBinary(v)) = Int16Size + n
    BY <2>1, <2>2, Concat DEF n
  <2>8. ToVarBinary(buf, i).result = NonEmpty(v)
    BY <2>4, <2>5, <2>6 DEF ToVarBinary, NonEmpty
  <2>9. ToVarBinary(buf, i).index = i + (Int16Size + n)
    BY <1>1, <2>1, <2>4, Constants DEF ToVarBinary
  <2> QED
    BY <2>7, <2>8, <2>9
<1> QED
  BY <1>2, <1>3

LEMMA WindowReads ==
    ASSUME NEW d, d.tsInit \in Nat, d.tsExp \in Nat, d.data \in MaybeBuffer, WindowFits(d),
           NEW buf \in Buffer, NEW i, Ends(buf, i, FromWindow(d))
    PROVE  ToWindow(buf, i) =
               [tsInit |-> d.tsInit, tsExp |-> d.tsExp, data |-> NonEmpty(d.data)]
<1>. DEFINE p == FromInt(d.tsInit, Int64Size)
            q == FromInt(d.tsExp, Int64Size)
            r == Optional(d.data)
            k == i + Int64Size
            l == k + Int64Size
<1>1. /\ p \in Buffer /\ Len(p) = Int64Size /\ q \in Buffer /\ Len(q) = Int64Size
      /\ r \in Buffer
  BY FromIntBytes, VarBinaryBytes, Constants
<1>2. FromWindow(d) = (p \o q) \o r
  BY DEF FromWindow
<1>. HIDE DEF p, q, r
<1>3. p \o q \in Buffer /\ Len(p \o q) = Int64Size + Int64Size
  <2>1. p \in Buffer /\ q \in Buffer
    BY <1>1
  <2>2. p \o q \in Buffer /\ Len(p \o q) = Len(p) + Len(q)
    BY <2>1, Concat
  <2> QED
    BY <1>1, <2>2
<1>4. Holds(buf, i, p \o q) /\ Ends(buf, i + (Int64Size + Int64Size), r) /\ i \in Nat \ {0}
  <2>. DEFINE u == p \o q
  <2>. HIDE DEF u
  <2>1. u \in Buffer /\ FromWindow(d) = u \o r
    BY <1>2, <1>3 DEF u
  <2>2. Holds(buf, i, u) /\ Ends(buf, i + Len(u), r) /\ i \in Nat \ {0}
    BY <1>1, <2>1, EndsSplit
  <2> QED
    BY <1>3, <2>2 DEF u
<1>5. Holds(buf, i, p) /\ Holds(buf, k, q)
  BY <1>1, <1>4, HoldsSplit
<1>6. l = i + (Int64Size + Int64Size) /\ l = i + 2 * Int64Size
  BY <1>4, Constants
<1>7. ToInt(buf, i, Int64Size) = d.tsInit /\ ToInt(buf, k, Int64Size) = d.tsExp
  BY <1>5, IntReads, Constants DEF WindowFits, p, q
<1>8. From(buf, i + 2 * Int64Size) = r
  <2>1. Ends(buf, l, r)
    BY <1>4, <1>6
  <2>. HIDE DEF l
  <2>2. From(buf, l) = r
    BY <1>1, <2>1, FromEnds
  <2> QED
    BY <1>6, <2>2
<1>9. (IF r = <<>> THEN Null ELSE r) = NonEmpty(d.data)
  BY DEF r, Optional, NonEmpty
<1> QED
  BY <1>7, <1>8, <1>9 DEF ToWindow

LEMMA KeyReads ==
    ASSUME NEW d \in KeyFields, FitsVar(d.parentKey), FitsVar(d.key), FitsIn(d.action, 1),
           WindowFits(d), NEW buf \in Buffer, NEW i, Ends(buf, i, FromKey(d))
    PROVE  ToKey(buf, i) = [d EXCEPT !.parentKey = NonEmpty(@), !.key = NonEmpty(@),
                                     !.data = NonEmpty(@)]
<1>1. /\ d.parentKey \in MaybeBuffer /\ d.key \in MaybeBuffer
      /\ d.tsInit \in Nat /\ d.tsExp \in Nat /\ d.data \in MaybeBuffer
  BY DEF KeyFields
<1>. DEFINE p == FromVarBinary(d.parentKey)
            q == FromVarBinary(d.key)
            a == <<d.action>>
            w == FromWindow(d)
            u == p \o q
            t == u \o a
            j == i + Len(p)
            k == j + Len(q)
<1>2. p \in Buffer /\ q \in Buffer /\ a \in Buffer /\ w \in Buffer /\ Len(a) = 1
      /\ d.action \in Byte
  BY <1>1, VarBinaryBytes, WindowBytes, SmallIsByte, OneByte
<1>3. FromKey(d) = t \o w
  BY DEF FromKey
<1>. HIDE DEF p, q, w
<1>4. u \in Buffer /\ Len(u) = Len(p) + Len(q) /\ Len(p) \in Nat /\ Len(q) \in Nat
  BY <1>2, Concat
<1>. HIDE DEF u, a
<1>5. t \in Buffer /\ Len(t) = Len(u) + 1
  <2>1. t \in Buffer /\ Len(t) = Len(u) + Len(a)
    BY <1>2, <1>4, Concat
  <2> QED
    BY <1>2, <2>1
<1>. HIDE DEF t
<1>6. Holds(buf, i, t) /\ Ends(buf, i + Len(t), w) /\ i \in Nat \ {0}
  <2>1. Ends(buf, i, t \o w)
    BY <1>3
  <2> QED
    BY <1>2, <1>5, <2>1, EndsSplit
<1>7. Holds(buf, i, u) /\ Holds(buf, i + Len(u), a)
  BY <1>2, <1>4, <1>6, HoldsSplit DEF t
<1>8. Holds(buf, i, p) /\ Holds(buf, j, q)
  BY <1>2, <1>7, HoldsSplit DEF u
<1>9. i + Len(u) = k /\ i + Len(t) = k + 1
  BY <1>4, <1>5, <1>6
<1>. HIDE DEF k
<1>10. ToVarBinary(buf, i).result = NonEmpty(d.parentKey) /\ ToVarBinary(buf, i).index = j
  BY <1>1, <1>8, VarReads DEF p
<1>. HIDE DEF j
<1>11. ToVarBinary(buf, j).result = NonEmpty(d.key) /\ ToVarBinary(buf, j).index = k
  BY <1>1, <1>8, VarReads DEF q, k
<1>12. buf[k] = d.action
  BY <1>2, <1>7, <1>9, HoldsByte DEF a
<1>13. ToWindow(buf, k + 1) =
           [tsInit |-> d.tsInit, tsExp |-> d.tsExp, data |-> NonEmpty(d.data)]
  BY <1>1, <1>6, <1>9, WindowReads DEF w
<1>14. ToKey(buf, i) =
           [parentKey |-> NonEmpty(d.parentKey), key |-> NonEmpty(d.key), action |-> d.action,
            tsInit |-> d.tsInit, tsExp |-> d.tsExp, data |-> NonEmpty(d.data)]
  BY <1>10, <1>11, <1>12, <1>13 DEF ToKey
<1>. DEFINE e == [d EXCEPT !.parentKey = NonEmpty(@), !.key = NonEmpty(@),
                             !.data = NonEmpty(@)]
            r == [parentKey |-> NonEmpty(d.parentKey), key |-> NonEmpty(d.key),
                  action |-> d.action, tsInit |-> d.tsInit, tsExp |-> d.tsExp,
                  data |-> NonEmpty(d.data)]
            fields == {"parentKey", "key", "action", "tsInit", "tsExp", "data"}
<1>15. DOMAIN d = fields
  BY DEF KeyFields
<1>16. /\ e.parentKey = r.parentKey /\ e.key = r.key /\ e.action = r.action
       /\ e.tsInit = r.tsInit /\ e.tsExp = r.tsExp /\ e.data = r.data
       /\ e = [x \in fields |-> e[x]] /\ r = [x \in fields |-> r[x]]
  BY <1>15
<1>. HIDE DEF e, r
<1>17. e = r
  BY <1>16
<1> QED
  BY <1>14, <1>17 DEF e, r

LEMMA SecretReads ==
    ASSUME NEW d \in SecretFields, FitsVar(d.key), FitsVar(d.ref), FitsVar(d.secret),
           WindowFits(d), NEW buf \in Buffer, NEW i, Ends(buf, i, FromSecret(d))
    PROVE  ToSecret(buf, i) = [d EXCEPT !.key = NonEmpty(@), !.ref = NonEmpty(@),
                                        !.secret = NonEmpty(@), !.data = NonEmpty(@)]
<1>1. /\ d.key \in MaybeBuffer /\ d.ref \in MaybeBuffer /\ d.secret \in MaybeBuffer
      /\ d.tsInit \in Nat /\ d.tsExp \in Nat /\ d.data \in MaybeBuffer
  BY DEF SecretFields
<1>. DEFINE p == FromVarBinary(d.key)
            q == FromVarBinary(d.ref)
            r == FromVarBinary(d.secret)
            w == FromWindow(d)
            u == p \o q
            t == u \o r
            j == i + Len(p)
            k == j + Len(q)
            l == k + Len(r)
<1>2. p \in Buffer /\ q \in Buffer /\ r \in Buffer /\ w \in Buffer
  BY <1>1, VarBinaryBytes, WindowBytes
<1>3. FromSecret(d) = t \o w
  BY DEF FromSecret
<1>. HIDE DEF p, q, r, w
<1>4. u \in Buffer /\ Len(u) = Len(p) + Len(q) /\ Len(p) \in Nat /\ Len(q) \in Nat
  BY <1>2, Concat
<1>. HIDE DEF u
<1>5. t \in Buffer /\ Len(t) = Len(u) + Len(r) /\ Len(r) \in Nat
  BY <1>2, <1>4, Concat
<1>. HIDE DEF t
<1>6. Holds(buf, i, t) /\ Ends(buf, i + Len(t), w) /\ i \in Nat \ {0}
  <2>1. Ends(buf, i, t \o w)
    BY <1>3
  <2> QED
    BY <1>2, <1>5, <2>1, EndsSplit
<1>7. Holds(buf, i, u) /\ Holds(buf, i + Len(u), r)
  BY <1>2, <1>4, <1>6, HoldsSplit DEF t
<1>8. Holds(buf, i, p) /\ Holds(buf, j, q)
  BY <1>2, <1>7, HoldsSplit DEF u
<1>9. i + Len(u) = k /\ i + Len(t) = l
  BY <1>4, <1>5, <1>6
<1>. HIDE DEF l
<1>10. ToVarBinary(buf, i).result = NonEmpty(d.key) /\ ToVarBinary(buf, i).index = j
  BY <1>1, <1>8, VarReads DEF p
<1>. HIDE DEF j
<1>11. ToVarBinary(buf, j).result = NonEmpty(d.ref) /\ ToVarBinary(buf, j).index = k
  BY <1>1, <1>8, VarReads DEF q
<1>. HIDE DEF k
<1>12. ToVarBinary(buf, k).result = NonEmpty(d.secret) /\ ToVarBinary(buf, k).index = l
  BY <1>1, <1>7, <1>9, VarReads DEF r, l
<1>13. ToWindow(buf, l) =
           [tsInit |-> d.tsInit, tsExp |-> d.tsExp, data |-> NonEmpty(d.data)]
  BY <1>1, <1>6, <1>9, WindowReads DEF w
<1>14. ToSecret(buf, i) =
           [key |-> NonEmpty(d.key), ref |-> NonEmpty(d.ref), secret |-> NonEmpty(d.secret),
            tsInit |-> d.tsInit, tsExp |-> d.tsExp, data |-> NonEmpty(d.data)]
  BY <1>10, <1>11, <1>12, <1>13 DEF ToSecret
<1>. DEFINE e == [d EXCEPT !.key = NonEmpty(@), !.ref = NonEmpty(@),
                             !.secret = NonEmpty(@), !.data = NonEmpty(@)]
            o == [key |-> NonEmpty(d.key), ref |-> NonEmpty(d.ref),
                  secret |-> NonEmpty(d.secret), tsInit |-> d.tsInit, tsExp |-> d.tsExp,
                  data |-> NonEmpty(d.data)]
            fields == {"key", "ref", "secret", "tsInit", "tsExp", "data"}
<1>15. DOMAIN d = fields
  BY DEF SecretFields
<1>16. /\ e.key = o.key /\ e.ref = o.ref /\ e.secret = o.secret
       /\ e.tsInit = o.tsInit /\ e.tsExp = o.tsExp /\ e.data = o.data
       /\ e = [x \in fields |-> e[x]] /\ o = [x \in fields |-> o[x]]
  BY <1>15
<1>. HIDE DEF e, o
<1>17. e = o
  BY <1>16
<1> QED
  BY <1>14, <1>17 DEF e, o

(***************************************************************************)
(* Options.                                                                *)
(***************************************************************************)
NextPair(buf, read) ==
    LET value == read.index + 1 + buf[read.index]
        next  == value + 1 + buf[value]
        pair  == [key   |-> Slice(buf, read.index + 1, value - 1),
                  value |-> Slice(buf, value + 1, next - 1)]
    IN  [index |-> next, options |-> Append(read.options, pair)]

(* The loop of the decoder reads the pair that the loop of the encoder put *)
(* behind v.                                                               *)
LEMMA PairReads ==
    ASSUME NEW o \in [key : Buffer, value : Buffer], FitsIn(Len(o.key), 1),
           FitsIn(Len(o.value), 1), NEW v \in Buffer,
           NEW buf \in Buffer, NEW i, Holds(buf, i, WithPair(v, o)), NEW pairs
    PROVE  /\ Holds(buf, i, v)
           /\ NextPair(buf, [index |-> i + Len(v), options |-> pairs]) =
                  [index |-> i + Len(WithPair(v, o)), options |-> Append(pairs, o)]
<1>. DEFINE a == <<Len(o.key)>>
            p == o.key
            b == <<Len(o.value)>>
            w == o.value
            x == v \o a
            y == x \o p
            z == y \o b
<1>1. /\ a \in Buffer /\ p \in Buffer /\ b \in Buffer /\ w \in Buffer
      /\ Len(p) \in Byte /\ Len(w) \in Byte /\ Len(a) = 1 /\ Len(b) = 1
  BY SmallIsByte, OneByte
<1>2. WithPair(v, o) = z \o w
  BY DEF WithPair
<1>3. x \in Buffer /\ Len(x) = Len(v) + 1 /\ Len(v) \in Nat
  <2>1. x \in Buffer /\ Len(x) = Len(v) + Len(a) /\ Len(v) \in Nat
    BY <1>1, Concat
  <2> QED
    BY <1>1, <2>1
<1>. HIDE DEF a, b, p, w, x
<1>4. PICK j, k, next : j = i + Len(v) /\ k = j + 1 + Len(p) /\ next = k + 1 + Len(w)
  OBVIOUS
<1>5. y \in Buffer /\ Len(y) = Len(x) + Len(p) /\ Len(p) \in Nat
  BY <1>1, <1>3, Concat
<1>. HIDE DEF y
<1>6. z \in Buffer /\ Len(z) = Len(y) + 1
  <2>1. z \in Buffer /\ Len(z) = Len(y) + Len(b)
    BY <1>1, <1>5, Concat
  <2> QED
    BY <1>1, <2>1
<1>. HIDE DEF z
<1>7. Holds(buf, i, z) /\ Holds(buf, i + Len(z), w) /\ i \in Nat \ {0}
      /\ i + Len(z) + Len(w) = i + Len(z \o w)
  <2>1. Holds(buf, i, z \o w)
    BY <1>2
  <2> QED
    BY <1>1, <1>6, <2>1, HoldsSplit
<1>8. Holds(buf, i, y) /\ Holds(buf, i + Len(y), b)
  BY <1>1, <1>5, <1>7, HoldsSplit DEF z
<1>9. Holds(buf, i, x) /\ Holds(buf, i + Len(x), p)
  BY <1>1, <1>3, <1>8, HoldsSplit DEF y
<1>10. Holds(buf, i, v) /\ Holds(buf, j, a)
  BY <1>1, <1>4, <1>9, HoldsSplit DEF x
<1>11. /\ i + Len(x) = j + 1 /\ i + Len(y) = k /\ i + Len(z) = k + 1
       /\ j \in Nat \ {0} /\ k \in Nat \ {0} /\ Len(w) \in Nat
  <2>1. Len(w) \in Nat
    BY <1>1, BufferLen
  <2>2. i \in Nat \ {0} /\ Len(v) \in Nat /\ Len(p) \in Nat
    BY <1>3, <1>5, <1>7
  <2>3. i + Len(x) = j + 1 /\ j \in Nat \ {0} /\ Len(x) \in Nat
    BY <1>3, <1>4, <2>2
  <2>4. i + Len(y) = k /\ k \in Nat \ {0} /\ Len(y) \in Nat
    <3>1. Len(y) = Len(x) + Len(p)
      BY <1>5
    <3>2. k = j + 1 + Len(p)
      BY <1>4
    <3>3. PICK m \in Nat, n \in Nat : m = Len(x) /\ n = Len(p)
      BY <2>2, <2>3
    <3>4. Len(y) = m + n /\ k = j + 1 + n /\ i + m = j + 1
      BY <2>3, <3>1, <3>2, <3>3
    <3> QED
      BY <2>2, <2>3, <3>4
  <2>5. i + Len(z) = k + 1
    BY <1>6, <2>2, <2>4
  <2> QED
    BY <2>1, <2>3, <2>4, <2>5
<1>12. buf[j] = Len(p)
  BY <1>1, <1>10, HoldsByte DEF a, p
<1>13. buf[k] = Len(w)
  <2>1. Holds(buf, k, b)
    BY <1>8, <1>11
  <2> QED
    BY <1>1, <2>1, HoldsByte DEF b, w
<1>14. Slice(buf, j + 1, k - 1) = p
  <2>. DEFINE n == j + 1
  <2>1. Holds(buf, n, p) /\ n + Len(p) - 1 = k - 1
    <3>1. n + Len(p) - 1 = k - 1
      <4>1. k = j + 1 + Len(p) /\ j \in Nat /\ Len(p) \in Nat
        BY <1>4, <1>5, <1>11
      <4>2. PICK m \in Nat : m = Len(p)
        BY <4>1
      <4>3. k = j + 1 + m
        BY <4>1, <4>2
      <4> QED
        BY <4>1, <4>2, <4>3
    <3>2. i + Len(x) = n
      BY <1>11
    <3>. HIDE DEF n
    <3> QED
      BY <1>9, <3>1, <3>2
  <2>. HIDE DEF n
  <2>2. Slice(buf, n, n + Len(p) - 1) = p
    BY <1>1, <2>1, SliceHolds
  <2> QED
    BY <2>1, <2>2 DEF n
<1>15. Slice(buf, k + 1, next - 1) = w
  <2>. DEFINE n == k + 1
  <2>1. Holds(buf, n, w)
    BY <1>7, <1>11
  <2>. HIDE DEF n
  <2>2. Slice(buf, n, n + Len(w) - 1) = w
    BY <1>1, <2>1, SliceHolds
  <2> QED
    BY <1>4, <2>2 DEF n
<1>16. i + Len(WithPair(v, o)) = next
  BY <1>2, <1>4, <1>7, <1>11
<1>17. j + 1 + buf[j] = k /\ k + 1 + buf[k] = next
  BY <1>4, <1>12, <1>13
<1>18. NextPair(buf, [index |-> j, options |-> pairs]) =
           [index |-> next, options |-> Append(pairs,
               [key |-> Slice(buf, j + 1, k - 1), value |-> Slice(buf, k + 1, next - 1)])]
  BY <1>17 DEF NextPair
<1>19. o = [key |-> p, value |-> w]
  BY DEF p, w
<1>20. NextPair(buf, [index |-> j, options |-> pairs]) =
           [index |-> next, options |-> Append(pairs, o)]
  BY <1>14, <1>15, <1>18, <1>19
<1> QED
  BY <1>4, <1>10, <1>16, <1>20

LEMMA FirstElements ==
    ASSUME NEW V, NEW s \in Seq(V)
    PROVE  /\ SubSeq(s, 1, 0) = <<>> /\ SubSeq(s, 1, Len(s)) = s
           /\ \A m \in 1 .. Len(s) : SubSeq(s, 1, m) = Append(SubSeq(s, 1, m - 1), s[m])
<1>1. Len(s) \in Nat /\ \A x \in 1 .. Len(s) : s[x] \in V
  BY LenProperties, ElementOfSeq
<1>2. ASSUME NEW m \in 0 .. Len(s)
      PROVE  /\ SubSeq(s, 1, m) \in Seq(V) /\ Len(SubSeq(s, 1, m)) = m
             /\ \A x \in 1 .. m : SubSeq(s, 1, m)[x] = s[x]
  <2>1. 1 \in Int /\ m \in Int /\ \A x \in 1 .. m : s[x] \in V
    BY <1>1
  <2>2. /\ SubSeq(s, 1, m) \in Seq(V)
        /\ Len(SubSeq(s, 1, m)) = IF 1 <= m THEN m - 1 + 1 ELSE 0
        /\ \A x \in 1 .. m - 1 + 1 : SubSeq(s, 1, m)[x] = s[1 + x - 1]
    BY <2>1, SubSeqProperties
  <2>3. m - 1 + 1 = m /\ (IF 1 <= m THEN m - 1 + 1 ELSE 0) = m
    BY <1>1
  <2>4. \A x \in 1 .. m : 1 + x - 1 = x
    OBVIOUS
  <2> QED
    BY <2>2, <2>3, <2>4
<1>3. SubSeq(s, 1, 0) = <<>>
  <2>1. 0 \in 0 .. Len(s)
    BY <1>1
  <2> QED
    BY <1>2, <2>1, EmptySeq
<1>4. SubSeq(s, 1, Len(s)) = s
  <2>1. Len(s) \in 0 .. Len(s)
    BY <1>1
  <2> QED
    BY <1>1, <1>2, <2>1, SeqEqual
<1>5. ASSUME NEW m \in 1 .. Len(s)
      PROVE  SubSeq(s, 1, m) = Append(SubSeq(s, 1, m - 1), s[m])
  <2>. DEFINE n == m - 1
              t == SubSeq(s, 1, n)
              u == SubSeq(s, 1, m)
              e == s[m]
  <2>1. n \in 0 .. Len(s) /\ m \in 0 .. Len(s) /\ e \in V /\ m = n + 1 /\ m \in Nat
    BY <1>1
  <2>2. t \in Seq(V) /\ Len(t) = n /\ \A x \in 1 .. n : t[x] = s[x]
    BY <1>2, <2>1
  <2>3. u \in Seq(V) /\ Len(u) = m /\ \A x \in 1 .. m : u[x] = s[x]
    BY <1>2, <2>1
  <2>. HIDE DEF t, u, n
  <2>4. /\ Append(t, e) \in Seq(V) /\ Len(Append(t, e)) = n + 1
        /\ \A x \in 1 .. n : Append(t, e)[x] = t[x]
        /\ Append(t, e)[n + 1] = e
    BY <2>1, <2>2, AppendProperties
  <2>5. \A x \in 1 .. m : u[x] = Append(t, e)[x]
    <3> TAKE x \in 1 .. m
    <3>1. x \in 1 .. n \/ x = m
      BY <2>1
    <3> QED
      BY <2>1, <2>2, <2>3, <2>4, <3>1
  <2>6. u = Append(t, e)
    BY <2>1, <2>3, <2>4, <2>5, SeqEqual
  <2> QED
    BY <2>6 DEF t, u, n
<1> QED
  BY <1>3, <1>4, <1>5

(* The loop of the decoder is at place i + Len(g[m]) with the first m      *)
(* pairs when it has read what the encoder had written with m pairs.       *)
LEMMA OptionsReads ==
    ASSUME NEW d \in OptionsFields, FitsIn(Len(d.options), 1),
           \A o \in ToSet(d.options) : FitsIn(Len(o.key), 1) /\ FitsIn(Len(o.value), 1),
           NEW buf \in Buffer, NEW i, Holds(buf, i, FromOptions(d))
    PROVE  ToOptions(buf, i) = d
<1>. DEFINE s == d.options
            N == Len(s)
            Pair == [key : Buffer, value : Buffer]
<1>1. /\ N \in Nat /\ DOMAIN s = 1 .. N /\ s \in Seq(Pair)
      /\ \A m \in 1 .. N : /\ s[m] \in Pair
                           /\ FitsIn(Len(s[m].key), 1) /\ FitsIn(Len(s[m].value), 1)
  <2>1. s \in Seq(Pair)
    BY DEF OptionsFields
  <2>2. N \in Nat /\ DOMAIN s = 1 .. N /\ \A m \in 1 .. N : s[m] \in Pair
    BY <2>1, LenProperties, ElementOfSeq
  <2>3. \A m \in 1 .. N : s[m] \in ToSet(s)
    BY <2>2 DEF ToSet
  <2> QED
    BY <2>1, <2>2, <2>3
<1>2. PICK g : /\ FromOptions(d) = g[N] /\ g[0] = <<N>>
               /\ \A m \in 0 .. N : g[m] \in Buffer
               /\ \A m \in 1 .. N : g[m] = WithPair(g[m - 1], s[m])
  BY OptionsFold
<1>3. N \in Byte
  BY SmallIsByte
<1>4. d = [options |-> s]
  BY DEF OptionsFields
<1>. HIDE DEF s, N
<1>5. \A m \in 0 .. N : Holds(buf, i, g[m])
  <2>. DEFINE Good == {n \in 1 .. N + 1 : Holds(buf, i, g[N + 1 - n])}
  <2>1. ASSUME NEW n \in 1 .. N + 1, \A m \in 1 .. n - 1 : m \in Good PROVE n \in Good
    <3>1. CASE n = 1
      <4>1. N + 1 - n = N
        BY <1>1, <3>1
      <4> QED
        BY <1>2, <4>1
    <3>2. CASE n # 1
      <4>. DEFINE m == N + 1 - n
                  l == m + 1
      <4>1. n - 1 \in Good
        <5>1. n - 1 \in 1 .. n - 1
          BY <1>1, <3>2
        <5> QED
          BY <2>1, <5>1
      <4>2. m \in 0 .. N /\ l \in 1 .. N /\ N + 1 - (n - 1) = l /\ l - 1 = m
        BY <1>1, <3>2
      <4>3. Holds(buf, i, g[l])
        BY <4>1, <4>2
      <4>. HIDE DEF l
      <4>4. g[l] = WithPair(g[m], s[l]) /\ g[m] \in Buffer
        BY <1>2, <4>2
      <4>. HIDE DEF m
      <4>5. Holds(buf, i, WithPair(g[m], s[l]))
        BY <4>3, <4>4
      <4>6. Holds(buf, i, g[m])
        BY <1>1, <4>2, <4>4, <4>5, PairReads
      <4> QED
        BY <4>6 DEF m
    <3> QED
      BY <3>1, <3>2
  <2>2. \A n \in 1 .. N + 1 : n \in Good
    <3>. HIDE DEF Good
    <3>1. N + 1 \in Nat
      BY <1>1
    <3> QED
      BY <2>1, <3>1, InductionUpTo
  <2>3. ASSUME NEW m \in 0 .. N PROVE Holds(buf, i, g[m])
    <3>. DEFINE n == N + 1 - m
    <3>1. n \in 1 .. N + 1 /\ N + 1 - n = m
      BY <1>1
    <3>. HIDE DEF n
    <3>2. n \in Good
      BY <2>2, <3>1
    <3> QED
      BY <3>1, <3>2
  <2> QED
    BY <2>3
<1>. DEFINE r == [m \in 0 .. N |-> [index |-> i + Len(g[m]), options |-> SubSeq(s, 1, m)]]
<1>6. buf[i] = N /\ i \in Nat \ {0}
  <2>1. 0 \in 0 .. N
    BY <1>1
  <2>2. Holds(buf, i, <<N>>)
    BY <1>2, <1>5, <2>1
  <2> QED
    BY <1>3, <2>2, HoldsByte
<1>7. r[0] = [index |-> i + 1, options |-> <<>>]
  <2>1. 0 \in 0 .. N
    BY <1>1
  <2>2. Len(g[0]) = 1
    BY <1>2, <1>3, OneByte
  <2>3. SubSeq(s, 1, 0) = <<>>
    BY <1>1, FirstElements
  <2> QED
    BY <2>1, <2>2, <2>3
<1>8. ASSUME NEW m \in 1 .. N PROVE r[m] = NextPair(buf, r[m - 1])
  <2>. DEFINE n == m - 1
              o == s[m]
              v == g[n]
  <2>1. n \in 0 .. N /\ m \in 0 .. N
    BY <1>1
  <2>2. /\ o \in Pair /\ FitsIn(Len(o.key), 1) /\ FitsIn(Len(o.value), 1)
        /\ v \in Buffer /\ g[m] = WithPair(v, o) /\ Holds(buf, i, WithPair(v, o))
    BY <1>1, <1>2, <1>5, <2>1
  <2>3. SubSeq(s, 1, m) = Append(SubSeq(s, 1, n), o)
    BY <1>1, FirstElements DEF N
  <2>4. /\ r[n] = [index |-> i + Len(v), options |-> SubSeq(s, 1, n)]
        /\ r[m] = [index |-> i + Len(WithPair(v, o)), options |-> Append(SubSeq(s, 1, n), o)]
    BY <2>1, <2>2, <2>3
  <2>. HIDE DEF n, o, v, r
  <2>5. NextPair(buf, [index |-> i + Len(v), options |-> SubSeq(s, 1, n)]) =
            [index |-> i + Len(WithPair(v, o)), options |-> Append(SubSeq(s, 1, n), o)]
    <3>. DEFINE pairs == SubSeq(s, 1, n)
    <3>1. /\ o \in [key : Buffer, value : Buffer] /\ v \in Buffer
          /\ FitsIn(Len(o.key), 1) /\ FitsIn(Len(o.value), 1)
          /\ Holds(buf, i, WithPair(v, o))
      BY <2>2
    <3>. HIDE DEF pairs
    <3>2. NextPair(buf, [index |-> i + Len(v), options |-> pairs]) =
              [index |-> i + Len(WithPair(v, o)), options |-> Append(pairs, o)]
      BY <3>1, PairReads, SMTT(30)
    <3> QED
      BY <3>2 DEF pairs
  <2> QED
    BY <2>4, <2>5 DEF n
<1>. DEFINE first == [index |-> i + 1, options |-> <<>>]
            q == [n \in 1 .. buf[i] |-> n]
            Body(f, S) == IF S = {} THEN first ELSE NextPair(buf, f[S \ {Max(S)}])
            iter[S \in SUBSET DOMAIN q] == Body(iter, S)
<1>9. ToOptions(buf, i) = [options |-> iter[DOMAIN q].options]
  BY DEF ToOptions, FoldLeft, MapThenFoldSet, NextPair
<1>10. DOMAIN q = 1 .. N
  BY <1>6
<1>. HIDE DEF r, q
<1>11. \E f : f = [S \in SUBSET (1 .. N) |-> Body(f, S)]
  <2>. DEFINE f == [S \in SUBSET (1 .. N) |-> r[Cardinality(S)]]
  <2>1. ASSUME NEW S \in SUBSET (1 .. N) PROVE f[S] = Body(f, S)
    <3>1. IsFiniteSet(1 .. N) /\ Cardinality(1 .. N) = N
      BY <1>1, FS_Interval
    <3>2. IsFiniteSet(S) /\ Cardinality(S) \in Nat /\ Cardinality(S) <= N
      BY <3>1, FS_Subset, FS_CardinalityType
    <3>3. CASE S = {}
      BY <1>7, <3>3, FS_EmptySet
    <3>4. CASE S # {}
      <4>. DEFINE T == S \ {Max(S)}
      <4>1. Max(S) \in S
        BY <1>1, <3>4, MaxInRange
      <4>2. Cardinality(T) = Cardinality(S) - 1 /\ T \in SUBSET (1 .. N)
        BY <3>2, <4>1, FS_RemoveElement
      <4>3. Cardinality(S) # 0
        BY <3>2, <3>4, FS_EmptySet
      <4>4. Cardinality(S) \in 1 .. N
        BY <1>1, <3>2, <4>3
      <4>5. r[Cardinality(S)] = NextPair(buf, r[Cardinality(T)])
        BY <1>8, <4>2, <4>4
      <4>6. f[T] = r[Cardinality(T)]
        BY <4>2
      <4> QED
        BY <3>4, <4>5, <4>6
    <3> QED
      BY <3>3, <3>4
  <2> QED
    BY <2>1
<1>12. iter = [S \in SUBSET (1 .. N) |-> Body(iter, S)]
  BY <1>10, <1>11 DEF iter
<1>. HIDE DEF iter
<1>13. \A m \in 0 .. N : iter[1 .. m] = r[m]
  <2>1. iter[{}] = r[0]
    BY <1>7, <1>12
  <2>. DEFINE Good == {m \in 1 .. N : iter[1 .. m] = r[m]}
  <2>2. ASSUME NEW m \in 1 .. N, \A n \in 1 .. m - 1 : n \in Good PROVE m \in Good
    <3>1. m \in Nat \ {0} /\ 1 .. m \in SUBSET (1 .. N) /\ 1 .. m # {}
      <4>1. m \in 1 .. m /\ (\A n \in 1 .. m : n \in 1 .. N) /\ m \in Nat \ {0}
        BY <1>1
      <4> QED
        BY <4>1
    <3>2. Max(1 .. m) = m /\ (1 .. m) \ {m} = 1 .. m - 1
      BY <3>1, MaxOfRange
    <3>3. iter[1 .. m] = NextPair(buf, iter[1 .. m - 1])
      BY <1>12, <3>1, <3>2
    <3>4. iter[1 .. m - 1] = r[m - 1]
      <4>1. CASE m = 1
        <5>1. 1 .. m - 1 = {} /\ m - 1 = 0
          BY <4>1
        <5> QED
          BY <2>1, <5>1
      <4>2. CASE m # 1
        <5>1. m - 1 \in 1 .. m - 1
          BY <3>1, <4>2
        <5> QED
          BY <2>2, <5>1
      <4> QED
        BY <4>1, <4>2
    <3> QED
      BY <1>8, <3>3, <3>4
  <2>3. \A m \in 1 .. N : m \in Good
    <3>. HIDE DEF Good
    <3> QED
      BY <1>1, <2>2, InductionUpTo
  <2>4. 1 .. 0 = {} /\ \A m \in 0 .. N : m = 0 \/ m \in 1 .. N
    BY <1>1
  <2> QED
    BY <2>1, <2>3, <2>4
<1>14. iter[1 .. N].options = s
  <2>1. N \in 0 .. N
    BY <1>1
  <2>2. r[N].options = SubSeq(s, 1, N)
    BY <2>1 DEF r
  <2>3. SubSeq(s, 1, N) = s
    BY <1>1, FirstElements DEF N
  <2> QED
    BY <1>13, <2>1, <2>2, <2>3
<1> QED
  BY <1>4, <1>9, <1>10, <1>14

(***************************************************************************)
(* The data of a block, and the block.                                     *)
(***************************************************************************)
LEMMA PlainReads ==
    ASSUME NEW type \in ToSet(TypeNames), NEW d \in PlainData(type), PlainFits(type, d)
    PROVE  ToData(type, FromPlain(type, d)) = NormalPlain(type, d)
<1>. DEFINE one == <<1>>
<1>1. one \in Buffer /\ Len(one) = 1 /\ 1 \in Byte
  BY OneByte, Constants
<1>2. ASSUME NEW v \in Buffer, NEW buf, buf = one \o v
      PROVE  buf \in Buffer /\ buf[1] = 1 /\ Ends(buf, 2, v)
  <2>1. buf \in Buffer
    BY <1>1, <1>2, Concat
  <2>2. Ends(buf, 1, one \o v)
    BY <1>2, <2>1, EndsWhole
  <2>3. Holds(buf, 1, one) /\ Ends(buf, 1 + Len(one), v)
    <3>. HIDE DEF one
    <3> QED
      BY <1>1, <2>1, <2>2, EndsSplit
  <2>4. buf[1] = 1
    BY <1>1, <2>1, <2>3, HoldsByte
  <2> QED
    BY <1>1, <2>1, <2>3, <2>4
<1>3. CASE type \in KeyTypes
  <2>1. /\ d \in KeyFields /\ FitsVar(d.parentKey) /\ FitsVar(d.key)
        /\ FitsIn(d.action, 1) /\ WindowFits(d)
    BY <1>3 DEF PlainData, PlainFits, KeyTypes, OptionsTypes
  <2>. DEFINE v == FromKey(d)
              buf == FromPlain(type, d)
  <2>2. v \in Buffer /\ buf = one \o v
    BY <1>3, <2>1, KeyBytes DEF FromPlain, KeyTypes, OptionsTypes
  <2>. HIDE DEF buf
  <2>3. buf \in Buffer /\ buf[1] = 1 /\ Ends(buf, 2, v)
    BY <1>2, <2>2
  <2>4. ToData(type, buf) = ToKey(buf, 2)
    BY <1>3, <2>3 DEF ToData, KeyTypes, OptionsTypes
  <2>5. NormalPlain(type, d) = [d EXCEPT !.parentKey = NonEmpty(@), !.key = NonEmpty(@),
                                         !.data = NonEmpty(@)]
    BY <1>3 DEF NormalPlain, KeyTypes, OptionsTypes
  <2>6. ToKey(buf, 2) = [d EXCEPT !.parentKey = NonEmpty(@), !.key = NonEmpty(@),
                                  !.data = NonEmpty(@)]
    BY <2>1, <2>3, KeyReads
  <2> QED
    BY <2>4, <2>5, <2>6 DEF buf
<1>4. CASE type = "secret"
  <2>1. /\ d \in SecretFields /\ FitsVar(d.key) /\ FitsVar(d.ref) /\ FitsVar(d.secret)
        /\ WindowFits(d)
    BY <1>4 DEF PlainData, PlainFits, KeyTypes, OptionsTypes
  <2>. DEFINE v == FromSecret(d)
              buf == FromPlain(type, d)
  <2>2. v \in Buffer /\ buf = one \o v
    BY <1>4, <2>1, SecretBytes DEF FromPlain, KeyTypes, OptionsTypes
  <2>. HIDE DEF buf
  <2>3. buf \in Buffer /\ buf[1] = 1 /\ Ends(buf, 2, v)
    BY <1>2, <2>2
  <2>4. ToData(type, buf) = ToSecret(buf, 2)
    BY <1>4, <2>3 DEF ToData, KeyTypes, OptionsTypes
  <2>5. NormalPlain(type, d) = [d EXCEPT !.key = NonEmpty(@), !.ref = NonEmpty(@),
                                         !.secret = NonEmpty(@), !.data = NonEmpty(@)]
    BY <1>4 DEF NormalPlain, KeyTypes, OptionsTypes
  <2>6. ToSecret(buf, 2) = [d EXCEPT !.key = NonEmpty(@), !.ref = NonEmpty(@),
                                     !.secret = NonEmpty(@), !.data = NonEmpty(@)]
    BY <2>1, <2>3, SecretReads
  <2> QED
    BY <2>4, <2>5, <2>6 DEF buf
<1>5. CASE type \in OptionsTypes
  <2>1. /\ d \in OptionsFields /\ FitsIn(Len(d.options), 1)
        /\ \A o \in ToSet(d.options) : FitsIn(Len(o.key), 1) /\ FitsIn(Len(o.value), 1)
    BY <1>5 DEF PlainData, PlainFits, KeyTypes, OptionsTypes
  <2>. DEFINE v == FromOptions(d)
              buf == FromPlain(type, d)
  <2>2. v \in Buffer /\ buf = one \o v
    BY <1>5, <2>1, OptionsBytes DEF FromPlain, KeyTypes, OptionsTypes
  <2>. HIDE DEF buf
  <2>3. buf \in Buffer /\ buf[1] = 1 /\ Ends(buf, 2, v)
    BY <1>2, <2>2
  <2>4. ToData(type, buf) = ToOptions(buf, 2)
    BY <1>5, <2>3 DEF ToData, KeyTypes, OptionsTypes
  <2>5. NormalPlain(type, d) = d
    BY <1>5 DEF NormalPlain, KeyTypes, OptionsTypes
  <2>6. ToOptions(buf, 2) = d
    BY <2>1, <2>3, OptionsReads DEF Ends
  <2> QED
    BY <2>4, <2>5, <2>6 DEF buf
<1>6. CASE type = "record"
  <2>1. FromPlain(type, d) = <<0>> /\ NormalPlain(type, d) = Null
    BY <1>6 DEF FromPlain, NormalPlain, KeyTypes, OptionsTypes
  <2>2. <<0>>[1] = 0
    OBVIOUS
  <2> QED
    BY <2>1, <2>2 DEF ToData
<1>7. type \in KeyTypes \/ type = "secret" \/ type \in OptionsTypes \/ type = "record"
  BY DEF ToSet, TypeNames, KeyTypes, OptionsTypes
<1> QED
  BY <1>3, <1>4, <1>5, <1>6, <1>7

LEMMA DataReads ==
    ASSUME NEW type \in ToSet(TypeNames), NEW data,
           data \in {Null} \cup PlainData(type) \cup EncryptedData, DataFits(type, data)
    PROVE  ToData(type, FromData(type, data)) = NormalData(type, data)
<1>1. CASE data = Null
  <2>1. FromData(type, data) = <<0>> /\ NormalData(type, data) = Null /\ <<0>>[1] = 0
    BY <1>1 DEF FromData, NormalData, IsEncrypted
  <2> QED
    BY <2>1 DEF ToData
<1>2. CASE data # Null /\ data \in PlainData(type)
  <2>1. ~IsEncrypted(data)
    BY <1>2, DataKinds DEF IsEncrypted
  <2>2. /\ FromData(type, data) = FromPlain(type, data) /\ PlainFits(type, data)
        /\ NormalData(type, data) = NormalPlain(type, data)
    BY <1>2, <2>1 DEF FromData, DataFits, NormalData
  <2> QED
    BY <1>2, <2>2, PlainReads
<1>3. CASE data # Null /\ data \in EncryptedData
  <2>1. IsEncrypted(data)
    BY <1>3, EncryptedFacts
  <2>2. data.key \in MaybeBuffer /\ data.encryptedData \in Buffer
    BY <1>3, EncryptedFacts
  <2>fits. FitsVar(data.key)
    BY <1>3, <2>1 DEF DataFits
  <2>. DEFINE p == <<2>>
              q == FromVarBinary(data.key)
              r == data.encryptedData
              u == p \o q
              buf == FromData(type, data)
              key == ToVarBinary(buf, 2)
  <2>3. buf = u \o r
    BY <1>3, <2>1 DEF FromData
  <2>4. p \in Buffer /\ q \in Buffer /\ r \in Buffer /\ Len(p) = 1 /\ 2 \in Byte
    <3>1. 2 \in Byte
      BY Constants
    <3>2. p \in Buffer /\ Len(p) = 1
      BY <3>1, OneByte
    <3>3. q \in Buffer
      BY <2>fits, <2>2, VarBinaryBytes
    <3> QED
      BY <2>2, <3>1, <3>2, <3>3
  <2>5. NormalData(type, data) = [key |-> NonEmpty(data.key), data |-> r]
    BY <1>3, <2>1 DEF NormalData
  <2>. HIDE DEF q, buf
  <2>6. u \in Buffer /\ Len(u) = 1 + Len(q) /\ Len(q) \in Nat
    <3>1. u \in Buffer /\ Len(u) = Len(p) + Len(q) /\ Len(q) \in Nat
      BY <2>4, Concat
    <3> QED
      BY <2>4, <3>1
  <2>. HIDE DEF r, u
  <2>7. buf \in Buffer /\ Ends(buf, 1, u \o r)
    <3>1. buf \in Buffer
      BY <2>3, <2>4, <2>6, Concat
    <3> QED
      BY <2>3, <3>1, EndsWhole
  <2>8. Holds(buf, 1, u) /\ Ends(buf, 1 + Len(u), r)
    BY <2>4, <2>6, <2>7, EndsSplit
  <2>9. Holds(buf, 1, p) /\ Holds(buf, 1 + Len(p), q)
    <3>. HIDE DEF p
    <3> QED
      BY <2>4, <2>7, <2>8, HoldsSplit DEF u
  <2>10. buf[1] = 2
    BY <2>4, <2>7, <2>9, HoldsByte
  <2>11. key.result = NonEmpty(data.key) /\ key.index = 2 + Len(q)
    <3>1. Holds(buf, 2, q)
      BY <2>4, <2>9
    <3> QED
      BY <2>fits, <2>2, <2>7, <3>1, VarReads DEF q
  <2>12. From(buf, key.index) = r
    <3>1. 1 + Len(u) = key.index
      BY <2>6, <2>11
    <3>2. Ends(buf, key.index, r)
      BY <2>8, <3>1
    <3>. HIDE DEF key
    <3> QED
      BY <2>4, <2>7, <3>2, FromEnds
  <2>13. ToData(type, buf) = [key |-> key.result, data |-> From(buf, key.index)]
    BY <2>10 DEF ToData
  <2> QED
    BY <2>5, <2>11, <2>12, <2>13 DEF buf
<1> QED
  BY <1>1, <1>2, <1>3

LEMMA TypeReads ==
    ASSUME NEW type \in ToSet(TypeNames)
    PROVE  TypeNames[CodeOf(type) + 1] = type
<1>. DEFINE code == CHOOSE i \in DOMAIN TypeNames : TypeNames[i] = type
<1>1. DOMAIN TypeNames = 1 .. 8
  BY DEF TypeNames
<1>2. \E i \in DOMAIN TypeNames : TypeNames[i] = type
  BY DEF ToSet
<1>3. code \in DOMAIN TypeNames /\ TypeNames[code] = type
  BY <1>2
<1>4. CodeOf(type) = code - 1
  BY DEF CodeOf
<1>. HIDE DEF code
<1>5. CodeOf(type) + 1 = code
  BY <1>1, <1>3, <1>4
<1> QED
  BY <1>3, <1>5

LEMMA HashReads ==
    ASSUME NEW h \in HashValue \cup {Null},
           NEW buf \in Buffer, NEW i, Holds(buf, i, FromHash(h))
    PROVE  ToHash(buf, i) = h
<1>. DEFINE v == FromHash(h)
<1>1. v \in Buffer /\ Len(v) = HashSize /\ h = IF v = ZeroHash THEN Null ELSE v
  BY HashBytes
<1>2. Holds(buf, i, v)
  OBVIOUS
<1>. HIDE DEF v
<1>3. SubSeq(buf, i, i + Len(v) - 1) = v
  BY <1>1, <1>2, SliceHolds
<1> QED
  BY <1>1, <1>3 DEF ToHash

LEMMA SecureDecodes ==
    ASSUME NEW b, Encodable(b)
    PROVE  ToSecure(FromSecure(b)) =
               [type |-> b.type, sig |-> NonEmpty(b.sig), data |-> NormalData(b.type, b.data)]
<1>. DEFINE p == <<CodeOf(b.type)>>
            q == FromVarBinary(b.sig)
            r == FromData(b.type, b.data)
            u == p \o q
            buf == FromSecure(b)
            sig == ToVarBinary(buf, 2)
<1>1. CodeOf(b.type) \in Byte /\ p \in Buffer /\ Len(p) = 1
  BY CodeIsByte, OneByte DEF Encodable
<1>2. q \in Buffer /\ b.sig \in MaybeBuffer /\ FitsVar(b.sig)
  BY VarBinaryBytes DEF Encodable, Serializable
<1>3. r \in Buffer /\ ToData(b.type, r) = NormalData(b.type, b.data)
  BY DataBytes, DataReads DEF Encodable, Serializable
<1>4. TypeNames[CodeOf(b.type) + 1] = b.type
  BY TypeReads DEF Encodable
<1>5. buf = u \o r
  BY DEF FromSecure
<1>. HIDE DEF q, r, buf
<1>6. u \in Buffer /\ Len(u) = 1 + Len(q) /\ Len(q) \in Nat
  <2>1. u \in Buffer /\ Len(u) = Len(p) + Len(q) /\ Len(q) \in Nat
    BY <1>1, <1>2, Concat
  <2> QED
    BY <1>1, <2>1
<1>. HIDE DEF u
<1>7. buf \in Buffer /\ Ends(buf, 1, u \o r)
  <2>1. buf \in Buffer
    BY <1>3, <1>5, <1>6, Concat
  <2> QED
    BY <1>5, <2>1, EndsWhole
<1>8. Holds(buf, 1, u) /\ Ends(buf, 1 + Len(u), r)
  BY <1>3, <1>6, <1>7, EndsSplit
<1>9. Holds(buf, 1, p) /\ Holds(buf, 1 + Len(p), q)
  <2>. HIDE DEF p
  <2> QED
    BY <1>1, <1>2, <1>7, <1>8, HoldsSplit DEF u
<1>10. buf[1] = CodeOf(b.type)
  BY <1>1, <1>7, <1>9, HoldsByte
<1>11. sig.result = NonEmpty(b.sig) /\ sig.index = 2 + Len(q)
  <2>1. Holds(buf, 2, q)
    BY <1>1, <1>9
  <2> QED
    BY <1>2, <1>7, <2>1, VarReads DEF q
<1>12. From(buf, sig.index) = r
  <2>1. 1 + Len(u) = sig.index
    BY <1>6, <1>11
  <2>2. Ends(buf, sig.index, r)
    BY <1>8, <2>1
  <2>. HIDE DEF sig
  <2> QED
    BY <1>3, <1>7, <2>2, FromEnds
<1>13. ToSecure(buf) = [type |-> TypeNames[buf[1] + 1], sig |-> sig.result,
                        data |-> ToData(TypeNames[buf[1] + 1], From(buf, sig.index))]
  BY DEF ToSecure
<1>14. TypeNames[buf[1] + 1] = b.type
  BY <1>4, <1>10
<1>. HIDE DEF sig
<1>15. ToSecure(buf) =
           [type |-> b.type, sig |-> NonEmpty(b.sig), data |-> NormalData(b.type, b.data)]
  BY <1>3, <1>11, <1>12, <1>13, <1>14
<1> QED
  BY <1>15 DEF buf

LEMMA BlocktreeDecodes ==
    ASSUME NEW b, Encodable(b)
    PROVE  ToBlocktree(FromBlocktree(b)) =
               [parent |-> b.parent, layer |-> SecureLayer(b.layer), type |-> b.type,
                sig |-> NonEmpty(b.sig), data |-> NormalData(b.type, b.data)]
<1>. DEFINE p == FromHash(b.parent)
            q == <<SecureLayer(b.layer)>>
            r == FromSecure(b)
            u == p \o q
            buf == FromBlocktree(b)
<1>1. p \in Buffer /\ Len(p) = HashSize /\ b.parent \in HashValue \cup {Null}
  BY HashBytes DEF Encodable
<1>2. SecureLayer(b.layer) \in Byte /\ q \in Buffer /\ Len(q) = 1
  <2>1. b.layer \in Byte
    BY SmallIsByte DEF Encodable, Serializable
  <2>2. SecureLayer(b.layer) \in Byte
    BY <2>1, Constants DEF SecureLayer
  <2> QED
    BY <2>2, OneByte
<1>3. r \in Buffer /\ ToSecure(r) =
          [type |-> b.type, sig |-> NonEmpty(b.sig), data |-> NormalData(b.type, b.data)]
  BY SecureBytes, SecureDecodes
<1>4. buf = u \o r
  BY DEF FromBlocktree
<1>. HIDE DEF p, r, buf
<1>5. u \in Buffer /\ Len(u) = HashSize + 1
  <2>1. u \in Buffer /\ Len(u) = Len(p) + Len(q)
    BY <1>1, <1>2, Concat
  <2> QED
    BY <1>1, <1>2, <2>1
<1>. HIDE DEF u
<1>6. buf \in Buffer /\ Ends(buf, 1, u \o r)
  <2>1. buf \in Buffer
    BY <1>3, <1>4, <1>5, Concat
  <2> QED
    BY <1>4, <2>1, EndsWhole
<1>7. Holds(buf, 1, u) /\ Ends(buf, 1 + Len(u), r)
  BY <1>3, <1>5, <1>6, EndsSplit
<1>8. Holds(buf, 1, p) /\ Holds(buf, 1 + HashSize, q)
  <2>. HIDE DEF q
  <2> QED
    BY <1>1, <1>2, <1>6, <1>7, HoldsSplit DEF u
<1>9. ToHash(buf, 1) = b.parent
  BY <1>1, <1>6, <1>8, HashReads DEF p
<1>10. 1 + HashSize = HashSize + 1 /\ 1 + (HashSize + 1) = HashSize + 2
  BY Constants
<1>11. buf[HashSize + 1] = SecureLayer(b.layer)
  <2>1. Holds(buf, HashSize + 1, q)
    BY <1>8, <1>10
  <2> QED
    BY <1>2, <1>6, <2>1, HoldsByte
<1>12. From(buf, HashSize + 2) = r
  <2>1. Ends(buf, HashSize + 2, r)
    BY <1>5, <1>7, <1>10
  <2> QED
    BY <1>3, <1>6, <2>1, FromEnds
<1>13. ToBlocktree(buf) =
           [parent |-> b.parent, layer |-> SecureLayer(b.layer), type |-> b.type,
            sig |-> NonEmpty(b.sig), data |-> NormalData(b.type, b.data)]
  BY <1>3, <1>9, <1>11, <1>12 DEF ToBlocktree
<1> QED
  BY <1>13 DEF buf

(* A block decodes as it was encoded: layer 3 at least, and an empty       *)
(* signature and empty fields of its data as none.                         *)
LEMMA BlockDecodes ==
    ASSUME NEW b, Encodable(b)
    PROVE  Decode(Encode(b)) =
               [seq |-> b.seq, prev |-> b.prev, nonce |-> b.nonce, timestamp |-> b.timestamp,
                parent |-> b.parent, layer |-> SecureLayer(b.layer), type |-> b.type,
                sig |-> NonEmpty(b.sig), data |-> NormalData(b.type, b.data)]
<1>. DEFINE p == FromInt(b.seq, Int64Size)
            q == FromHash(b.prev)
            r == FromInt(b.nonce, Int64Size)
            s == FromInt(b.timestamp, Int64Size)
            t == FromBlocktree(b)
            u == p \o q
            v == u \o r
            w == v \o s
            buf == Encode(b)
            nonce == Int64Size + HashSize + 1
<1>1. /\ b.seq \in Nat /\ b.nonce \in Nat /\ b.timestamp \in Nat
      /\ b.prev \in HashValue \cup {Null}
      /\ FitsIn(b.seq, Int64Size) /\ FitsIn(b.nonce, Int64Size)
      /\ FitsIn(b.timestamp, Int64Size)
  BY DEF Encodable, Serializable
<1>2. /\ p \in Buffer /\ Len(p) = Int64Size /\ r \in Buffer /\ Len(r) = Int64Size
      /\ s \in Buffer /\ Len(s) = Int64Size /\ q \in Buffer /\ Len(q) = HashSize
  BY <1>1, FromIntBytes, HashBytes, Constants
<1>3. t \in Buffer /\ ToBlocktree(t) =
          [parent |-> b.parent, layer |-> SecureLayer(b.layer), type |-> b.type,
           sig |-> NonEmpty(b.sig), data |-> NormalData(b.type, b.data)]
  BY BlocktreeBytes, BlocktreeDecodes
<1>4. buf = w \o t
  BY DEF Encode
<1>. HIDE DEF p, q, r, s, t, buf
<1>5. u \in Buffer /\ Len(u) = Int64Size + HashSize
  <2>1. u \in Buffer /\ Len(u) = Len(p) + Len(q)
    BY <1>2, Concat
  <2> QED
    BY <1>2, <2>1
<1>. HIDE DEF u
<1>6. v \in Buffer /\ Len(v) = Int64Size + HashSize + Int64Size
  BY <1>2, <1>5, Concat
<1>. HIDE DEF v
<1>7. w \in Buffer /\ Len(w) = HeaderSize
  <2>1. w \in Buffer /\ Len(w) = Len(v) + Len(s)
    BY <1>2, <1>6, Concat
  <2> QED
    BY <1>2, <1>6, <2>1, Constants DEF HeaderSize
<1>. HIDE DEF w
<1>8. buf \in Buffer /\ Ends(buf, 1, w \o t)
  <2>1. buf \in Buffer
    BY <1>3, <1>4, <1>7, Concat
  <2> QED
    BY <1>4, <2>1, EndsWhole
<1>9. Holds(buf, 1, w) /\ Ends(buf, 1 + HeaderSize, t)
  BY <1>3, <1>7, <1>8, EndsSplit
<1>10. Holds(buf, 1, v) /\ Holds(buf, 1 + (Int64Size + HashSize + Int64Size), s)
  BY <1>2, <1>6, <1>8, <1>9, HoldsSplit DEF w
<1>11. Holds(buf, 1, u) /\ Holds(buf, 1 + (Int64Size + HashSize), r)
  BY <1>2, <1>5, <1>8, <1>10, HoldsSplit DEF v
<1>12. Holds(buf, 1, p) /\ Holds(buf, 1 + Int64Size, q)
  BY <1>2, <1>8, <1>11, HoldsSplit DEF u
<1>13. /\ 1 + HeaderSize = HeaderSize + 1 /\ 1 + Int64Size = Int64Size + 1
       /\ 1 + (Int64Size + HashSize) = nonce
       /\ 1 + (Int64Size + HashSize + Int64Size) = nonce + Int64Size
  BY Constants DEF HeaderSize
<1>. HIDE DEF nonce
<1>14. ToInt(buf, 1, Int64Size) = b.seq
  BY <1>1, <1>8, <1>12, IntReads, Constants DEF p
<1>15. ToPrev(buf) = b.prev
  <2>1. Holds(buf, Int64Size + 1, q)
    BY <1>12, <1>13
  <2> QED
    BY <1>1, <1>8, <2>1, HashReads DEF ToPrev, q
<1>16. ToInt(buf, nonce, Int64Size) = b.nonce
  <2>1. Holds(buf, nonce, r)
    BY <1>11, <1>13
  <2> QED
    BY <1>1, <1>8, <2>1, IntReads, Constants DEF r
<1>17. ToInt(buf, nonce + Int64Size, Int64Size) = b.timestamp
  <2>1. Holds(buf, nonce + Int64Size, s)
    BY <1>10, <1>13
  <2> QED
    BY <1>1, <1>8, <2>1, IntReads, Constants DEF s
<1>18. From(buf, HeaderSize + 1) = t
  <2>1. Ends(buf, HeaderSize + 1, t)
    BY <1>9, <1>13
  <2> QED
    BY <1>3, <1>8, <2>1, FromEnds
<1>. DEFINE block == ToBlocktree(From(buf, HeaderSize + 1))
<1>19. Decode(buf) =
           [seq |-> ToInt(buf, 1, Int64Size), prev |-> ToPrev(buf),
            nonce |-> ToInt(buf, nonce, Int64Size),
            timestamp |-> ToInt(buf, nonce + Int64Size, Int64Size),
            parent |-> block.parent, layer |-> block.layer,
            type |-> block.type, sig |-> block.sig, data |-> block.data]
  BY DEF Decode, nonce
<1>20. /\ block.parent = b.parent /\ block.layer = SecureLayer(b.layer)
       /\ block.type = b.type /\ block.sig = NonEmpty(b.sig)
       /\ block.data = NormalData(b.type, b.data)
  BY <1>3, <1>18
<1>. HIDE DEF block
<1> QED
  BY <1>14, <1>15, <1>16, <1>17, <1>19, <1>20 DEF buf

(***************************************************************************)
(* Encryption and decryption.                                              *)
(***************************************************************************)
LEMMA RemainderIsUnique ==
    ASSUME NEW a \in Int, NEW d \in Nat \ {0}, NEW q \in Int, NEW r \in Nat, r < d,
           a = q * d + r
    PROVE  a % d = r
<1>. DEFINE p == a \div d
            m == a % d
<1>1. p \in Int /\ m \in Nat /\ m < d /\ a = p * d + m
  OBVIOUS
<1>. HIDE DEF p, m
<1>2. ASSUME NEW x \in Int, NEW y \in Int, x < y PROVE x * d + d <= y * d
  <2>. DEFINE z == y - x - 1
  <2>1. z \in Nat /\ y = x + 1 + z
    BY <1>2
  <2>. HIDE DEF z
  <2>2. y * d = x * d + d + z * d /\ z * d \in Nat /\ x * d \in Int
    BY <2>1
  <2> QED
    BY <2>2
<1>3. p * d \in Int /\ q * d \in Int
  BY <1>1
<1>4. ASSUME p < q PROVE FALSE
  <2>1. p * d + d <= q * d
    BY <1>1, <1>2, <1>4
  <2> QED
    BY <1>1, <1>3, <2>1
<1>5. ASSUME q < p PROVE FALSE
  <2>1. q * d + d <= p * d
    BY <1>1, <1>2, <1>5
  <2> QED
    BY <1>1, <1>3, <2>1
<1>6. p = q
  BY <1>1, <1>4, <1>5
<1>7. m = r
  BY <1>1, <1>3, <1>6
<1> QED
  BY <1>7 DEF m

LEMMA ShiftBack ==
    ASSUME NEW buf \in Buffer, NEW n \in Nat
    PROVE  Len(Shift(buf, n)) = Len(buf) /\ Shift(Shift(buf, n), - n) = buf
<1>. DEFINE m == Len(buf)
            e == Shift(buf, n)
            f == Shift(e, - n)
<1>1. m \in Nat /\ DOMAIN buf = 1 .. m /\ buf = [i \in 1 .. m |-> buf[i]]
      /\ \A i \in 1 .. m : buf[i] \in Byte
  BY LenProperties, ElementOfSeq DEF Buffer
<1>2. e \in Buffer /\ e = [i \in 1 .. m |-> (buf[i] + n) % Base]
  BY <1>1, ShiftBytes DEF Shift
<1>. HIDE DEF e
<1>3. DOMAIN e = 1 .. m /\ Len(e) = m
  <2>1. DOMAIN e = 1 .. m
    BY <1>2
  <2>2. DOMAIN e = 1 .. Len(e) /\ Len(e) \in Nat
    BY <1>2, LenProperties DEF Buffer
  <2> QED
    BY <1>1, <2>1, <2>2
<1>4. f = [i \in 1 .. m |-> (e[i] + (- n)) % Base]
  BY <1>3 DEF Shift
<1>. HIDE DEF f, m
<1>5. ASSUME NEW i \in 1 .. m PROVE f[i] = buf[i]
  <2>. DEFINE x == buf[i]
              y == (x + n) % Base
              q == (x + n) \div Base
              z == y + (- n)
  <2>1. x \in Nat /\ x < Base /\ Base \in Nat \ {0}
    <3>1. x \in Byte
      BY <1>1
    <3>. HIDE DEF x
    <3> QED
      BY <3>1, Constants
  <2>2. e[i] = y /\ f[i] = z % Base
    BY <1>2, <1>4
  <2>. HIDE DEF x
  <2>3. q \in Nat /\ y \in Nat /\ x + n = q * Base + y
    BY <2>1
  <2>. HIDE DEF y, q
  <2>4. z \in Int /\ z = (- q) * Base + x /\ - q \in Int
    <3>1. q * Base \in Nat /\ (- q) * Base = - (q * Base)
      BY <2>1, <2>3
    <3> QED
      BY <2>1, <2>3, <3>1
  <2>. HIDE DEF z
  <2>5. z % Base = x
    BY <2>1, <2>4, RemainderIsUnique
  <2> QED
    BY <2>2, <2>5 DEF x
<1>6. f = buf
  BY <1>1, <1>4, <1>5
<1> QED
  BY <1>3, <1>6 DEF e, f, m

(* Who has the key that data were encrypted for has the data.              *)
LEMMA DecryptsBack ==
    ASSUME NEW key \in Buffer, NEW data \in Buffer, NEW random \in Random
    PROVE  Decrypt(key, Encrypt(key, data, random)) = data
<1>. DEFINE a == PublicEncrypt(key, random.key)
            p == FromInt(Len(a), Int16Size)
            c == Cipher(random, data)
            u == p \o a
            buf == Encrypt(key, data, random)
            k == random.key
            iv == random.iv
            x == CipherIv(k, iv, data)
<1>1. k \in Buffer /\ FitsIn(Len(k), Int16Size) /\ iv \in Buffer /\ Len(iv) = AesKeySize
      /\ Len(k) \in Nat
  BY BufferLen, EncryptionAssumption DEF Random
<1>2. /\ a \in Buffer /\ Len(a) = Len(k) /\ PrivateDecrypt(key, a) = k
  <2>1. Digest(key) \in Nat
    BY DigestIsNat
  <2>2. a = Shift(k, Digest(key)) /\ PrivateDecrypt(key, a) = Shift(a, - Digest(key))
    BY DEF PublicEncrypt, PrivateDecrypt
  <2>. HIDE DEF a, k
  <2> QED
    BY <1>1, <2>1, <2>2, ShiftBytes, ShiftBack
<1>3. x \in Buffer /\ DecipherIv(k, iv, x) = data
  <2>1. k \o iv \in Buffer
    BY <1>1, Concat
  <2>2. Digest(k \o iv) \in Nat
    BY <2>1, DigestIsNat
  <2> QED
    BY <2>2, ShiftBytes, ShiftBack DEF CipherIv, DecipherIv
<1>4. c = iv \o x
  BY DEF Cipher
<1>5. buf = u \o c
  BY DEF Encrypt
<1>6. p \in Buffer /\ Len(p) = Int16Size /\ FitsIn(Len(a), Int16Size) /\ Len(a) \in Nat
  BY <1>1, <1>2, FromIntBytes, Constants
<1>. HIDE DEF a, c, x, k, iv, buf
<1>7. c \in Buffer
  BY <1>1, <1>3, <1>4, Concat
<1>8. p \in Buffer /\ u \in Buffer /\ Len(u) = Int16Size + Len(a)
  <2>. HIDE DEF p
  <2>1. u \in Buffer /\ Len(u) = Len(p) + Len(a)
    BY <1>2, <1>6, Concat
  <2> QED
    BY <1>6, <2>1
<1>. HIDE DEF p, u
<1>9. buf \in Buffer /\ Ends(buf, 1, u \o c)
  <2>1. buf \in Buffer
    BY <1>5, <1>7, <1>8, Concat
  <2> QED
    BY <1>5, <2>1, EndsWhole
<1>10. Holds(buf, 1, u) /\ Ends(buf, 1 + Len(u), c)
  BY <1>7, <1>8, <1>9, EndsSplit
<1>11. Holds(buf, 1, p) /\ Holds(buf, 1 + Int16Size, a)
  BY <1>2, <1>6, <1>9, <1>10, HoldsSplit DEF u
<1>12. ToInt(buf, 1, Int16Size) = Len(a)
  BY <1>6, <1>9, <1>11, IntReads, Constants DEF p
<1>13. PICK start, end : start = Int16Size + 1 /\ end = start + ToInt(buf, 1, Int16Size)
  OBVIOUS
<1>14. /\ start + Len(a) - 1 = end - 1 /\ 1 + Len(u) = end /\ 1 + Int16Size = start
  <2>1. start = 3 /\ end = 3 + Len(a) /\ Int16Size = 2
    BY <1>12, <1>13, Constants
  <2>2. Len(u) = 2 + Len(a) /\ Len(a) \in Nat
    BY <1>6, <1>8, <2>1
  <2> QED
    BY <2>1, <2>2
<1>15. Slice(buf, start, end - 1) = a
  <2>1. Holds(buf, start, a)
    BY <1>11, <1>14
  <2>2. Slice(buf, start, start + Len(a) - 1) = a
    BY <1>2, <1>9, <2>1, SliceHolds
  <2> QED
    BY <1>14, <2>2
<1>16. From(buf, end) = c
  <2>1. Ends(buf, end, c)
    BY <1>10, <1>14
  <2> QED
    BY <1>7, <1>9, <2>1, FromEnds
<1>17. Decrypt(key, buf) =
           Decipher(PrivateDecrypt(key, Slice(buf, start, end - 1)), From(buf, end))
  BY <1>13 DEF Decrypt
<1>18. Decrypt(key, buf) = Decipher(k, c)
  BY <1>2, <1>15, <1>16, <1>17
<1>19. Slice(c, 1, AesKeySize) = iv /\ From(c, AesKeySize + 1) = x
  <2>1. AesKeySize \in Nat \ {0}
    BY EncryptionAssumption
  <2>2. Ends(c, 1, iv \o x)
    BY <1>4, <1>7, EndsWhole
  <2>3. Holds(c, 1, iv) /\ Ends(c, 1 + AesKeySize, x)
    BY <1>1, <1>3, <1>7, <2>2, EndsSplit
  <2>4. 1 + AesKeySize - 1 = AesKeySize /\ 1 + AesKeySize = AesKeySize + 1
    BY <2>1
  <2>5. Slice(c, 1, 1 + AesKeySize - 1) = iv
    BY <1>1, <1>7, <2>3, SliceHolds
  <2>6. From(c, 1 + AesKeySize) = x
    BY <1>3, <1>7, <2>3, FromEnds
  <2> QED
    BY <2>4, <2>5, <2>6
<1>20. Decipher(k, c) = data
  BY <1>3, <1>19 DEF Decipher
<1> QED
  BY <1>18, <1>20 DEF buf

(***************************************************************************)
(* The invariant: every slot holds its value behind the length, as far as  *)
(* it takes it, a value is the encoding of the block that was written, and *)
(* a scan has seen the elements before its place, for which the list only  *)
(* grows.                                                                  *)
(***************************************************************************)
TableInv ==
    \A h \in DOMAIN table :
        /\ written[h] \in DOMAIN Value /\ Value[written[h]] = h /\ LengthFits(h)
        /\ table[h] = SlotOf(h)

Seen(k) ==
    /\ k.at \in 1 .. Len(keys)
    /\ k.op \in {"map", "find"}
    /\ k.op = "map" => k.values = [i \in 1 .. k.at - 1 |-> Cut(keys[i])]
    /\ k.op = "find" => /\ k.values = <<>>
                        /\ \A i \in 1 .. k.at - 1 : k.prev = Null \/ written[keys[i]].prev # k.prev

ScanInv == \A c \in Calls : calls[c].pc = "scan" => Seen(calls[c])

Inv == TypeOK /\ IsFiniteSet(DOMAIN table) /\ KeysMatchTable /\ TableInv /\ ScanInv


LEMMA ValueFacts ==
    ASSUME NEW b \in DOMAIN Value
    PROVE  b \in Blocks /\ Value[b] \in Hash
BY DEF Value, Hash, Range

LEMMA KeyFacts ==
    ASSUME Inv, NEW i \in 1 .. Len(keys)
    PROVE  /\ Len(keys) \in Nat /\ Len(keys) <= MaxKeys
           /\ keys[i] \in DOMAIN table /\ keys[i] \in ToSet(keys)
           /\ SlotValue(table[keys[i]]) = Cut(keys[i]) /\ Cut(keys[i]) \in Buffer
           /\ ToPrev(Cut(keys[i])) = written[keys[i]].prev
<1>1. keys \in Seq(Hash) /\ Len(keys) <= MaxKeys
  BY DEF Inv, TypeOK
<1>2. Len(keys) \in Nat /\ DOMAIN keys = 1 .. Len(keys)
  BY <1>1, LenProperties
<1>. DEFINE h == keys[i]
<1>3. h \in ToSet(keys)
  BY <1>2 DEF ToSet
<1>4. h \in DOMAIN table
  BY <1>3 DEF Inv, KeysMatchTable
<1>. DEFINE b == written[h]
<1>5. b \in DOMAIN Value /\ Value[b] = h /\ FitsIn(Len(h), Int16Size) /\ table[h] = SlotOf(h)
  BY <1>4 DEF Inv, TableInv, LengthFits
<1>. HIDE DEF h, b
<1>6. h \in Buffer /\ ToPrev(Cut(h)) = b.prev
  BY <1>5, PrevReadsBack
<1>7. SlotValue(table[h]) = Cut(h) /\ Cut(h) \in Buffer
  BY <1>5, <1>6, SlotReadsBack
<1> QED
  BY <1>1, <1>2, <1>3, <1>4, <1>6, <1>7 DEF h, b

LEMMA CallTypes ==
    /\ NewCall \in Call
    /\ \A k \in Call :
          /\ Return(k) \in Call /\ Return(k).pc = "idle"
          /\ Return(k).op = k.op /\ Return(k).values = k.values
          /\ \A n \in 0 .. MaxKeys : LET r == [k EXCEPT !.at = n] IN
                /\ r \in Call /\ r.at = n /\ r.pc = k.pc /\ r.op = k.op
                /\ r.values = k.values /\ r.prev = k.prev
          /\ \A v \in Seq(Buffer) : LET r == [k EXCEPT !.values = v] IN
                /\ r \in Call /\ r.values = v /\ r.at = k.at /\ r.pc = k.pc
                /\ r.op = k.op /\ r.prev = k.prev
<1>1. 0 \in 0 .. MaxKeys
  BY Sizes
<1>2. <<>> \in Seq(Buffer)
  OBVIOUS
<1>3. NewCall \in Call
  BY <1>1, <1>2 DEF NewCall, Call
<1>4. ASSUME NEW k \in Call
      PROVE  /\ Return(k) \in Call /\ Return(k).pc = "idle"
             /\ Return(k).op = k.op /\ Return(k).values = k.values
  BY <1>1 DEF Return, Call
<1>5. ASSUME NEW k \in Call, NEW n \in 0 .. MaxKeys
      PROVE  LET r == [k EXCEPT !.at = n] IN
             /\ r \in Call /\ r.at = n /\ r.pc = k.pc /\ r.op = k.op
             /\ r.values = k.values /\ r.prev = k.prev
  BY DEF Call
<1>6. ASSUME NEW k \in Call, NEW v \in Seq(Buffer)
      PROVE  LET r == [k EXCEPT !.values = v] IN
             /\ r \in Call /\ r.values = v /\ r.at = k.at /\ r.pc = k.pc
             /\ r.op = k.op /\ r.prev = k.prev
  BY DEF Call
<1> QED
  BY <1>3, <1>4, <1>5, <1>6

LEMMA MovedCall ==
    ASSUME NEW k \in Call, NEW n \in 0 .. MaxKeys, NEW r, r = [k EXCEPT !.at = n]
    PROVE  /\ r \in Call /\ r.at = n /\ r.pc = k.pc /\ r.op = k.op
           /\ r.values = k.values /\ r.prev = k.prev
BY CallTypes

LEMMA AnsweredCall ==
    ASSUME NEW k \in Call, NEW v \in Seq(Buffer), NEW r, r = Return([k EXCEPT !.values = v])
    PROVE  r \in Call /\ r.pc = "idle" /\ r.op = k.op /\ r.values = v
<1>. DEFINE m == [k EXCEPT !.values = v]
<1>1. m \in Call /\ m.values = v /\ m.op = k.op
  BY CallTypes
<1>2. r = Return(m)
  OBVIOUS
<1>. HIDE DEF m
<1> QED
  BY <1>1, <1>2, CallTypes

LEMMA InitInv == Init => Inv
<1> SUFFICES ASSUME Init PROVE Inv
  OBVIOUS
<1>1. DOMAIN table = {} /\ DOMAIN written = {} /\ keys = <<>> /\ Len(keys) = 0
  BY DEF Init
<1>2. TypeOK
  <2>1. keys \in Seq(Hash)
    BY <1>1
  <2>2. calls \in [Calls -> Call]
    BY CallTypes DEF Init
  <2> QED
    BY <1>1, <2>1, <2>2, Sizes DEF TypeOK
<1>3. IsFiniteSet(DOMAIN table) /\ Cardinality(DOMAIN table) = 0
  BY <1>1, FS_EmptySet
<1>4. KeysMatchTable
  BY <1>1, <1>3 DEF KeysMatchTable, ToSet
<1>5. TableInv
  BY <1>1 DEF TableInv
<1>6. ScanInv
  BY DEF Init, ScanInv, NewCall
<1> QED
  BY <1>2, <1>3, <1>4, <1>5, <1>6 DEF Inv

(* A step that leaves the table alone. *)
LEMMA CallStep ==
    ASSUME Inv, NEW c \in Calls, NEW k \in Call, Set(c, k), UNCHANGED <<table, keys, written>>,
           k.pc = "scan" => Seen(k)
    PROVE  Inv'
<1>1. calls' \in [Calls -> Call]
  BY DEF Inv, TypeOK, Set
<1>2. TypeOK'
  BY <1>1 DEF Inv, TypeOK
<1>3. TableInv' /\ KeysMatchTable' /\ IsFiniteSet(DOMAIN table)'
  BY DEF Inv, TableInv, KeysMatchTable
<1>4. ScanInv'
  <2> SUFFICES ASSUME NEW d \in Calls, calls'[d].pc = "scan" PROVE Seen(calls[d])'
    BY DEF ScanInv
  <2>1. Seen(calls'[d])
    <3>1. CASE d = c
      BY <3>1 DEF Set, Inv, TypeOK
    <3>2. CASE d # c
      <4>1. calls'[d] = calls[d]
        BY <3>2 DEF Set, Inv, TypeOK
      <4> QED
        BY <4>1 DEF Inv, ScanInv
    <3> QED
      BY <3>1, <3>2
  <2> QED
    BY <2>1 DEF Seen
<1> QED
  BY <1>2, <1>3, <1>4 DEF Inv

LEMMA WriteStep ==
    ASSUME Inv, NEW c \in Calls, NEW b \in Blocks, WriteStorage(c, b)
    PROVE  Inv'
<1>1. CASE Rejected(b)
  <2>1. keys' = keys /\ Set(c, Reject(b)) /\ UNCHANGED <<table, written>>
    BY <1>1 DEF WriteStorage, Listed
  <2>2. Reject(b) \in Call /\ Reject(b).pc = "idle"
    BY CallTypes DEF Reject, Call, NewCall
  <2> QED
    BY <2>1, <2>2, CallStep
<1>2. CASE ~Rejected(b)
  <2>. DEFINE h == Value[b]
  <2>1. b \in DOMAIN Value /\ FitsIn(Len(h), Int16Size) /\ LengthFits(h) /\ Len(keys) # MaxKeys
    BY <1>2 DEF Rejected, LengthFits
  <2>2. h \in Hash /\ h \in Buffer
    BY <2>1, ValueFacts, PrevReadsBack
  <2>3. /\ h \notin DOMAIN table /\ keys' = Append(keys, h)
        /\ table' = [k \in DOMAIN table \cup {h} |-> IF k = h THEN SlotOf(h) ELSE table[k]]
        /\ written' = [k \in DOMAIN written \cup {h} |-> IF k = h THEN b ELSE written[k]]
        /\ Set(c, [NewCall EXCEPT !.op = "write"])
    BY <1>2, <2>1 DEF WriteStorage, Listed, SlotOf
  <2>. HIDE DEF h
  <2>4. /\ DOMAIN table \subseteq Hash /\ DOMAIN written = DOMAIN table
        /\ \A k \in DOMAIN table : table[k] \in Buffer /\ Len(table[k]) = ValueSize
        /\ \A k \in DOMAIN written : written[k] \in Blocks
        /\ keys \in Seq(Hash) /\ Len(keys) <= MaxKeys /\ calls \in [Calls -> Call]
    BY DEF Inv, TypeOK
  <2>5. Len(keys) \in Nat /\ DOMAIN keys = 1 .. Len(keys)
    BY <2>4, LenProperties
  <2>6. /\ keys' \in Seq(Hash) /\ Len(keys') = Len(keys) + 1
        /\ \A i \in 1 .. Len(keys) : keys'[i] = keys[i]
        /\ keys'[Len(keys) + 1] = h
    BY <2>2, <2>3, <2>4, AppendProperties
  <2>7. SlotOf(h) \in Buffer /\ Len(SlotOf(h)) = ValueSize
    BY <2>1, <2>2, SlotReadsBack DEF h
  <2>8. /\ DOMAIN table' = DOMAIN table \cup {h} /\ DOMAIN written' = DOMAIN table \cup {h}
        /\ table'[h] = SlotOf(h) /\ written'[h] = b
        /\ \A k \in DOMAIN table : table'[k] = table[k] /\ written'[k] = written[k]
    BY <2>3, <2>4
  <2>9. calls' \in [Calls -> Call] /\ calls'[c].pc = "idle"
    <3>1. [NewCall EXCEPT !.op = "write"] \in Call /\ [NewCall EXCEPT !.op = "write"].pc = "idle"
      BY CallTypes DEF Call, NewCall
    <3> QED
      BY <2>3, <2>4, <3>1 DEF Set
  <2>10. TypeOK'
    <3>1. Len(keys') <= MaxKeys
      <4>1. MaxKeys \in Nat
        BY Sizes
      <4>. DEFINE n == Len(keys)
      <4>. HIDE DEF n
      <4>2. n \in Nat /\ n <= MaxKeys /\ n # MaxKeys
        BY <2>1, <2>4, <2>5 DEF n
      <4>3. n + 1 <= MaxKeys
        BY <4>1, <4>2
      <4>4. Len(keys) + 1 <= MaxKeys
        BY <4>3 DEF n
      <4> QED
        BY <2>6, <4>4
    <3>2. \A k \in DOMAIN table' : table'[k] \in Buffer /\ Len(table'[k]) = ValueSize
      BY <2>4, <2>7, <2>8
    <3>3. \A k \in DOMAIN written' : written'[k] \in Blocks
      BY <2>4, <2>8
    <3>4. DOMAIN table' \subseteq Hash /\ DOMAIN written' = DOMAIN table'
      BY <2>2, <2>4, <2>8
    <3> QED
      BY <2>6, <2>9, <3>1, <3>2, <3>3, <3>4 DEF TypeOK
  <2>11. IsFiniteSet(DOMAIN table') /\ KeysMatchTable'
    <3>1. /\ IsFiniteSet(DOMAIN table) /\ ToSet(keys) = DOMAIN table
          /\ Len(keys) = Cardinality(DOMAIN table)
      BY DEF Inv, KeysMatchTable
    <3>2. /\ IsFiniteSet(DOMAIN table \cup {h})
          /\ Cardinality(DOMAIN table \cup {h}) = Cardinality(DOMAIN table) + 1
      BY <2>3, <3>1, FS_AddElement
    <3>3. ToSet(keys') = DOMAIN table \cup {h}
      <4>1. DOMAIN keys' = 1 .. Len(keys) + 1
        BY <2>6, LenProperties
      <4>2. \A i \in 1 .. Len(keys) + 1 : i \in 1 .. Len(keys) \/ i = Len(keys) + 1
        BY <2>5
      <4>3. \A i \in 1 .. Len(keys) : i \in 1 .. Len(keys) + 1
        BY <2>5
      <4>4. Len(keys) + 1 \in 1 .. Len(keys) + 1
        BY <2>5
      <4>5. ToSet(keys') \subseteq DOMAIN table \cup {h}
        BY <2>5, <2>6, <3>1, <4>1, <4>2 DEF ToSet
      <4>6. DOMAIN table \cup {h} \subseteq ToSet(keys')
        BY <2>5, <2>6, <3>1, <4>1, <4>3, <4>4 DEF ToSet
      <4> QED
        BY <4>5, <4>6
    <3> QED
      BY <2>6, <2>8, <3>1, <3>2, <3>3 DEF KeysMatchTable
  <2>12. TableInv'
    <3> SUFFICES ASSUME NEW k \in DOMAIN table'
                 PROVE  /\ written'[k] \in DOMAIN Value /\ Value[written'[k]] = k
                        /\ LengthFits(k) /\ table'[k] = SlotOf(k)
      BY DEF TableInv
    <3>1. CASE k = h
      BY <2>1, <2>8, <3>1 DEF h
    <3>2. CASE k # h
      <4>1. k \in DOMAIN table
        BY <2>8, <3>2
      <4> QED
        BY <2>8, <4>1 DEF Inv, TableInv
    <3> QED
      BY <3>1, <3>2
  <2>13. ScanInv'
    <3> SUFFICES ASSUME NEW d \in Calls, calls'[d].pc = "scan" PROVE Seen(calls[d])'
      BY DEF ScanInv
    <3>1. calls'[d] = calls[d]
      BY <2>3, <2>4, <2>9 DEF Set
    <3>. DEFINE k == calls[d]
    <3>2. Seen(k)
      BY <3>1 DEF Inv, ScanInv
    <3>3. k.at \in 1 .. Len(keys) /\ k.at \in 1 .. Len(keys')
      BY <2>5, <2>6, <3>2 DEF Seen
    <3>4. \A i \in 1 .. k.at - 1 : i \in 1 .. Len(keys) /\ keys'[i] = keys[i]
      BY <2>5, <2>6, <3>3
    <3>5. \A i \in 1 .. k.at - 1 : written'[keys'[i]] = written[keys[i]]
      <4>1. \A i \in 1 .. Len(keys) : keys[i] \in DOMAIN table
        BY KeyFacts
      <4> QED
        BY <2>8, <3>4, <4>1
    <3>6. [i \in 1 .. k.at - 1 |-> Cut(keys'[i])] = [i \in 1 .. k.at - 1 |-> Cut(keys[i])]
      BY <3>4
    <3> QED
      BY <3>1, <3>2, <3>3, <3>5, <3>6 DEF Seen
  <2> QED
    BY <2>10, <2>11, <2>12, <2>13 DEF Inv
<1> QED
  BY <1>1, <1>2


LEMMA StartStep ==
    ASSUME Inv, NEW c \in Calls, NEW op \in {"map", "find"}, NEW prev \in Prev \cup {Null},
           StartScan(c, op, prev)
    PROVE  Inv'
<1>. DEFINE k == [NewCall EXCEPT !.op = op, !.pc = "scan", !.prev = prev, !.at = 1]
            m == IF keys = <<>> THEN Return(k) ELSE k
<1>1. Set(c, m) /\ UNCHANGED <<table, keys, written>>
  BY DEF StartScan
<1>2. k \in Call /\ k.at = 1 /\ k.op = op /\ k.values = <<>> /\ k.prev = prev
  <2>1. 1 \in 0 .. MaxKeys
    BY Sizes
  <2>2. <<>> \in Seq(Buffer)
    OBVIOUS
  <2> QED
    BY <2>1, <2>2 DEF NewCall, Call
<1>3. m \in Call /\ (m.pc = "scan" => keys # <<>> /\ m = k)
  <2>. HIDE DEF k
  <2>1. Return(k) \in Call /\ Return(k).pc = "idle"
    BY <1>2, CallTypes
  <2>2. CASE keys = <<>>
    BY <2>1, <2>2
  <2>3. CASE keys # <<>>
    BY <1>2, <2>3
  <2> QED
    BY <2>2, <2>3
<1>4. ASSUME m.pc = "scan" PROVE Seen(m)
  <2>1. keys \in Seq(Hash) /\ keys # <<>>
    BY <1>3, <1>4 DEF Inv, TypeOK
  <2>2. Len(keys) \in Nat \ {0}
    BY <2>1, EmptySeq
  <2>3. 1 \in 1 .. Len(keys) /\ 1 .. 1 - 1 = {}
    BY <2>2
  <2>. HIDE DEF k, m
  <2>4. <<>> = [i \in 1 .. k.at - 1 |-> Cut(keys[i])]
    <3>. DEFINE e == [i \in 1 .. k.at - 1 |-> Cut(keys[i])]
    <3>1. e = [i \in 1 .. 0 |-> e[i]] /\ \A i \in 1 .. 0 : e[i] \in Byte
      BY <1>2
    <3>. HIDE DEF e
    <3>2. e \in Buffer /\ Len(e) = 0
      BY <3>1, BytesAreBuffer
    <3>3. <<>> \in Seq(Byte) /\ Len(<<>>) = 0
      OBVIOUS
    <3>4. e = <<>>
      BY <3>2, <3>3, SeqEqual DEF Buffer
    <3> QED
      BY <3>4 DEF e
  <2>5. m = k
    BY <1>3, <1>4
  <2> QED
    BY <1>2, <2>3, <2>4, <2>5 DEF Seen
<1>. HIDE DEF k, m
<1> QED
  BY <1>1, <1>3, <1>4, CallStep

(* The values with the element at the place of the scan. *)
LEMMA MapValues ==
    ASSUME Inv, NEW c \in Calls, At(c, "scan"), calls[c].op = "map"
    PROVE  LET k == calls[c]
               v == Append(k.values, SlotValue(table[keys[k.at]]))
           IN  v \in Seq(Buffer) /\ v = [i \in 1 .. k.at |-> Cut(keys[i])]
<1>. DEFINE k == calls[c]
            n == k.at
            s == k.values
            e == SlotValue(table[keys[n]])
            v == Append(s, e)
            w == [i \in 1 .. n |-> Cut(keys[i])]
<1>1. Seen(k)
  BY DEF Inv, ScanInv, At
<1>2. n \in 1 .. Len(keys) /\ s = [i \in 1 .. n - 1 |-> Cut(keys[i])]
  BY <1>1 DEF Seen
<1>3. Len(keys) \in Nat /\ n \in Nat \ {0}
  BY <1>2, KeyFacts
<1>4. e = Cut(keys[n]) /\ \A i \in 1 .. n : Cut(keys[i]) \in Buffer
  <2>1. \A i \in 1 .. n : i \in 1 .. Len(keys)
    BY <1>2, <1>3
  <2> QED
    BY <1>2, <2>1, KeyFacts
<1>5. s \in Seq(Buffer)
  BY DEF Inv, TypeOK, Call
<1>. HIDE DEF n, e, s
<1>6. Len(s) = n - 1
  <2>1. DOMAIN s = 1 .. n - 1 /\ DOMAIN s = 1 .. Len(s) /\ Len(s) \in Nat
    BY <1>2, <1>5, LenProperties
  <2> QED
    BY <1>3, <2>1
<1>7. e \in Buffer
  BY <1>3, <1>4
<1>8. /\ v \in Seq(Buffer) /\ Len(v) = n
      /\ \A i \in 1 .. n - 1 : v[i] = s[i]
      /\ v[n] = e
  <2>1. /\ v \in Seq(Buffer) /\ Len(v) = Len(s) + 1
        /\ \A i \in 1 .. Len(s) : v[i] = s[i]
        /\ v[Len(s) + 1] = e
    BY <1>5, <1>7, AppendProperties
  <2>. HIDE DEF v
  <2>2. Len(s) + 1 = n
    BY <1>3, <1>6
  <2> QED
    BY <1>6, <2>1, <2>2
<1>. HIDE DEF v
<1>9. DOMAIN v = 1 .. n /\ v = [i \in 1 .. n |-> v[i]]
  <2>1. v \in [1 .. Len(v) -> Buffer]
    BY <1>8, LenProperties
  <2> QED
    BY <1>8, <2>1
<1>10. ASSUME NEW i \in 1 .. n PROVE v[i] = Cut(keys[i])
  <2>1. CASE i = n
    BY <1>4, <1>8, <2>1
  <2>2. CASE i # n
    <3>1. i \in 1 .. n - 1
      BY <1>3, <2>2
    <3> QED
      BY <1>2, <1>8, <3>1
  <2> QED
    BY <2>1, <2>2
<1>11. v = w
  BY <1>9, <1>10
<1> QED
  BY <1>8, <1>11 DEF v, s, e, n

LEMMA MapStep ==
    ASSUME Inv, NEW c \in Calls, MapNext(c)
    PROVE  Inv'
<1>. DEFINE k == calls[c]
            v == Append(k.values, SlotValue(table[keys[k.at]]))
            m == [k EXCEPT !.values = v]
            r == IF IsLastKey(k.at) THEN Return(m) ELSE [m EXCEPT !.at = @ + 1]
<1>1. At(c, "scan") /\ k.op = "map" /\ Set(c, r) /\ UNCHANGED <<table, keys, written>>
  BY DEF MapNext
<1>2. k \in Call /\ Seen(k)
  BY <1>1 DEF Inv, TypeOK, ScanInv, At
<1>3. v \in Seq(Buffer) /\ v = [i \in 1 .. k.at |-> Cut(keys[i])]
  BY <1>1, MapValues
<1>. HIDE DEF v
<1>4. m \in Call /\ m.at = k.at /\ m.values = v /\ m.op = k.op
  BY <1>2, <1>3, CallTypes DEF Call
<1>5. CASE IsLastKey(k.at)
  <2>1. r = Return(m) /\ r \in Call /\ r.pc # "scan"
    BY <1>4, <1>5, CallTypes DEF Return, Call
  <2>. HIDE DEF r, m, k
  <2> QED
    BY <1>1, <2>1, CallStep
<1>6. CASE ~IsLastKey(k.at)
  <2>1. /\ k.at \in 1 .. Len(keys) /\ Len(keys) \in Nat /\ Len(keys) <= MaxKeys
        /\ k.at # Len(keys)
    <3>1. k.at \in 1 .. Len(keys) /\ k.at # Len(keys)
      BY <1>2, <1>6 DEF Seen, IsLastKey
    <3> QED
      BY <3>1, KeyFacts
  <2>. DEFINE n == k.at
  <2>2. n + 1 \in 1 .. Len(keys) /\ n + 1 \in 0 .. MaxKeys /\ (n + 1) - 1 = n
    BY <2>1, Sizes
  <2>3. r = [m EXCEPT !.at = n + 1]
    BY <1>4, <1>6
  <2>. HIDE DEF r, m, n
  <2>4. r \in Call /\ r.at = n + 1 /\ r.values = v /\ r.op = "map"
    BY <1>1, <1>4, <2>2, <2>3, MovedCall
  <2>. HIDE DEF r, m, n
  <2>5. Seen(r)
    BY <1>3, <2>2, <2>4 DEF Seen, n
  <2>. HIDE DEF k
  <2> QED
    BY <1>1, <2>4, <2>5, CallStep
<1> QED
  BY <1>5, <1>6

LEMMA FindStep ==
    ASSUME Inv, NEW c \in Calls, FindNext(c)
    PROVE  Inv'
<1>. DEFINE k == calls[c]
            v == SlotValue(table[keys[k.at]])
            r == CASE Matches(k, v) -> Return([k EXCEPT !.values = <<v>>])
                   [] ~Matches(k, v) /\ IsLastKey(k.at) -> Return(k)
                   [] OTHER -> [k EXCEPT !.at = @ + 1]
<1>1. At(c, "scan") /\ k.op = "find" /\ Set(c, r) /\ UNCHANGED <<table, keys, written>>
  BY DEF FindNext
<1>2. k \in Call /\ Seen(k)
  BY <1>1 DEF Inv, TypeOK, ScanInv, At
<1>3. k.at \in 1 .. Len(keys)
  BY <1>2 DEF Seen
<1>4. /\ Len(keys) \in Nat /\ Len(keys) <= MaxKeys
      /\ v \in Buffer /\ ToPrev(v) = written[keys[k.at]].prev
  BY <1>3, KeyFacts
<1>. HIDE DEF v
<1>5. CASE Matches(k, v)
  <2>1. r = Return([k EXCEPT !.values = <<v>>])
    BY <1>5
  <2>2. <<v>> \in Seq(Buffer)
    BY <1>4
  <2>3. r \in Call /\ r.pc # "scan"
    <3>. HIDE DEF r
    <3> QED
      BY <1>2, <2>1, <2>2, AnsweredCall
  <2>. HIDE DEF r, k
  <2> QED
    BY <1>1, <2>3, CallStep
<1>6. CASE ~Matches(k, v) /\ IsLastKey(k.at)
  <2>1. r = Return(k)
    BY <1>6
  <2>2. r \in Call /\ r.pc # "scan"
    BY <1>2, <2>1, CallTypes
  <2>. HIDE DEF r, k
  <2> QED
    BY <1>1, <2>2, CallStep
<1>7. CASE ~Matches(k, v) /\ ~IsLastKey(k.at)
  <2>. DEFINE n == k.at
  <2>1. n \in 1 .. Len(keys) /\ n # Len(keys)
    BY <1>3, <1>7 DEF IsLastKey
  <2>2. n + 1 \in 1 .. Len(keys) /\ n + 1 \in 0 .. MaxKeys /\ (n + 1) - 1 = n
    BY <1>4, <2>1, Sizes
  <2>3. r = [k EXCEPT !.at = n + 1]
    BY <1>7
  <2>. HIDE DEF r, n
  <2>4. r \in Call /\ r.at = n + 1 /\ r.values = k.values /\ r.op = "find" /\ r.prev = k.prev
    BY <1>1, <1>2, <2>2, <2>3, MovedCall
  <2>5. k.values = <<>> /\ \A i \in 1 .. n - 1 : k.prev = Null \/ written[keys[i]].prev # k.prev
    BY <1>1, <1>2 DEF Seen, n
  <2>6. k.prev = Null \/ written[keys[n]].prev # k.prev
    BY <1>4, <1>7 DEF Matches, n
  <2>. HIDE DEF k
  <2>7. ASSUME NEW i \in 1 .. n PROVE k.prev = Null \/ written[keys[i]].prev # k.prev
    <3>1. i = n \/ i \in 1 .. n - 1
      BY <2>1
    <3> QED
      BY <2>5, <2>6, <3>1
  <2>8. Seen(r)
    BY <2>2, <2>4, <2>5, <2>7 DEF Seen
  <2> QED
    BY <1>1, <2>4, <2>8, CallStep
<1> QED
  BY <1>5, <1>6, <1>7

LEMMA Invariant == Spec => []Inv
<1>1. Inv /\ [Next]_vars => Inv'
  <2> SUFFICES ASSUME Inv, [Next]_vars PROVE Inv'
    OBVIOUS
  <2>1. CASE UNCHANGED vars
    BY <2>1 DEF vars, Inv, TypeOK, KeysMatchTable, TableInv, ScanInv, Seen
  <2>2. ASSUME NEW c \in Calls, NEW b \in Blocks, WriteStorage(c, b) PROVE Inv'
    BY <2>2, WriteStep
  <2>3. ASSUME NEW c \in Calls, StartScan(c, "map", Null) PROVE Inv'
    BY <2>3, StartStep
  <2>4. ASSUME NEW c \in Calls, NEW prev \in Prev, StartScan(c, "find", prev) PROVE Inv'
    BY <2>4, StartStep
  <2>5. ASSUME NEW c \in Calls, MapNext(c) PROVE Inv'
    BY <2>5, MapStep
  <2>6. ASSUME NEW c \in Calls, FindNext(c) PROVE Inv'
    BY <2>6, FindStep
  <2> QED
    BY <2>1, <2>2, <2>3, <2>4, <2>5, <2>6 DEF Next, Start
<1> QED
  BY <1>1, InitInv, PTL DEF Spec

(***************************************************************************)
(* What is read of a block that was written.                               *)
(***************************************************************************)
LEMMA StoredValue ==
    ASSUME Inv, NEW h \in ToSet(keys), Fits(h)
    PROVE  /\ written[h] \in DOMAIN Value /\ h \in Buffer
           /\ ReadStorage(h) = h /\ h = Encode(Sealed(written[h]))
<1>1. h \in DOMAIN table
  BY DEF Inv, KeysMatchTable
<1>. DEFINE b == written[h]
<1>2. b \in DOMAIN Value /\ Value[b] = h /\ FitsIn(Len(h), Int16Size) /\ table[h] = SlotOf(h)
  BY <1>1 DEF Inv, TableInv, LengthFits
<1>3. h = Encode(Sealed(b))
  BY <1>2 DEF Value
<1>. HIDE DEF b
<1>4. h \in Buffer
  BY <1>2, PrevReadsBack
<1>5. SlotValue(table[h]) = h
  BY <1>2, <1>4, SlotReadsBack, CutOrWhole
<1> QED
  BY <1>1, <1>2, <1>3, <1>4, <1>5 DEF ReadStorage, b

(* A block and what is encoded for it.                                     *)
LEMMA SealedBlock ==
    ASSUME NEW b \in DOMAIN Value
    PROVE  \E type \in ToSet(TypeNames) :
               /\ b \in BlockOf(type) /\ b.type = type
               /\ ~IsSealed(b) => Sealed(b) = b
               /\ IsSealed(b) =>
                      /\ b.data \in SealedData(type) /\ DataFits(type, b.data.plain)
                      /\ Sealed(b) = [b EXCEPT !.data =
                             EncryptBlockData(b.data.key, type, b.data.plain, b.data.random)]
<1>1. b \in Blocks /\ (IsSealed(b) => DataFits(b.type, b.data.plain))
  BY DEF Value, EncoderThrows
<1>2. PICK type \in ToSet(TypeNames) : b \in BlockOf(type)
  BY <1>1, StorageAssumption
<1>3. b.type = type
      /\ b.data \in {Null} \cup PlainData(type) \cup EncryptedData \cup SealedData(type)
  BY <1>2 DEF BlockOf
<1>4. ASSUME IsSealed(b) PROVE b.data \in SealedData(type)
  <2>. DEFINE d == b.data
  <2>1. d # Null /\ "plain" \in DOMAIN d
    BY <1>4 DEF IsSealed
  <2>2. d \notin PlainData(type) /\ d \notin EncryptedData
    BY <2>1, DataKinds
  <2> QED
    BY <1>3, <2>1, <2>2
<1>5. ASSUME IsSealed(b)
      PROVE  Sealed(b) = [b EXCEPT !.data =
                 EncryptBlockData(b.data.key, type, b.data.plain, b.data.random)]
  BY <1>3, <1>5 DEF Sealed
<1>6. ~IsSealed(b) => Sealed(b) = b
  BY DEF Sealed
<1> QED
  BY <1>1, <1>2, <1>3, <1>4, <1>5, <1>6

LEMMA NormalFields ==
    ASSUME NEW type, NEW b \in BlockOf(type)
    PROVE  Normal(b) =
               [seq |-> b.seq, prev |-> b.prev, nonce |-> b.nonce, timestamp |-> b.timestamp,
                parent |-> b.parent, layer |-> SecureLayer(b.layer), type |-> b.type,
                sig |-> NonEmpty(b.sig), data |-> NormalData(b.type, Plain(b))]
<1>. DEFINE l == SecureLayer(b.layer)
            s == NonEmpty(b.sig)
            d == NormalData(b.type, Plain(b))
            e == [b EXCEPT !.layer = l, !.sig = s, !.data = d]
            r == [seq |-> b.seq, prev |-> b.prev, nonce |-> b.nonce,
                  timestamp |-> b.timestamp, parent |-> b.parent, layer |-> l,
                  type |-> b.type, sig |-> s, data |-> d]
            fields == {"seq", "prev", "nonce", "timestamp", "parent", "layer", "type",
                       "sig", "data"}
<1>1. Normal(b) = e
  BY DEF Normal
<1>. HIDE DEF l, s, d
<1>2. DOMAIN b = fields
  BY DEF BlockOf
<1>3. /\ e.seq = r.seq /\ e.prev = r.prev /\ e.nonce = r.nonce
      /\ e.timestamp = r.timestamp /\ e.parent = r.parent /\ e.layer = r.layer
      /\ e.type = r.type /\ e.sig = r.sig /\ e.data = r.data
  BY <1>2
<1>4. e = [x \in fields |-> e[x]] /\ r = [x \in fields |-> r[x]]
  BY <1>2
<1>. HIDE DEF e, r
<1>5. e = r
  BY <1>3, <1>4
<1> QED
  BY <1>1, <1>5 DEF r, l, s, d

(* What a reader sees of a block that was written, by its data.            *)
LEMMA ReadsAsNormal ==
    ASSUME NEW b \in DOMAIN Value
    PROVE  Opened(b, Decode(Encode(Sealed(b)))) = Normal(b)
<1>. DEFINE e == Sealed(b)
            block == Decode(Encode(e))
            normal(d) == [seq |-> b.seq, prev |-> b.prev, nonce |-> b.nonce,
                          timestamp |-> b.timestamp, parent |-> b.parent,
                          layer |-> SecureLayer(b.layer), type |-> b.type,
                          sig |-> NonEmpty(b.sig), data |-> d]
<1>1. PICK type \in ToSet(TypeNames) :
          /\ b \in BlockOf(type) /\ b.type = type
          /\ ~IsSealed(b) => Sealed(b) = b
          /\ IsSealed(b) =>
                 /\ b.data \in SealedData(type) /\ DataFits(type, b.data.plain)
                 /\ Sealed(b) = [b EXCEPT !.data =
                        EncryptBlockData(b.data.key, type, b.data.plain, b.data.random)]
  BY SealedBlock
<1>2. Encodable(e)
  BY SealedIsEncodable
<1>3. e.seq = b.seq /\ e.prev = b.prev /\ e.nonce = b.nonce /\ e.timestamp = b.timestamp
      /\ e.parent = b.parent /\ e.layer = b.layer /\ e.type = b.type /\ e.sig = b.sig
  <2>1. CASE IsSealed(b)
    <3>. DEFINE x == EncryptBlockData(b.data.key, type, b.data.plain, b.data.random)
    <3>1. e = [b EXCEPT !.data = x]
      BY <1>1, <2>1
    <3>. HIDE DEF x, e
    <3> QED
      BY <1>1, <3>1 DEF BlockOf
  <2>2. CASE ~IsSealed(b)
    BY <1>1, <2>2
  <2> QED
    BY <2>1, <2>2
<1>4. block = normal(NormalData(b.type, e.data))
  <2>. HIDE DEF e
  <2>1. block = [seq |-> e.seq, prev |-> e.prev, nonce |-> e.nonce,
                 timestamp |-> e.timestamp, parent |-> e.parent,
                 layer |-> SecureLayer(e.layer), type |-> e.type,
                 sig |-> NonEmpty(e.sig), data |-> NormalData(e.type, e.data)]
    BY <1>2, BlockDecodes
  <2> QED
    BY <1>3, <2>1
<1>5. Normal(b) = normal(NormalData(b.type, Plain(b)))
  BY <1>1, NormalFields
<1>6. CASE ~IsSealed(b)
  <2>1. e = b /\ Plain(b) = b.data /\ Opened(b, block) = block
    BY <1>1, <1>6 DEF Plain, Opened
  <2> QED
    BY <1>4, <1>5, <2>1
<1>7. CASE IsSealed(b)
  <2>. DEFINE k == b.data.key
              p == b.data.plain
              bytes == FromData(type, p)
              x == Encrypt(k, bytes, b.data.random)
              c == [key |-> k, encryptedData |-> x]
  <2>1. /\ k \in Buffer /\ k # <<>> /\ p \in PlainData(type) /\ DataFits(type, p)
        /\ b.data.random \in Random
    BY <1>1, <1>7 DEF SealedData
  <2>2. bytes \in Buffer /\ ToData(type, bytes) = NormalData(type, p)
    BY <2>1, DataBytes, DataReads
  <2>3. x \in Buffer /\ Decrypt(k, x) = bytes
    <3>. HIDE DEF bytes
    <3> QED
      BY <2>1, <2>2, EncryptBytes, DecryptsBack
  <2>4. e.data = c
    <3>. DEFINE y == EncryptBlockData(k, type, p, b.data.random)
    <3>1. e = [b EXCEPT !.data = y] /\ y = c
      BY <1>1, <1>7 DEF EncryptBlockData
    <3>. HIDE DEF e, y, c
    <3> QED
      BY <1>1, <3>1 DEF BlockOf
  <2>. HIDE DEF e, x, k, bytes
  <2>5. NormalData(type, c) = [key |-> k, data |-> x]
    <3>1. c \in EncryptedData
      BY <2>1, <2>3 DEF EncryptedData
    <3>2. c # Null
      BY <3>1, StorageAssumption
    <3>3. IsEncrypted(c)
      BY <3>1, <3>2, EncryptedFacts
    <3>4. c.key = k /\ c.encryptedData = x /\ NonEmpty(k) = k
      BY <2>1 DEF NonEmpty
    <3>. HIDE DEF c
    <3> QED
      BY <3>2, <3>3, <3>4 DEF NormalData
  <2>6. block = normal([key |-> k, data |-> x])
    <3>. HIDE DEF block, normal
    <3> QED
      BY <1>1, <1>4, <2>4, <2>5
  <2>. DEFINE r == DecryptBlockData(type, x, k)
  <2>7. Opened(b, block) = normal(r)
    <3>1. Opened(b, block) =
              [block EXCEPT !.data = DecryptBlockData(b.type, @.data, @.key)]
      BY <1>7 DEF Opened
    <3>2. block.data.data = x /\ block.data.key = k
      BY <2>6
    <3>3. Opened(b, block) = [block EXCEPT !.data = r]
      BY <1>1, <3>1, <3>2
    <3>. HIDE DEF block, r
    <3> QED
      BY <2>6, <3>3
  <2>8. r = NormalData(type, p)
    <3>1. k # Null
      BY <2>1, Constants
    <3> QED
      BY <2>2, <2>3, <3>1 DEF DecryptBlockData
  <2>9. Plain(b) = p
    BY <1>7 DEF Plain
  <2>10. NormalData(b.type, Plain(b)) = r
    BY <1>1, <2>8, <2>9
  <2>. HIDE DEF r, block, normal
  <2>11. Opened(b, block) = Normal(b)
    BY <1>5, <2>7, <2>10
  <2> QED
    BY <2>11 DEF block, e
<1> QED
  BY <1>6, <1>7

(***************************************************************************)
(* The theorems.                                                           *)
(***************************************************************************)

(* The state has its types: a slot is a buffer of the size of a slot,      *)
(* whatever was written, and a scan collects buffers.                      *)
THEOREM StorageTypeCorrect == Spec => []TypeOK
BY Invariant, PTL DEF Inv

(* writeStorage lists a key exactly when it sets its slot, so the blocks   *)
(* that countBlocks counts are those the scans follow, each once.          *)
THEOREM KeysAreTheTable == Spec => []KeysMatchTable
BY Invariant, PTL DEF Inv

(* A value that was cut by its slot does not have the hash it is asked     *)
(* for, so readStorage gives nothing.                                      *)
THEOREM CutBlocksAreUnread == Spec => []CutBlocksUnread
<1>1. Inv => CutBlocksUnread
  <2> SUFFICES ASSUME Inv, NEW h \in ToSet(keys), ~Fits(h) PROVE ReadStorage(h) = Null
    BY DEF CutBlocksUnread
  <2>1. h \in DOMAIN table
    BY DEF Inv, KeysMatchTable
  <2>. DEFINE b == written[h]
  <2>2. b \in DOMAIN Value /\ Value[b] = h /\ FitsIn(Len(h), Int16Size) /\ table[h] = SlotOf(h)
    BY <2>1 DEF Inv, TableInv, LengthFits
  <2>. HIDE DEF b
  <2>3. h \in Buffer
    BY <2>2, PrevReadsBack
  <2>4. SlotValue(table[h]) = Cut(h) /\ Cut(h) # h
    BY <2>2, <2>3, SlotReadsBack, CutOrWhole
  <2> QED
    BY <2>4 DEF ReadStorage
<1> QED
  BY <1>1, Invariant, PTL

(* A value that fits its slot is read as the bytes that were written, and  *)
(* these are the bytes of the block they were written for.                 *)
BytesReadBack ==
    \A h \in ToSet(keys) : Fits(h) =>
        ReadStorage(h) = h /\ ReadStorage(h) = Encode(Sealed(written[h]))

THEOREM ValuesReadBack == Spec => []BytesReadBack
<1>1. Inv => BytesReadBack
  BY StoredValue DEF BytesReadBack
<1> QED
  BY <1>1, Invariant, PTL

(* Every block that a reader gets is the block that was written, field by  *)
(* field, whatever its type, also when its data were encrypted on the way: *)
(* the decoders undo the encoders at every length, at the limits of every  *)
(* field, and no other call can come between a block and its slot.         *)
THEOREM BlocksReadBack == Spec => []ReadBack
<1>1. Inv => ReadBack
  <2> SUFFICES ASSUME Inv, NEW h \in ToSet(keys), Fits(h)
               PROVE  ReadStorage(h) # Null /\ Read(written[h], h) = Normal(written[h])
    BY DEF ReadBack
  <2>. DEFINE b == written[h]
  <2>1. b \in DOMAIN Value /\ h \in Buffer /\ ReadStorage(h) = h /\ h = Encode(Sealed(b))
    BY StoredValue
  <2>2. ReadStorage(h) # Null
    BY <2>1, Constants
  <2>3. Read(b, h) = Opened(b, Decode(Encode(Sealed(b))))
    BY <2>1 DEF Read
  <2>. HIDE DEF b
  <2>4. Read(b, h) = Normal(b)
    BY <2>1, <2>3, ReadsAsNormal
  <2> QED
    BY <2>2, <2>4 DEF b
<1> QED
  BY <1>1, Invariant, PTL

(* A signer makes its signature with signBlock, for the parent and the     *)
(* prev that the block is stored with: validateSignature has verified it   *)
(* for these before the block is written.                                  *)
SignersSign ==
    \A b \in Blocks : b.sig # Null =>
        \E key \in Buffer \ {<<>>}, nonce \in Buffer :
            /\ FitsIn(Len(key), Int16Size) /\ Len(nonce) = Int64Size
            /\ b.sig = SignBlock(key, b.parent, b.prev, nonce)

VerifiesWith(sig, key, parent, prev) ==
    /\ sig \in Buffer /\ sig # <<>> /\ sig # Null
    /\ \A k : VerifySignedBlock(sig, k, parent, prev) <=> k \in {Null, key}

LEMMA SignatureReads ==
    ASSUME NEW key \in Buffer \ {<<>>}, FitsIn(Len(key), Int16Size),
           NEW nonce \in Buffer, Len(nonce) = Int64Size,
           NEW parent \in HashValue \cup {Null}, NEW prev \in HashValue \cup {Null},
           NEW sig, sig = SignBlock(key, parent, prev, nonce)
    PROVE  VerifiesWith(sig, key, parent, prev)
<1>. DEFINE p == FromVarBinary(key)
            message == Message(nonce, parent, prev)
            r == Sign(key, message)
            u == nonce \o p
            signer == ToVarBinary(sig, Int64Size + 1)
<1>1. key \in Buffer /\ key # <<>> /\ key \in MaybeBuffer /\ FitsVar(key)
  BY DEF MaybeBuffer, FitsVar
<1>2. p \in Buffer
  BY <1>1, VarBinaryBytes
<1>3. r \in Buffer
  <2>. DEFINE v == Optional(parent)
              w == Optional(prev)
  <2>1. v \in Buffer /\ w \in Buffer
    <3>1. parent \in MaybeBuffer /\ prev \in MaybeBuffer
      BY DEF HashValue, MaybeBuffer
    <3> QED
      BY <3>1, VarBinaryBytes
  <2>2. message = (nonce \o v) \o w
    BY DEF Message
  <2>. HIDE DEF v, w, message
  <2>3. nonce \o v \in Buffer
    BY <2>1, Concat
  <2>4. message \in Buffer
    BY <2>1, <2>2, <2>3, Concat
  <2>5. key \o message \in Buffer
    BY <1>1, <2>4, Concat
  <2>6. Digest(key \o message) \in Nat
    BY <2>5, DigestIsNat
  <2> QED
    BY <2>6, FromIntBytes, Constants DEF Sign
<1>4. sig = u \o r
  BY DEF SignBlock
<1>. HIDE DEF p, message, r
<1>5. u \in Buffer /\ Len(u) = Int64Size + Len(p) /\ Len(p) \in Nat
  BY <1>2, Concat
<1>. HIDE DEF u
<1>6. sig \in Buffer /\ Len(sig) = Len(u) + Len(r) /\ Len(r) \in Nat
  <2>1. u \in Buffer /\ r \in Buffer
    BY <1>3, <1>5
  <2>2. u \o r \in Buffer /\ Len(u \o r) = Len(u) + Len(r) /\ Len(r) \in Nat
    BY <2>1, Concat
  <2> QED
    BY <1>4, <2>2
<1>7. Ends(sig, 1, u \o r)
  BY <1>4, <1>6, EndsWhole
<1>8. Holds(sig, 1, u) /\ Ends(sig, 1 + Len(u), r)
  BY <1>3, <1>5, <1>6, <1>7, EndsSplit
<1>9. Holds(sig, 1, nonce) /\ Holds(sig, 1 + Int64Size, p)
  BY <1>2, <1>6, <1>8, HoldsSplit DEF u
<1>10. 1 + Int64Size = Int64Size + 1 /\ 1 + Int64Size - 1 = Int64Size
       /\ Int64Size + 1 + Len(p) = 1 + Len(u)
  BY <1>5, Constants
<1>11. Slice(sig, 1, Int64Size) = nonce
  <2>1. Slice(sig, 1, 1 + Int64Size - 1) = nonce
    BY <1>6, <1>9, SliceHolds
  <2> QED
    BY <1>10, <2>1
<1>12. signer.result = key /\ signer.index = 1 + Len(u)
  <2>1. Holds(sig, Int64Size + 1, p)
    BY <1>9, <1>10
  <2>2. signer.result = NonEmpty(key) /\ signer.index = Int64Size + 1 + Len(p)
    BY <1>1, <1>6, <2>1, VarReads DEF p
  <2> QED
    BY <1>1, <1>10, <2>2 DEF NonEmpty
<1>13. From(sig, signer.index) = r
  <2>1. Ends(sig, signer.index, r)
    BY <1>8, <1>12
  <2>. HIDE DEF signer
  <2> QED
    BY <1>3, <1>6, <2>1, FromEnds
<1>14. sig # <<>> /\ sig # Null
  <2>1. Len(sig) # 0
    BY <1>5, <1>6, Constants
  <2> QED
    BY <1>6, <2>1, EmptySeq, Constants
<1>15. Verify(signer.result, From(sig, signer.index), Message(Slice(sig, 1, Int64Size), parent, prev))
  BY <1>11, <1>12, <1>13 DEF Verify, r, message
<1>16. ASSUME NEW k PROVE VerifySignedBlock(sig, k, parent, prev) <=> k \in {Null, key}
  BY <1>12, <1>14, <1>15 DEF VerifySignedBlock
<1> QED
  BY <1>6, <1>14, <1>16 DEF VerifiesWith

(* A block that is read back still verifies with its signer's key, and     *)
(* with no longer one: the prev and the parent that its signer left out of *)
(* the message come back as Null from the zeros they are stored as, and    *)
(* the key comes back from the middle of the signature.                    *)
THEOREM SignaturesStillVerify ==
    ASSUME SignersSign
    PROVE  Spec => []SignaturesVerify
<1>1. Inv => SignaturesVerify
  <2> SUFFICES ASSUME Inv, NEW h \in ToSet(keys), Fits(h), written[h].sig # Null
               PROVE  LET b == Decode(ReadStorage(h))
                          signer == KeyOfSignature(written[h].sig)
                      IN  \A key \in {signer, Append(signer, 0)} :
                              VerifySignedBlock(b.sig, key, b.parent, b.prev) <=> key = signer
    BY DEF SignaturesVerify
  <2>. DEFINE b == written[h]
              e == Sealed(b)
              d == Decode(ReadStorage(h))
  <2>1. b \in DOMAIN Value /\ ReadStorage(h) = Encode(e)
    BY StoredValue
  <2>2. PICK type : b \in BlockOf(type)
    BY <2>1, SealedBlock
  <2>3. Encodable(e)
    BY <2>1, SealedIsEncodable
  <2>4. e.parent = b.parent /\ e.prev = b.prev /\ e.sig = b.sig
    BY <2>2 DEF Sealed, BlockOf
  <2>5. PICK key \in Buffer \ {<<>>}, nonce \in Buffer :
            /\ FitsIn(Len(key), Int16Size) /\ Len(nonce) = Int64Size
            /\ b.sig = SignBlock(key, b.parent, b.prev, nonce)
    BY <2>1, ValueFacts DEF SignersSign
  <2>. HIDE DEF b, e
  <2>6. d.parent = b.parent /\ d.prev = b.prev /\ d.sig = NonEmpty(b.sig)
    BY <2>1, <2>3, <2>4, BlockDecodes
  <2>7. b.parent \in HashValue \cup {Null} /\ b.prev \in HashValue \cup {Null}
    BY <2>3, <2>4 DEF Encodable
  <2>8. /\ b.sig \in Buffer /\ b.sig # <<>> /\ KeyOfSignature(b.sig) = key
        /\ \A k : VerifySignedBlock(b.sig, k, b.parent, b.prev) <=> k \in {Null, key}
    <3>1. PICK parent \in {b.parent}, prev \in {b.prev}, sig \in {b.sig} : TRUE
      OBVIOUS
    <3>2. /\ parent \in HashValue \cup {Null} /\ prev \in HashValue \cup {Null}
          /\ sig = SignBlock(key, parent, prev, nonce)
          /\ FitsIn(Len(key), Int16Size) /\ Len(nonce) = Int64Size
      BY <2>5, <2>7
    <3>3. VerifiesWith(sig, key, parent, prev)
      BY <3>2, SignatureReads
    <3>4. VerifySignedBlock(sig, key, parent, prev)
      BY <3>3 DEF VerifiesWith
    <3>5. key \in {Null, KeyOfSignature(sig)}
      BY <3>4, Zenon DEF VerifySignedBlock, KeyOfSignature
    <3>6. KeyOfSignature(sig) = key
      BY <3>5, Constants DEF Buffer
    <3> QED
      BY <3>3, <3>6 DEF VerifiesWith
  <2>9. key # Null /\ Append(key, 0) # Null /\ Append(key, 0) # key
    <3>1. key \in Seq(Byte) /\ 0 \in Byte /\ Len(key) \in Nat
      BY BufferLen, Constants DEF Buffer
    <3>2. Append(key, 0) \in Buffer /\ Len(Append(key, 0)) = Len(key) + 1
      BY <3>1, AppendProperties DEF Buffer
    <3>3. Len(key) + 1 # Len(key)
      BY <3>1
    <3> QED
      BY <3>1, <3>2, <3>3, Constants DEF Buffer
  <2>. HIDE DEF d
  <2>10. d.sig = b.sig
    BY <2>6, <2>8 DEF NonEmpty
  <2>11. \A k \in {key, Append(key, 0)} :
             VerifySignedBlock(d.sig, k, d.parent, d.prev) <=> k = key
    BY <2>6, <2>8, <2>9, <2>10
  <2> QED
    BY <2>8, <2>11 DEF b, d
<1> QED
  BY <1>1, Invariant, PTL

(* What a scan returns at its last step is what it would answer if it read *)
(* the list at that moment only.                                           *)
LEMMA MapEnds ==
    ASSUME Inv, NEW c \in Calls, MapNext(c), ~At(c, "scan")'
    PROVE  calls[c].op = calls'[c].op /\ calls'[c].values = Answer(calls[c])
<1>. DEFINE k == calls[c]
            v == Append(k.values, SlotValue(table[keys[k.at]]))
            m == [k EXCEPT !.values = v]
            r == IF IsLastKey(k.at) THEN Return(m) ELSE [m EXCEPT !.at = @ + 1]
<1>1. At(c, "scan") /\ k.op = "map" /\ Set(c, r)
  BY DEF MapNext
<1>2. k \in Call /\ Seen(k)
  BY <1>1 DEF Inv, TypeOK, ScanInv, At
<1>3. v \in Seq(Buffer) /\ v = [i \in 1 .. k.at |-> Cut(keys[i])]
  BY <1>1, MapValues
<1>. HIDE DEF v
<1>4. m \in Call /\ m.values = v /\ m.op = k.op /\ m.pc = "scan"
  BY <1>1, <1>2, <1>3, CallTypes DEF Call, At
<1>5. calls'[c] = r
  BY <1>1 DEF Set, Inv, TypeOK
<1>6. IsLastKey(k.at)
  <2>1. ASSUME ~IsLastKey(k.at) PROVE r.pc = "scan"
    BY <1>4, <2>1 DEF Call
  <2> QED
    BY <1>5, <2>1 DEF At
<1>7. r.op = k.op /\ r.values = v
  BY <1>4, <1>6 DEF Return, Call
<1>8. k.at = Len(keys) /\ DOMAIN keys = 1 .. Len(keys)
  <2>1. keys \in Seq(Hash)
    BY DEF Inv, TypeOK
  <2> QED
    BY <1>6, <2>1, LenProperties DEF IsLastKey
<1>9. Answer(k) = [i \in DOMAIN keys |-> Cut(keys[i])]
  BY <1>1 DEF Answer, Cut
<1> QED
  BY <1>3, <1>5, <1>7, <1>8, <1>9

LEMMA FindEnds ==
    ASSUME Inv, NEW c \in Calls, FindNext(c), ~At(c, "scan")'
    PROVE  calls[c].op = calls'[c].op /\ calls'[c].values = Answer(calls[c])
<1>. DEFINE k == calls[c]
            n == k.at
            v == SlotValue(table[keys[n]])
            r == CASE Matches(k, v) -> Return([k EXCEPT !.values = <<v>>])
                   [] ~Matches(k, v) /\ IsLastKey(n) -> Return(k)
                   [] OTHER -> [k EXCEPT !.at = @ + 1]
            hits == {i \in DOMAIN keys : k.prev # Null /\ written[keys[i]].prev = k.prev}
<1>1. At(c, "scan") /\ k.op = "find" /\ Set(c, r)
  BY DEF FindNext
<1>2. k \in Call /\ Seen(k) /\ k.pc = "scan"
  BY <1>1 DEF Inv, TypeOK, ScanInv, At
<1>3. /\ n \in 1 .. Len(keys) /\ k.values = <<>>
      /\ \A i \in 1 .. n - 1 : k.prev = Null \/ written[keys[i]].prev # k.prev
  BY <1>1, <1>2 DEF Seen
<1>4. Len(keys) \in Nat /\ v = Cut(keys[n]) /\ ToPrev(v) = written[keys[n]].prev
  BY <1>3, KeyFacts
<1>5. DOMAIN keys = 1 .. Len(keys)
  BY LenProperties DEF Inv, TypeOK
<1>6. calls'[c] = r
  BY <1>1 DEF Set, Inv, TypeOK
<1>7. Answer(k) = IF hits = {} THEN <<>> ELSE <<Cut(keys[Min(hits)])>>
  BY <1>1 DEF Answer, Cut
<1>. HIDE DEF v
<1>8. CASE Matches(k, v)
  <2>1. r = Return([k EXCEPT !.values = <<v>>])
    BY <1>8
  <2>2. r.op = k.op /\ r.values = <<v>>
    BY <1>2, <2>1 DEF Return, Call
  <2>3. n \in hits
    BY <1>3, <1>4, <1>5, <1>8 DEF Matches
  <2>4. \A i \in hits : n <= i
    BY <1>3, <1>4, <1>5
  <2>5. Min(hits) = n
    <3>1. \A i \in hits : i \in Nat
      BY <1>5
    <3>2. n \in Nat
      BY <1>3, <1>4
    <3>. HIDE DEF hits, n
    <3>3. \A x \in hits : (\A y \in hits : x <= y) => x = n
      BY <2>3, <2>4, <3>1, <3>2
    <3> QED
      BY <2>3, <2>4, <3>3 DEF Min
  <2>6. hits # {}
    BY <2>3
  <2>. HIDE DEF hits, r
  <2> QED
    BY <1>4, <1>6, <1>7, <2>2, <2>5, <2>6
<1>9. CASE ~Matches(k, v) /\ IsLastKey(n)
  <2>1. r = Return(k)
    BY <1>9
  <2>2. r.op = k.op /\ r.values = <<>>
    BY <1>2, <1>3, <2>1 DEF Return, Call
  <2>3. hits = {}
    <3>1. n = Len(keys)
      BY <1>9 DEF IsLastKey
    <3>2. ASSUME NEW i \in 1 .. Len(keys) PROVE k.prev = Null \/ written[keys[i]].prev # k.prev
      <4>1. i = n \/ i \in 1 .. n - 1
        BY <1>4, <3>1
      <4> QED
        BY <1>3, <1>4, <1>9, <4>1 DEF Matches
    <3> QED
      BY <1>5, <3>2
  <2>. HIDE DEF hits, r
  <2> QED
    BY <1>6, <1>7, <2>2, <2>3
<1>10. CASE ~Matches(k, v) /\ ~IsLastKey(n)
  <2>1. r = [k EXCEPT !.at = @ + 1]
    BY <1>10
  <2>2. r.pc = "scan"
    BY <1>2, <2>1 DEF Call
  <2> QED
    BY <1>6, <2>2 DEF At
<1> QED
  BY <1>8, <1>9, <1>10

(* A scan awaits every element and writers run in between; yet it answers  *)
(* what it would in one step at its end, because it ends only at the end   *)
(* of the list as it then is.                                              *)
THEOREM ScansAreAtomic == Spec => ScanIsAtomic
<1>. DEFINE Step == \A c \in Calls : At(c, "scan") /\ ~At(c, "scan")' =>
                        calls[c].op = calls'[c].op /\ calls'[c].values = Answer(calls[c])
<1>1. Inv /\ [Next]_vars => [Step]_vars
  <2> SUFFICES ASSUME Inv, Next, NEW c \in Calls, At(c, "scan"), ~At(c, "scan")'
               PROVE  calls[c].op = calls'[c].op /\ calls'[c].values = Answer(calls[c])
    OBVIOUS
  <2>1. calls \in [Calls -> Call]
    BY DEF Inv, TypeOK
  <2>2. ASSUME NEW d \in Calls, NEW k, Set(d, k), d # c PROVE FALSE
    <3>1. calls'[c] = calls[c]
      BY <2>1, <2>2 DEF Set
    <3> QED
      BY <3>1 DEF At
  <2>3. PICK d \in Calls : Start(d) \/ MapNext(d) \/ FindNext(d)
    BY DEF Next
  <2>4. d = c
    <3>1. \E k : Set(d, k)
      BY <2>3 DEF Start, WriteStorage, StartScan, MapNext, FindNext
    <3> QED
      BY <2>2, <3>1
  <2>5. ~Start(c)
    BY DEF Start, WriteStorage, StartScan, At
  <2>6. MapNext(c) \/ FindNext(c)
    BY <2>3, <2>4, <2>5
  <2> QED
    BY <2>6, MapEnds, FindEnds
<1>2. Spec => [][Step]_vars
  <2>. HIDE DEF Step
  <2> QED
    BY <1>1, Invariant, PTL DEF Spec
<1> QED
  BY <1>2 DEF ScanIsAtomic
=============================================================================
