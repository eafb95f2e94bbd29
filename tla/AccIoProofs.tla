---------------------------- MODULE AccIoProofs ----------------------------
(***************************************************************************)
(* What AccIoReadProofs and AccIoWriteProofs share: the arithmetic of the  *)
(* ring of buffers and of the chunks, and what the loops over the vectors  *)
(* (AccIo) compute, for every number and length of vectors.                *)
(***************************************************************************)
EXTENDS AccIo, SequenceTheorems, WellFoundedInduction, TLAPS

-----------------------------------------------------------------------------
(* Where the loops over the vectors stand.                                 *)

\* The unit at position "at".
Place(iov, at) == First(iov)[at.num] + at.done

\* Positions the loops can be at: inside a vector, or behind the last.
Positions(iov) ==
    {at \in Position :
        /\ at.num <= Len(iov) + 1
        /\ at.num <= Len(iov) => at.done <= iov[at.num]
        /\ at.num = Len(iov) + 1 => at.done = 0}

-----------------------------------------------------------------------------
(* The ring: chunk c is in buffer c % NParas.                              *)

\* Quotient and remainder of a chunk's number, as the ring divides it.
LEMMA Division ==
    ASSUME NEW N \in Nat \ {0}, NEW c \in Int
    PROVE  \E q \in Int : c = N * q + (c % N) /\ c % N \in 0 .. N - 1
<1>1. c = N * (c \div N) + (c % N) /\ c \div N \in Int /\ (c % N) \in 0 .. N - 1
  OBVIOUS
<1> QED
  BY <1>1

\* The remainder is the only one in its range.
LEMMA Remainder ==
    ASSUME NEW N \in Nat \ {0}, NEW c \in Int, NEW q \in Int, NEW r \in 0 .. N - 1,
           c = N * q + r
    PROVE  c % N = r
<1>1. PICK p \in Int : c = N * p + (c % N) /\ c % N \in 0 .. N - 1
  BY Division
<1>2. (q < p => N * q + N <= N * p) /\ (p < q => N * p + N <= N * q) /\ c % N \in Int
  OBVIOUS
<1> QED
  BY <1>1, <1>2

\* Once around the ring.
LEMMA RingStep ==
    ASSUME NEW N \in Nat \ {0}, NEW c \in Int
    PROVE  (c + N) % N = c % N
<1>1. PICK q \in Int : c = N * q + (c % N) /\ c % N \in 0 .. N - 1
  BY Division
<1>2. c + N = N * (q + 1) + (c % N) /\ c + N \in Int /\ q + 1 \in Int
  BY <1>1
<1> QED
  BY <1>1, <1>2, Remainder

\* Fewer than NParas chunks have buffers of their own.
LEMMA RingDistinct ==
    ASSUME NEW N \in Nat \ {0}, NEW c \in Int, NEW d \in Int,
           c <= d, d < c + N, c % N = d % N
    PROVE  c = d
<1>1. PICK p \in Int : c = N * p + (c % N) /\ c % N \in 0 .. N - 1
  BY Division
<1>2. PICK q \in Int : d = N * q + (d % N) /\ d % N \in 0 .. N - 1
  BY Division
<1>3. (p < q => N * p + N <= N * q) /\ (q < p => N * q + N <= N * p)
  OBVIOUS
<1>4. c % N \in Int /\ N * p \in Int /\ N * q \in Int
  OBVIOUS
<1>5. p = q
  BY <1>1, <1>2, <1>3, <1>4
<1> QED
  BY <1>1, <1>2, <1>5

\* To go on from a chunk's buffer is to go on from the chunk.
LEMMA RingSum ==
    ASSUME NEW N \in Nat \ {0}, NEW c \in Int, NEW d \in Int
    PROVE  ((c % N) + d) % N = (c + d) % N
<1>1. PICK p \in Int : c = N * p + (c % N) /\ c % N \in 0 .. N - 1
  BY Division
<1>2. PICK r \in Int : r = (c % N) + d
  BY <1>1
<1>3. PICK q \in Int : r = N * q + (r % N) /\ r % N \in 0 .. N - 1
  BY Division
<1>4. c + d = N * (p + q) + (r % N) /\ c + d \in Int /\ p + q \in Int
  BY <1>1, <1>2, <1>3
<1>5. (c + d) % N = r % N
  BY <1>3, <1>4, Remainder
<1> QED
  BY <1>2, <1>5

\* The first N chunks are in the buffers with their numbers.
LEMMA RingFirst ==
    ASSUME NEW N \in Nat \ {0}, NEW c \in 0 .. N - 1
    PROVE  c % N = c
OBVIOUS

-----------------------------------------------------------------------------
(* Chunks.                                                                 *)

\* What is left for the last chunk fits a buffer and is not nothing.
LEMMA ChunkSizes ==
    ASSUME NEW count \in Nat, NEW i \in Nat, i < Chunks(count)
    PROVE  /\ Chunks(count) \in Nat
           /\ ChunkSize(count, i) \in 1 .. Paras
           /\ Paras * i + ChunkSize(count, i) <= count
           /\ i + 1 < Chunks(count) => ChunkSize(count, i) = Paras
           /\ i + 1 = Chunks(count) => Paras * i + ChunkSize(count, i) = count
<1> USE SizesAssumption
<1> DEFINE n == Chunks(count)
<1>1. n \in Int /\ Paras * n <= count + Paras - 1 /\ count + Paras - 1 < Paras * n + Paras
  BY DEF Chunks
<1> HIDE DEF n
<1>2. Paras * (n - 1) = Paras * n - Paras
  BY <1>1
<1>3. i < n - 1 => Paras * i + Paras <= Paras * (n - 1)
  BY <1>1
<1>4. i = n - 1 => Paras * i = Paras * n - Paras
  BY <1>2
<1>5. Paras * i \in Nat /\ Paras * n \in Int /\ i < n
  BY <1>1 DEF n
<1>6. CASE i = n - 1
  BY <1>1, <1>4, <1>5, <1>6 DEF ChunkSize, n
<1>7. CASE i < n - 1
  BY <1>1, <1>2, <1>3, <1>5, <1>7 DEF ChunkSize, n
<1> QED
  BY <1>1, <1>5, <1>6, <1>7

-----------------------------------------------------------------------------
(* Induction over an interval, for one set at a time.                      *)

\* What holds of a, and of n + 1 when it holds of n, holds from a on: the
\* least number it fails for would have a predecessor.
LEMMA IntervalInduction ==
    ASSUME NEW a \in Int, NEW b \in Int, NEW S, a \in S,
           \A n \in a .. b : n \in S => n + 1 \in S
    PROVE  \A n \in a .. b + 1 : n \in S
<1> SUFFICES ASSUME NEW n \in a .. b + 1, n \notin S PROVE FALSE
  OBVIOUS
<1> DEFINE Out == {d \in Nat : a + d \in a .. b + 1 /\ a + d \notin S}
<1>1. n - a \in Out
  OBVIOUS
<1>2. PICK m \in Out : \A d \in Out : ~(<<d, m>> \in OpToRel(<, Nat))
  <2>1. Out \subseteq Nat /\ Out # {}
    BY <1>1
  <2> HIDE DEF Out
  <2> QED
    BY <2>1, NatLessThanWellFounded, WFMin, Zenon
<1>3. \A d \in Out : ~(d < m)
  BY <1>2 DEF OpToRel
<1>4. m \in Nat /\ a + m \in a .. b + 1 /\ a + m \notin S
  BY <1>2
<1>5. m # 0
  BY <1>4
<1>6. m - 1 \in Nat /\ a + (m - 1) \in a .. b /\ m - 1 < m
  BY <1>4, <1>5
<1>7. a + (m - 1) \in S
  BY <1>3, <1>6
<1> QED
  BY <1>4, <1>6, <1>7

\* A set of numbers that is not empty has a least one.
LEMMA LeastOf ==
    ASSUME NEW S \in SUBSET Nat, S # {}
    PROVE  \E e \in S : \A f \in S : e <= f
<1>1. PICK m \in S : \A d \in S : ~(<<d, m>> \in OpToRel(<, Nat))
  BY NatLessThanWellFounded, WFMin, Zenon
<1>2. \A d \in S : ~(d < m)
  BY <1>1 DEF OpToRel
<1> QED
  BY <1>2

-----------------------------------------------------------------------------
(* The vectors of a request.                                               *)

\* First is what its definition says: a function that does exists.
LEMMA FirstDef ==
    ASSUME NEW iov \in Seq(Nat)
    PROVE  /\ Len(iov) \in Nat
           /\ First(iov)[1] = 0
           /\ \A n \in 1 .. Len(iov) + 1 : First(iov)[n] \in Nat
           /\ \A n \in 1 .. Len(iov) :
                  iov[n] \in Nat /\ First(iov)[n + 1] = First(iov)[n] + iov[n]
<1> DEFINE L == Len(iov)
           Sums(m) == {f \in [1 .. m -> Nat] :
                          f[1] = 0 /\ \A n \in 1 .. m - 1 : f[n + 1] = f[n] + iov[n]}
           S == {m \in 1 .. L + 1 : Sums(m) # {}}
<1>1. L \in Nat /\ \A n \in 1 .. L : iov[n] \in Nat
  OBVIOUS
<1>2. 1 \in S
  <2>1. [n \in 1 .. 1 |-> 0] \in Sums(1)
    OBVIOUS
  <2> QED
    BY <1>1, <2>1
<1>3. ASSUME NEW m \in 1 .. L, m \in S PROVE m + 1 \in S
  <2>1. PICK f \in [1 .. m -> Nat] : f[1] = 0 /\ \A n \in 1 .. m - 1 : f[n + 1] = f[n] + iov[n]
    BY <1>3
  <2> DEFINE g == [n \in 1 .. m + 1 |-> IF n = m + 1 THEN f[m] + iov[m] ELSE f[n]]
  <2>2. f[m] \in Nat /\ iov[m] \in Nat /\ m \in Nat /\ m >= 1
    BY <1>1, <2>1
  <2>3. g \in [1 .. m + 1 -> Nat] /\ g[1] = 0
    BY <2>1, <2>2
  <2>4. ASSUME NEW n \in 1 .. m PROVE g[n + 1] = g[n] + iov[n]
    BY <2>1, <2>2
  <2>5. (m + 1) - 1 = m /\ m + 1 \in 1 .. L + 1
    BY <1>1, <2>2
  <2> HIDE DEF g
  <2>6. g \in Sums(m + 1)
    BY <2>3, <2>4, <2>5
  <2> QED
    BY <2>5, <2>6
<1>4. L + 1 \in S
  <2> HIDE DEF S
  <2>1. 1 \in Int /\ L \in Int /\ \A m \in 1 .. L : m \in S => m + 1 \in S
    BY <1>1, <1>3
  <2>2. \A m \in 1 .. L + 1 : m \in S
    BY <1>2, <2>1, IntervalInduction, Zenon
  <2> QED
    BY <1>1, <2>2
<1>5. PICK h \in [1 .. L + 1 -> Nat] : h[1] = 0 /\ \A n \in 1 .. L : h[n + 1] = h[n] + iov[n]
  BY <1>1, <1>4
<1> DEFINE Eq(f) == f = [n \in 1 .. Len(iov) + 1 |-> IF n = 1 THEN 0 ELSE f[n - 1] + iov[n - 1]]
<1>6. ASSUME NEW n \in 1 .. L + 1, n # 1 PROVE h[n] = h[n - 1] + iov[n - 1]
  <2>1. n - 1 \in 1 .. L /\ (n - 1) + 1 = n
    BY <1>1, <1>6
  <2> QED
    BY <1>5, <2>1
<1>7. Eq(h)
  BY <1>5, <1>6
<1>8. First(iov) = CHOOSE f : Eq(f)
  BY Zenon DEF First
<1>9. Eq(First(iov))
  <2> HIDE DEF Eq
  <2> QED
    BY <1>7, <1>8, Zenon
<1>10. \A n \in 1 .. L + 1 :
           First(iov)[n] = IF n = 1 THEN 0 ELSE First(iov)[n - 1] + iov[n - 1]
  BY <1>9
<1>11. First(iov)[1] = 0
  BY <1>1, <1>10
<1>12. ASSUME NEW n \in 1 .. L PROVE First(iov)[n + 1] = First(iov)[n] + iov[n]
  <2>1. n + 1 \in 1 .. L + 1 /\ n + 1 # 1 /\ (n + 1) - 1 = n
    BY <1>1
  <2> QED
    BY <1>10, <2>1
<1>13. \A n \in 1 .. L + 1 : First(iov)[n] \in Nat
  <2> DEFINE T == {n \in 1 .. L + 1 : First(iov)[n] \in Nat}
  <2>1. 1 \in T
    BY <1>1, <1>11
  <2>2. ASSUME NEW n \in 1 .. L, n \in T PROVE n + 1 \in T
    BY <1>1, <1>12, <2>2
  <2>3. \A n \in 1 .. L + 1 : n \in T
    <3> HIDE DEF T
    <3>1. 1 \in Int /\ L \in Int /\ \A n \in 1 .. L : n \in T => n + 1 \in T
      BY <1>1, <2>2
    <3> QED
      BY <2>1, <3>1, IntervalInduction, Zenon
  <2> QED
    BY <2>3
<1> QED
  BY <1>1, <1>11, <1>12, <1>13

\* Vectors further on begin no earlier.
LEMMA FirstMonotone ==
    ASSUME NEW iov \in Seq(Nat), NEW a \in 1 .. Len(iov) + 1
    PROVE  \A n \in a .. Len(iov) + 1 : First(iov)[a] <= First(iov)[n]
<1> DEFINE L == Len(iov)
           S == {n \in a .. L + 1 : First(iov)[a] <= First(iov)[n]}
<1>1. /\ L \in Nat /\ a \in Int
      /\ \A n \in a .. L + 1 : n \in 1 .. L + 1 /\ First(iov)[n] \in Nat
      /\ \A n \in a .. L : iov[n] \in Nat /\ First(iov)[n + 1] = First(iov)[n] + iov[n]
  <2>1. L \in Nat
    BY FirstDef
  <2>2. \A n \in a .. L + 1 : n \in 1 .. L + 1
    BY <2>1
  <2>3. \A n \in a .. L : n \in 1 .. L
    BY <2>1
  <2> QED
    BY <2>1, <2>2, <2>3, FirstDef
<1>2. a \in S
  BY <1>1
<1>3. ASSUME NEW n \in a .. L, n \in S PROVE n + 1 \in S
  <2>1. n \in a .. L + 1 /\ n + 1 \in a .. L + 1 /\ First(iov)[a] \in Nat
    BY <1>1
  <2> QED
    BY <1>1, <1>3, <2>1
<1>4. \A n \in a .. L + 1 : n \in S
  <2> HIDE DEF S
  <2>1. L \in Int /\ \A n \in a .. L : n \in S => n + 1 \in S
    BY <1>1, <1>3
  <2> QED
    BY <1>1, <1>2, <2>1, IntervalInduction, Zenon
<1> QED
  BY <1>4

\* What the vectors of every request have in common.
Vectors == {iov \in Seq(Nat) : Len(iov) <= MaxIov /\ Total(iov) \in 0 .. MaxCount}

\* What the vectors of a request are known to satisfy.
LEMMA VectorsDef ==
    ASSUME NEW iov \in Vectors
    PROVE  /\ iov \in Seq(Nat) /\ Len(iov) \in Nat /\ Len(iov) <= MaxIov
           /\ Total(iov) \in Nat /\ Total(iov) <= MaxCount
           /\ MaxCount \in Nat /\ MaxIov \in Nat \ {0}
<1>1. MaxCount \in Nat /\ MaxIov \in Nat \ {0}
  BY SizesAssumption, Zenon
<1>2. iov \in Seq(Nat) /\ Len(iov) <= MaxIov /\ Total(iov) \in 0 .. MaxCount
  BY DEF Vectors
<1> QED
  BY <1>1, <1>2

\* The arrays of a request are sequences.
LEMMA FunctionIsSeq ==
    ASSUME NEW n \in Nat, NEW S, NEW f \in [1 .. n -> S]
    PROVE  f \in Seq(S) /\ Len(f) = n
OBVIOUS

\* Every request's vectors fit the bounds, one buffer or many.
LEMMA RequestVectors ==
    ASSUME NEW names, NEW c \in Requests(names)
    PROVE  c.iov \in Vectors
<1> DEFINE iov == c.iov
<1>s. /\ MaxIov \in Nat \ {0} /\ MaxLen \in Nat /\ MaxCount \in Nat
      /\ MaxIov * MaxLen <= MaxCount
  BY SizesAssumption, Zenon
<1>1. ASSUME iov \in [1 .. 1 -> 0 .. MaxCount] PROVE iov \in Vectors
  <2>1. iov \in Seq(0 .. MaxCount) /\ Len(iov) = 1
    BY <1>1, FunctionIsSeq, Zenon
  <2>2. iov \in Seq(Nat)
    <3>1. iov \in [1 .. 1 -> Nat] /\ 1 \in Nat
      BY <1>1
    <3> QED
      BY <3>1, FunctionIsSeq, Zenon
  <2>3. First(iov)[1] = 0 /\ First(iov)[1 + 1] = First(iov)[1] + iov[1]
    BY <2>1, <2>2, FirstDef
  <2>4. Total(iov) = iov[1] /\ iov[1] \in 0 .. MaxCount
    BY <1>1, <2>1, <2>3 DEF Total
  <2>5. 1 <= MaxIov
    BY <1>s
  <2> QED
    BY <2>1, <2>2, <2>4, <2>5 DEF Vectors
<1>2. ASSUME NEW n \in 0 .. MaxIov, iov \in [1 .. n -> 0 .. MaxLen] PROVE iov \in Vectors
  <2>1. iov \in Seq(Nat) /\ Len(iov) = n /\ n \in Nat
    BY <1>2, <1>s
  <2> DEFINE S == {m \in 1 .. n + 1 : First(iov)[m] <= (m - 1) * MaxLen}
  <2>2. 1 \in S
    <3>1. First(iov)[1] = 0 /\ (1 - 1) * MaxLen = 0 /\ 1 \in 1 .. n + 1
      BY <2>1, <1>s, FirstDef
    <3> QED
      BY <3>1
  <2>3. ASSUME NEW m \in 1 .. n, m \in S PROVE m + 1 \in S
    <3>1. First(iov)[m + 1] = First(iov)[m] + iov[m] /\ iov[m] \in 0 .. MaxLen
      BY <1>2, <2>1, FirstDef
    <3>2. First(iov)[m] \in Nat /\ First(iov)[m] <= (m - 1) * MaxLen
      BY <2>1, <2>3, FirstDef
    <3>3. PICK x \in Int : x = (m - 1) * MaxLen
      BY <1>s, <2>1
    <3>4. ((m + 1) - 1) * MaxLen = x + MaxLen
      BY <1>s, <2>1, <3>3
    <3>5. First(iov)[m + 1] <= x + MaxLen /\ m + 1 \in 1 .. n + 1
      BY <1>s, <2>1, <3>1, <3>2, <3>3
    <3> QED
      BY <3>4, <3>5
  <2>4. n + 1 \in S
    <3> HIDE DEF S
    <3>1. 1 \in Int /\ n \in Int /\ \A m \in 1 .. n : m \in S => m + 1 \in S
      BY <2>1, <2>3
    <3>2. \A m \in 1 .. n + 1 : m \in S
      BY <2>2, <3>1, IntervalInduction, Zenon
    <3> QED
      BY <2>1, <3>2
  <2>5. Total(iov) <= n * MaxLen /\ Total(iov) \in Nat
    BY <2>1, <2>4, FirstDef DEF Total
  <2>6. n * MaxLen <= MaxIov * MaxLen /\ n * MaxLen \in Nat /\ MaxIov * MaxLen \in Nat
    BY <2>1, <1>s
  <2>7. Total(iov) <= MaxCount
    BY <2>5, <2>6, <1>s
  <2>8. Len(iov) <= MaxIov
    BY <2>1
  <2> QED
    BY <2>1, <2>5, <2>7, <2>8 DEF Vectors
<1>3. \/ iov \in [1 .. 1 -> 0 .. MaxCount]
      \/ \E n \in 0 .. MaxIov : iov \in [1 .. n -> 0 .. MaxLen]
  BY DEF Requests
<1> QED
  BY <1>1, <1>2, <1>3


-----------------------------------------------------------------------------
(* Where a buffer goes in the vectors.                                     *)

\* What of a buffer of "size" units lies at or behind vector n.
Beyond(iov, at, size, n) ==
    IF n = at.num THEN size
    ELSE IF Place(iov, at) + size > First(iov)[n]
    THEN Place(iov, at) + size - First(iov)[n] ELSE 0

\* ve_buff_size_less before vector n is what lies at or behind n.
LEMMA BuffSizeLess ==
    ASSUME NEW iov \in Seq(Nat), NEW at, at.num \in 1 .. Len(iov) + 1, at.done \in Nat,
           NEW size \in Nat
    PROVE  \A n \in at.num .. Len(iov) + 1 :
               VeBuffSizeLess(iov, at, size)[n] = Beyond(iov, at, size, n)
<1> DEFINE L == Len(iov)
           a == at.num
           X == VeBuffSizeLess(iov, at, size)
           l(f, n) == f[n - 1] - IovLenLess(iov, at, n - 1)
           Rhs(f) == [n \in at.num .. Len(iov) + 1 |->
                         IF n = at.num THEN size
                         ELSE LET m == f[n - 1] - IovLenLess(iov, at, n - 1)
                              IN  IF m < 0 THEN 0 ELSE m]
           Eq(f) == f = Rhs(f)
           h == [n \in at.num .. Len(iov) + 1 |-> Beyond(iov, at, size, n)]
<1>1. /\ L \in Nat /\ a \in 1 .. L + 1 /\ at.done \in Nat /\ size \in Nat
      /\ \A n \in 1 .. L + 1 : First(iov)[n] \in Nat
      /\ \A n \in 1 .. L : iov[n] \in Nat /\ First(iov)[n + 1] = First(iov)[n] + iov[n]
  BY FirstDef
<1>2. ASSUME NEW n \in a .. L + 1, n # a
      PROVE  /\ n - 1 \in a .. L + 1
             /\ Beyond(iov, at, size, n) =
                    IF Beyond(iov, at, size, n - 1) - IovLenLess(iov, at, n - 1) < 0 THEN 0
                    ELSE Beyond(iov, at, size, n - 1) - IovLenLess(iov, at, n - 1)
  <2>1. PICK m \in Int : m = n - 1
    BY <1>1
  <2>2. m \in 1 .. L /\ m \in a .. L + 1 /\ m + 1 = n
    BY <1>1, <1>2, <2>1
  <2>3. PICK fn \in Nat : fn = First(iov)[n]
    BY <1>1
  <2>4. PICK fm \in Nat : fm = First(iov)[m]
    BY <1>1, <2>2
  <2>5. PICK im \in Nat : im = iov[m]
    BY <1>1, <2>2
  <2>a. PICK d \in Nat : d = at.done
    BY <1>1
  <2>b. PICK p \in Nat : p = Place(iov, at)
    BY <1>1 DEF Place
  <2>6. PICK e \in Int : e = p + size
    OBVIOUS
  <2>7. fn = fm + im
    BY <1>1, <2>2, <2>3, <2>4, <2>5
  <2>8. (e > fn => Beyond(iov, at, size, n) = e - fn) /\ (e <= fn => Beyond(iov, at, size, n) = 0)
    <3>1. Beyond(iov, at, size, n) =
              IF Place(iov, at) + size > First(iov)[n]
              THEN Place(iov, at) + size - First(iov)[n] ELSE 0
      BY <1>2, Zenon DEF Beyond
    <3>2. Beyond(iov, at, size, n) = IF e > fn THEN e - fn ELSE 0
      BY <2>3, <2>b, <2>6, <3>1
    <3> QED
      BY <3>2
  <2>9. CASE m = a
    <3>1. Beyond(iov, at, size, m) = size /\ IovLenLess(iov, at, m) = im - d
      BY <2>5, <2>a, <2>9 DEF Beyond, IovLenLess, Done
    <3>2. e = fm + d + size
      BY <2>4, <2>a, <2>b, <2>6, <2>9 DEF Place
    <3>3. PICK x \in Int : x = size - (im - d)
      OBVIOUS
    <3>4. x = e - fn
      BY <2>7, <3>2, <3>3
    <3>5. Beyond(iov, at, size, n) = IF x < 0 THEN 0 ELSE x
      <4>1. CASE x < 0
        BY <2>8, <3>4, <4>1
      <4>2. CASE x = 0
        BY <2>8, <3>4, <4>2
      <4>3. CASE x > 0
        BY <2>8, <3>4, <4>3
      <4> QED
        BY <4>1, <4>2, <4>3
    <3> QED
      BY <2>1, <2>2, <3>1, <3>3, <3>5, Zenon
  <2>10. CASE m # a
    <3>1. IovLenLess(iov, at, m) = im
      BY <2>5, <2>10 DEF IovLenLess, Done
    <3>2. (e > fm => Beyond(iov, at, size, m) = e - fm) /\ (e <= fm => Beyond(iov, at, size, m) = 0)
      <4>1. Beyond(iov, at, size, m) =
                IF Place(iov, at) + size > First(iov)[m]
                THEN Place(iov, at) + size - First(iov)[m] ELSE 0
        BY <2>10, Zenon DEF Beyond
      <4>2. Beyond(iov, at, size, m) = IF e > fm THEN e - fm ELSE 0
        BY <2>4, <2>b, <2>6, <4>1
      <4> QED
        BY <4>2
    <3>3. CASE e <= fm
      <4>1. Beyond(iov, at, size, m) = 0 /\ Beyond(iov, at, size, n) = 0
        BY <2>7, <2>8, <3>2, <3>3
      <4>2. im = 0 \/ 0 - im < 0
        OBVIOUS
      <4> QED
        BY <2>1, <2>2, <3>1, <4>1, <4>2
    <3>4. CASE e > fm
      <4>1. PICK x \in Int : x = (e - fm) - im
        OBVIOUS
      <4>2. x = e - fn
        BY <2>7, <4>1
      <4>3. Beyond(iov, at, size, n) = IF x < 0 THEN 0 ELSE x
        <5>1. CASE x < 0
          BY <2>8, <4>2, <5>1
        <5>2. CASE x = 0
          BY <2>8, <4>2, <5>2
        <5>3. CASE x > 0
          BY <2>8, <4>2, <5>3
        <5> QED
          BY <5>1, <5>2, <5>3
      <4>4. Beyond(iov, at, size, m) = e - fm
        BY <3>2, <3>4
      <4> QED
        BY <2>1, <2>2, <3>1, <4>1, <4>3, <4>4, Zenon
    <3> QED
      BY <3>3, <3>4
  <2> QED
    BY <2>9, <2>10
<1>3. Eq(h)
  <2>1. \A n \in a .. L + 1 : h[n] = Beyond(iov, at, size, n)
    OBVIOUS
  <2>2. h = [n \in a .. L + 1 |-> h[n]]
    OBVIOUS
  <2> HIDE DEF h
  <2>3. ASSUME NEW n \in a .. L + 1
        PROVE  h[n] = IF n = a THEN size ELSE IF l(h, n) < 0 THEN 0 ELSE l(h, n)
    <3>1. CASE n = a
      BY <2>1, <3>1 DEF Beyond
    <3>2. CASE n # a
      BY <1>2, <2>1, <3>2
    <3> QED
      BY <3>1, <3>2
  <2> QED
    BY <2>2, <2>3, Zenon
<1>4. X = CHOOSE f : Eq(f)
  BY Zenon DEF VeBuffSizeLess
<1> HIDE DEF X
<1>5. Eq(X)
  <2> HIDE DEF Eq, h
  <2> QED
    BY <1>3, <1>4, Zenon
<1>6. \A n \in a .. L + 1 : X[n] = IF n = a THEN size ELSE IF l(X, n) < 0 THEN 0 ELSE l(X, n)
  <2>1. \A n \in a .. L + 1 :
            Rhs(X)[n] = IF n = a THEN size ELSE IF l(X, n) < 0 THEN 0 ELSE l(X, n)
    BY Zenon
  <2>2. X = Rhs(X)
    BY <1>5
  <2> HIDE DEF Rhs, l
  <2> QED
    BY <2>1, <2>2, Zenon
<1> HIDE DEF Eq
<1> DEFINE S == {n \in a .. L + 1 : X[n] = Beyond(iov, at, size, n)}
<1>7. a \in S
  BY <1>1, <1>6 DEF Beyond
<1>8. ASSUME NEW n \in a .. L, n \in S PROVE n + 1 \in S
  <2>1. n + 1 \in a .. L + 1 /\ n + 1 # a /\ (n + 1) - 1 = n
    BY <1>1
  <2>2. X[n + 1] = Beyond(iov, at, size, n + 1)
    <3>1. X[n] = Beyond(iov, at, size, n)
      BY <1>8
    <3>2. X[n + 1] = IF l(X, n + 1) < 0 THEN 0 ELSE l(X, n + 1)
      BY <1>6, <2>1
    <3> QED
      BY <1>2, <2>1, <3>1, <3>2
  <2> QED
    BY <2>1, <2>2
<1>9. \A n \in a .. L + 1 : n \in S
  <2> HIDE DEF S
  <2>1. a \in Int /\ L \in Int /\ \A n \in a .. L : n \in S => n + 1 \in S
    BY <1>1, <1>8
  <2> QED
    BY <1>7, <2>1, IntervalInduction, Zenon
<1> QED
  BY <1>9 DEF X

\* What a position of the loops is known to satisfy.
LEMMA PositionFacts ==
    ASSUME NEW iov \in Vectors, NEW at \in Positions(iov)
    PROVE  /\ iov \in Seq(Nat) /\ Len(iov) \in Nat /\ Total(iov) \in 0 .. MaxCount
           /\ at.num \in 1 .. Len(iov) + 1 /\ at.done \in Nat
           /\ First(iov)[at.num] \in Nat
           /\ Place(iov, at) = First(iov)[at.num] + at.done
           /\ at.num <= Len(iov) => /\ at.num \in 1 .. Len(iov)
                                    /\ iov[at.num] \in Nat /\ at.done <= iov[at.num]
           /\ at.num > Len(iov) => at.num = Len(iov) + 1 /\ Place(iov, at) = Total(iov)
<1>1. iov \in Seq(Nat) /\ Len(iov) \in Nat /\ Total(iov) \in 0 .. MaxCount
  BY DEF Vectors
<1>2. at.num \in 1 .. Len(iov) + 1 /\ at.done \in Nat
  BY <1>1, SizesAssumption DEF Positions, Position
<1>3. First(iov)[at.num] \in Nat /\ Place(iov, at) = First(iov)[at.num] + at.done
  BY <1>1, <1>2, FirstDef DEF Place
<1>4. ASSUME at.num <= Len(iov)
      PROVE  at.num \in 1 .. Len(iov) /\ iov[at.num] \in Nat /\ at.done <= iov[at.num]
  BY <1>1, <1>2, <1>4, FirstDef DEF Positions
<1>5. ASSUME at.num > Len(iov)
      PROVE  at.num = Len(iov) + 1 /\ Place(iov, at) = Total(iov)
  <2>1. at.num = Len(iov) + 1
    BY <1>1, <1>2, <1>5
  <2>2. at.done = 0
    BY <2>1 DEF Positions
  <2> QED
    BY <1>3, <2>1, <2>2 DEF Total
<1> QED
  BY <1>1, <1>2, <1>3, <1>4, <1>5

\* The loop at vector n, whose first unit is f, of l units: it begins behind
\* what is done, and either the buffer ends at unit d + size of the request or
\* nothing of it is left.
VectorFact(iov, at, size, d, n, f, l, done, left) ==
    /\ f = First(iov)[n] /\ l = iov[n] /\ First(iov)[n + 1] = f + l
    /\ done = Done(at, n) /\ IovLenLess(iov, at, n) = l - done
    /\ left = VeBuffSizeLess(iov, at, size)[n]
    /\ done <= l /\ d <= f + done
    /\ f + done + left = d + size \/ (left = 0 /\ d + size <= f + done)
    /\ n = at.num => f + done = d
    /\ n # at.num => done = 0

\* The numbers the loop over the vectors computes at vector n: where it
\* begins, how long it is, what of it is done and what of the buffer is left.
LEMMA VectorFacts ==
    ASSUME NEW iov \in Vectors, NEW at \in Positions(iov), NEW size \in Nat,
           NEW d \in Nat, d = Place(iov, at), NEW n \in at.num .. Len(iov)
    PROVE  \E f \in Nat, l \in Nat, done \in Nat, left \in Nat :
               VectorFact(iov, at, size, d, n, f, l, done, left)
<1>1. /\ iov \in Seq(Nat) /\ Len(iov) \in Nat
      /\ at.num \in 1 .. Len(iov) /\ n \in 1 .. Len(iov) /\ at.done \in Nat
  BY PositionFacts
<1>2. /\ First(iov)[n] \in Nat /\ iov[n] \in Nat
      /\ First(iov)[n + 1] = First(iov)[n] + iov[n]
  <2>1. n \in 1 .. Len(iov) + 1
    BY <1>1
  <2> QED
    BY <1>1, <2>1, FirstDef
<1>3. PICK f \in Nat : f = First(iov)[n]
  BY <1>2
<1>4. PICK l \in Nat : l = iov[n]
  BY <1>2
<1>5. PICK done \in Nat : done = Done(at, n)
  BY <1>1 DEF Done
<1>6. IovLenLess(iov, at, n) = l - done
  BY <1>4, <1>5 DEF IovLenLess
<1>7. VeBuffSizeLess(iov, at, size)[n] = Beyond(iov, at, size, n)
  <2>1. n \in at.num .. Len(iov) + 1 /\ at.num \in 1 .. Len(iov) + 1
    BY <1>1
  <2> QED
    BY <1>1, <2>1, BuffSizeLess
<1>8. ASSUME NEW left \in Nat, left = Beyond(iov, at, size, n),
             done <= l, d <= f + done,
             f + done + left = d + size \/ (left = 0 /\ d + size <= f + done),
             n = at.num => f + done = d,
             n # at.num => done = 0
      PROVE  VectorFact(iov, at, size, d, n, f, l, done, left)
  BY <1>2, <1>3, <1>4, <1>5, <1>6, <1>7, <1>8 DEF VectorFact
<1>9. CASE n = at.num
  <2>1. size = Beyond(iov, at, size, n)
    BY <1>9 DEF Beyond
  <2>2. done = at.done /\ done <= l /\ d = f + done
    BY <1>1, <1>3, <1>4, <1>5, <1>9, PositionFacts DEF Done
  <2>3. f + done + size = d + size /\ d <= f + done
    BY <2>2
  <2>4. VectorFact(iov, at, size, d, n, f, l, done, size)
    BY <1>8, <1>9, <2>1, <2>2, <2>3
  <2> QED
    BY <2>4
<1>10. CASE n # at.num
  <2>1. done = 0
    BY <1>5, <1>10 DEF Done
  <2>2. d <= f
    <3>1. PICK m \in 1 .. Len(iov) : m = at.num
      BY <1>1
    <3>2. m + 1 \in 1 .. Len(iov) + 1 /\ n \in m + 1 .. Len(iov) + 1
      BY <1>1, <1>10, <3>1
    <3>3. First(iov)[m + 1] <= f
      BY <1>1, <1>3, <3>2, FirstMonotone
    <3>4. First(iov)[m + 1] = First(iov)[m] + iov[m] /\ First(iov)[m] \in Nat /\ iov[m] \in Nat
      BY <1>1, FirstDef
    <3>5. d = First(iov)[m] + at.done /\ at.done <= iov[m]
      BY <1>1, <3>1, PositionFacts
    <3> QED
      BY <1>1, <3>3, <3>4, <3>5
  <2>3. Beyond(iov, at, size, n) = IF Place(iov, at) + size > First(iov)[n]
                                   THEN Place(iov, at) + size - First(iov)[n] ELSE 0
    BY <1>10, Zenon DEF Beyond
  <2>4. CASE d + size > f
    <3>1. PICK left \in Nat : left = d + size - f
      BY <2>4
    <3>2. left = Beyond(iov, at, size, n)
      BY <1>3, <2>3, <2>4, <3>1
    <3>3. f + done + left = d + size /\ done <= l /\ d <= f + done
      BY <2>1, <2>2, <3>1
    <3>4. VectorFact(iov, at, size, d, n, f, l, done, left)
      BY <1>8, <1>10, <2>1, <3>2, <3>3
    <3> QED
      BY <3>4
  <2>5. CASE d + size <= f
    <3>1. 0 = Beyond(iov, at, size, n)
      BY <1>3, <2>3, <2>5
    <3>2. d + size <= f + done /\ done <= l /\ d <= f + done /\ 0 \in Nat
      BY <2>1, <2>2, <2>5
    <3>3. VectorFact(iov, at, size, d, n, f, l, done, 0)
      BY <1>8, <1>10, <2>1, <3>1, <3>2
    <3> QED
      BY <3>2, <3>3
  <2> QED
    BY <2>4, <2>5
<1> QED
  BY <1>9, <1>10

\* A buffer goes to the vectors from where the last one ended, in order: the
\* units of the request it holds are those of these places.
PairsFact(iov, at, size, d) ==
    /\ \A p \in Pairs(iov, at, size) :
           /\ p.vector \in 1 .. Len(iov) /\ p.offset \in Nat
           /\ p.offset < iov[p.vector]
           /\ d <= First(iov)[p.vector] + p.offset
           /\ First(iov)[p.vector] + p.offset < d + size
           /\ p.unit = First(iov)[p.vector] + p.offset - d + 1
    /\ \A v \in 1 .. Len(iov), o \in Nat :
           /\ o < iov[v]
           /\ d <= First(iov)[v] + o /\ First(iov)[v] + o < d + size
           => \E p \in Pairs(iov, at, size) : p.vector = v /\ p.offset = o

\* The loops over the vectors do that.
LEMMA PairsSpec ==
    ASSUME NEW iov \in Vectors, NEW at \in Positions(iov), NEW size \in Nat,
           NEW d \in Nat, d = Place(iov, at)
    PROVE  PairsFact(iov, at, size, d)
<1> DEFINE less(n) == VeBuffSizeLess(iov, at, size)[n]
           Copied(n) ==
               {q \in 0 .. MaxCount : q < IovLenLess(iov, at, n) /\ q < less(n)}
           Pair(n, q) == [vector |-> n, offset |-> Done(at, n) + q,
                          unit |-> size - less(n) + q + 1]
<1>1. /\ iov \in Seq(Nat) /\ Len(iov) \in Nat /\ Total(iov) \in 0 .. MaxCount
      /\ at.num \in 1 .. Len(iov) + 1
  BY PositionFacts
<1>2. MaxCount \in Nat
  BY SizesAssumption, Zenon
<1>3. ASSUME NEW p \in Pairs(iov, at, size)
      PROVE  /\ p.vector \in 1 .. Len(iov) /\ p.offset \in Nat
             /\ p.offset < iov[p.vector]
             /\ d <= First(iov)[p.vector] + p.offset
             /\ First(iov)[p.vector] + p.offset < d + size
             /\ p.unit = First(iov)[p.vector] + p.offset - d + 1
  <2>1. PICK n \in at.num .. Len(iov) : p \in {Pair(n, q) : q \in Copied(n)}
    BY <1>3, Zenon DEF Pairs
  <2>2. PICK q \in Copied(n) : p = Pair(n, q)
    BY <2>1, Zenon
  <2>3. PICK f \in Nat, l \in Nat, done \in Nat, left \in Nat :
            VectorFact(iov, at, size, d, n, f, l, done, left)
    BY VectorFacts
  <2>4. /\ q \in Nat /\ q < l - done /\ q < left
        /\ p.vector = n /\ p.offset = done + q /\ p.unit = size - left + q + 1
    BY <1>2, <2>2, <2>3 DEF VectorFact
  <2>5. n \in 1 .. Len(iov)
    BY <1>1, <2>1
  <2> HIDE DEF Copied, Pair
  <2>6. /\ done + q < l /\ d <= f + (done + q) /\ f + (done + q) < d + size
        /\ size - left + q + 1 = f + (done + q) - d + 1
    <3>1. f + done + left = d + size /\ d <= f + done /\ done <= l
      BY <2>3, <2>4 DEF VectorFact
    <3>2. q \in Nat /\ q < l - done /\ q < left
      BY <2>4
    <3>3. size - left = f + done - d
      BY <3>1
    <3>4. done + q < l /\ d <= f + (done + q)
      BY <3>1, <3>2
    <3>5. f + (done + q) < d + size
      BY <3>1, <3>2
    <3>6. size - left + q + 1 = f + (done + q) - d + 1
      <4>1. q \in Nat /\ f + done + left = d + size
        BY <3>1, <3>2
      <4> HIDE DEF less
      <4> QED
        BY <4>1
    <3> QED
      BY <3>4, <3>5, <3>6
  <2>7. First(iov)[n] = f /\ iov[n] = l
    BY <2>3 DEF VectorFact
  <2> QED
    BY <2>4, <2>5, <2>6, <2>7
<1>4. ASSUME NEW v \in 1 .. Len(iov), NEW o \in Nat, o < iov[v],
             d <= First(iov)[v] + o, First(iov)[v] + o < d + size
      PROVE  \E p \in Pairs(iov, at, size) : p.vector = v /\ p.offset = o
  <2>1. First(iov)[v + 1] = First(iov)[v] + iov[v] /\ iov[v] \in Nat
        /\ First(iov)[v] \in Nat /\ v + 1 \in 1 .. Len(iov) + 1
    BY <1>1, FirstDef
  <2>2. at.num <= v
    <3> SUFFICES ASSUME v < at.num PROVE FALSE
      BY <1>1
    <3>1. at.num \in v + 1 .. Len(iov) + 1
      BY <1>1
    <3>2. First(iov)[v + 1] <= First(iov)[at.num]
      BY <1>1, <2>1, <3>1, FirstMonotone
    <3>3. First(iov)[at.num] <= d /\ First(iov)[at.num] \in Nat
      BY PositionFacts
    <3> QED
      BY <1>4, <2>1, <3>2, <3>3
  <2>3. v \in at.num .. Len(iov)
    BY <1>1, <2>2
  <2>4. PICK f \in Nat, l \in Nat, done \in Nat, left \in Nat :
            VectorFact(iov, at, size, d, v, f, l, done, left)
    BY <2>3, VectorFacts
  <2>5. o < l /\ d <= f + o /\ f + o < d + size
    BY <1>4, <2>4 DEF VectorFact
  <2>6. f + l <= MaxCount
    <3>1. Len(iov) + 1 \in v + 1 .. Len(iov) + 1
      BY <1>1
    <3>2. First(iov)[v + 1] <= Total(iov)
      BY <1>1, <2>1, <3>1, FirstMonotone DEF Total
    <3>3. First(iov)[v + 1] = f + l
      BY <2>4 DEF VectorFact
    <3> QED
      BY <1>1, <1>2, <3>2, <3>3
  <2>7. PICK q \in Nat : o = done + q
    <3>1. o - done \in Nat
      <4>1. f + done = d \/ done = 0
        BY <2>4 DEF VectorFact
      <4> QED
        BY <2>5, <4>1
    <3> QED
      BY <3>1
  <2>8. q \in 0 .. MaxCount /\ q < l - done /\ q < left
    <3>1. f + done + left = d + size \/ d + size <= f + done
      BY <2>4 DEF VectorFact
    <3>2. f + done + left = d + size
      BY <2>5, <2>7, <3>1
    <3> QED
      BY <1>2, <2>5, <2>6, <2>7, <3>2
  <2>9. q \in Copied(v)
    BY <2>4, <2>8, Zenon DEF VectorFact
  <2>10. Pair(v, q) \in Pairs(iov, at, size)
    <3>1. Pair(v, q) \in {Pair(v, r) : r \in Copied(v)}
      BY <2>9, Zenon
    <3> QED
      BY <2>3, <3>1, Zenon DEF Pairs
  <2>11. Pair(v, q).vector = v /\ Pair(v, q).offset = o
    BY <2>4, <2>7, Zenon DEF VectorFact
  <2> HIDE DEF Pair, Copied
  <2> QED
    BY <2>10, <2>11
<1> QED
  BY <1>3, <1>4 DEF PairsFact

\* The next buffer goes on where this one ended.
LEMMA NextPositionSpec ==
    ASSUME NEW iov \in Vectors, NEW at \in Positions(iov), NEW size \in Nat,
           NEW d \in Nat, d = Place(iov, at), d + size <= Total(iov)
    PROVE  /\ NextPosition(iov, at, size) \in Positions(iov)
           /\ Place(iov, NextPosition(iov, at, size)) = d + size
<1> DEFINE E == Ends(iov, at, size)
           L == Len(iov)
           n0 == CHOOSE e \in E : \A f \in E : e <= f
           next == NextPosition(iov, at, size)
<1>1. /\ iov \in Seq(Nat) /\ L \in Nat /\ Total(iov) \in 0 .. MaxCount
      /\ at.num \in 1 .. L + 1
  BY PositionFacts
<1>2. MaxCount \in Nat /\ MaxIov \in Nat
  BY SizesAssumption, Zenon
<1>3. L <= MaxIov
  BY DEF Vectors
<1>4. \A n \in E : n \in at.num .. L /\ n \in Nat
  BY <1>1 DEF Ends
<1>5. ASSUME NEW num, NEW done, NEW n \in 1 .. L, NEW f \in Nat, NEW l \in Nat,
             f = First(iov)[n], l = iov[n], First(iov)[n + 1] = f + l,
             next = [num |-> num, done |-> done],
             \/ num = n /\ done \in Nat /\ done <= l /\ f + done = d + size
             \/ num = n + 1 /\ done = 0 /\ f + l = d + size
      PROVE  next \in Positions(iov) /\ Place(iov, next) = d + size
  <2>1. f + l <= MaxCount
    <3>1. L + 1 \in n + 1 .. L + 1 /\ n + 1 \in 1 .. L + 1
      BY <1>1
    <3>2. First(iov)[n + 1] <= Total(iov)
      BY <1>1, <3>1, FirstMonotone DEF Total
    <3>3. First(iov)[n + 1] = f + l
      BY <1>5
    <3> QED
      BY <1>1, <1>2, <3>2, <3>3
  <2>2. next.num = num /\ next.done = done /\ next \in [num : {num}, done : {done}]
    BY <1>5
  <2>3. num \in 1 .. L + 1 /\ num \in 1 .. MaxIov + 1
    <3>1. num = n \/ num = n + 1
      BY <1>5
    <3> QED
      BY <1>1, <1>2, <1>3, <3>1
  <2>4. done \in 0 .. MaxCount
    <3>1. done = 0 \/ (done \in Nat /\ done <= l)
      BY <1>5
    <3> QED
      BY <1>2, <2>1, <3>1
  <2>5. next \in Position
    BY <1>5, <2>3, <2>4 DEF Position
  <2>6. CASE num = n
    <3>1. done \in Nat /\ done <= l /\ f + done = d + size
      BY <1>1, <1>5, <2>6
    <3>2. num <= L /\ num # L + 1 /\ next.done <= iov[next.num]
      BY <1>1, <1>5, <2>2, <2>6, <3>1
    <3>3. Place(iov, next) = d + size
      BY <1>5, <2>2, <2>6, <3>1 DEF Place
    <3> QED
      <4>1. next.num <= L + 1 /\ next.num # L + 1
        BY <1>1, <2>2, <2>3, <3>2
      <4> HIDE DEF next
      <4> QED
        BY <2>5, <3>2, <3>3, <4>1 DEF Positions
  <2>7. CASE num = n + 1
    <3>1. done = 0 /\ f + l = d + size
      BY <1>1, <1>5, <2>7
    <3>2. num <= L => iov[next.num] \in Nat
      BY <1>1, <2>2, <2>3, FirstDef
    <3>3. num <= L => next.done <= iov[next.num]
      BY <2>2, <3>1, <3>2
    <3>4. Place(iov, next) = d + size
      BY <1>5, <2>2, <2>7, <3>1 DEF Place
    <3> QED
      BY <2>2, <2>3, <2>5, <3>1, <3>3, <3>4 DEF Positions
  <2> QED
    BY <1>5, <2>6, <2>7
<1>6. ASSUME NEW n \in at.num .. L
      PROVE  n \in E <=> VeBuffSizeLess(iov, at, size)[n] <= IovLenLess(iov, at, n)
  BY <1>6 DEF Ends
\* Behind a vector in which the buffer does not end something is left of it.
<1>7. ASSUME NEW n \in at.num .. L, n \notin E
      PROVE  n \in 1 .. L /\ d + size > First(iov)[n + 1] /\ First(iov)[n + 1] \in Nat
  <2>1. PICK f \in Nat, l \in Nat, done \in Nat, left \in Nat :
            VectorFact(iov, at, size, d, n, f, l, done, left)
    BY <1>7, VectorFacts
  <2>2. ~(left <= l - done)
    BY <1>6, <1>7, <2>1 DEF VectorFact
  <2>3. f + done + left = d + size \/ left = 0
    BY <2>1 DEF VectorFact
  <2>4. done <= l /\ First(iov)[n + 1] = f + l
    BY <2>1 DEF VectorFact
  <2>5. f + l < d + size
    BY <2>2, <2>3, <2>4
  <2> QED
    BY <1>1, <2>4, <2>5
<1>8. CASE E = {}
  <2>1. at.num = L + 1
    <3> SUFFICES ASSUME at.num <= L PROVE FALSE
      BY <1>1
    <3>1. L \in at.num .. L /\ L \notin E
      BY <1>1, <1>8
    <3>2. d + size > First(iov)[L + 1]
      BY <1>7, <3>1
    <3> QED
      BY <1>1, <3>2 DEF Total
  <2>2. d = Total(iov) /\ size = 0
    <3>1. d = Total(iov)
      BY <1>1, <2>1, PositionFacts
    <3> QED
      BY <1>1, <3>1
  <2>3. next = [at EXCEPT !.done = @]
    BY <1>1, <1>8, <2>1 DEF NextPosition
  <2>4. next = at
    BY <2>3 DEF Positions, Position
  <2>5. d + size = d
    BY <2>2
  <2> QED
    BY <2>4, <2>5
<1>9. CASE E # {}
  <2>1. n0 \in E /\ \A f \in E : n0 <= f
    <3>1. \E e \in E : \A f \in E : e <= f
      <4>1. E \subseteq Nat
        BY <1>4
      <4> HIDE DEF E
      <4> QED
        BY <1>9, <4>1, LeastOf
    <3> HIDE DEF E
    <3> QED
      BY <3>1
  <2>2. PICK n \in at.num .. L : n = n0
    BY <1>4, <2>1
  <2>3. n \in 1 .. L
    BY <1>1
  <2>4. PICK f \in Nat, l \in Nat, done \in Nat, left \in Nat :
            VectorFact(iov, at, size, d, n, f, l, done, left)
    BY VectorFacts
  <2>5. f = First(iov)[n] /\ l = iov[n] /\ First(iov)[n + 1] = f + l
    BY <2>4 DEF VectorFact
  <2>6. done <= l
    BY <2>4 DEF VectorFact
  <2>7. left <= l - done
    BY <1>6, <2>1, <2>2, <2>4 DEF VectorFact
  <2>8. f + done + left = d + size
    <3>1. CASE n = at.num
      <4>1. f + done = d /\ (f + done + left = d + size \/ (left = 0 /\ d + size <= f + done))
        BY <2>4, <3>1 DEF VectorFact
      <4> QED
        BY <4>1
    <3>2. CASE n # at.num
      <4>1. PICK m \in Int : m = n - 1
        BY <1>1
      <4>2. m \in at.num .. L /\ m + 1 = n /\ ~(n <= m)
        BY <1>1, <3>2, <4>1
      <4>3. m \notin E
        BY <2>1, <2>2, <4>2
      <4>4. d + size > f
        BY <1>7, <2>5, <4>2, <4>3
      <4>5. done = 0 /\ (f + done + left = d + size \/ (left = 0 /\ d + size <= f + done))
        BY <2>4, <3>2 DEF VectorFact
      <4> QED
        BY <4>4, <4>5
    <3> QED
      BY <3>1, <3>2
  <2>9. next = IF l - done > left THEN [num |-> n, done |-> done + left]
               ELSE [num |-> n + 1, done |-> 0]
    BY <1>9, <2>2, <2>4 DEF NextPosition, VectorFact
  <2>10. CASE l - done > left
    <3>1. next = [num |-> n, done |-> done + left]
      BY <2>9, <2>10
    <3>2. done + left \in Nat /\ done + left <= l /\ f + (done + left) = d + size
      BY <2>7, <2>8
    <3> QED
      BY <1>5, <2>3, <2>5, <3>1, <3>2
  <2>11. CASE ~(l - done > left)
    <3>1. next = [num |-> n + 1, done |-> 0]
      BY <2>9, <2>11
    <3>2. f + l = d + size
      BY <2>7, <2>8, <2>11
    <3> QED
      BY <1>5, <2>3, <2>5, <3>1, <3>2
  <2> QED
    BY <2>10, <2>11
<1> QED
  BY <1>8, <1>9

\* A unit of a vector is a unit of the request.
LEMMA UnitOfVector ==
    ASSUME NEW iov \in Vectors, NEW v \in 1 .. Len(iov), NEW o \in Nat, o < iov[v]
    PROVE  /\ First(iov)[v] \in Nat
           /\ First(iov)[v] + o \in 0 .. Total(iov) - 1
           /\ First(iov)[v] + o \in Unit
<1>1. /\ iov \in Seq(Nat) /\ Len(iov) \in Nat /\ Total(iov) \in Int
      /\ Total(iov) <= MaxCount /\ MaxCount \in Nat
  BY VectorsDef
<1>2. /\ First(iov)[v + 1] = First(iov)[v] + iov[v] /\ iov[v] \in Nat
      /\ First(iov)[v] \in Nat /\ v + 1 \in 1 .. Len(iov) + 1
      /\ Len(iov) + 1 \in v + 1 .. Len(iov) + 1
  BY <1>1, FirstDef
<1>3. First(iov)[v + 1] <= Total(iov)
  BY <1>1, <1>2, FirstMonotone DEF Total
<1>4. First(iov)[v] + o < Total(iov) /\ First(iov)[v] + o \in Nat
  BY <1>1, <1>2, <1>3
<1> QED
  BY <1>1, <1>2, <1>4 DEF Unit

\* The caller's memory holds units, however many were delivered.
LEMMA DeliveredType ==
    ASSUME NEW iov \in Vectors, NEW n \in Int
    PROVE  Delivered(iov, n) \in [Vector -> [Offset -> Unit]]
<1>1. ASSUME NEW v \in Vector, NEW o \in Offset
      PROVE  (IF v <= Len(iov) /\ o < iov[v] /\ First(iov)[v] + o < n
              THEN First(iov)[v] + o ELSE Untouched) \in Unit
  <2>1. CASE v <= Len(iov) /\ o < iov[v]
    <3>1. v \in 1 .. Len(iov) /\ o \in Nat
      BY <2>1 DEF Vectors, Vector, Offset
    <3>2. First(iov)[v] + o \in Unit
      BY <2>1, <3>1, UnitOfVector
    <3> QED
      BY <3>2 DEF Unit
  <2>2. CASE ~(v <= Len(iov) /\ o < iov[v])
    BY <2>2 DEF Unit
  <2> QED
    BY <2>1, <2>2
<1> QED
  BY <1>1 DEF Delivered

\* The caller's memory after the first units of a buffer were copied to it.
ScatteredInto(memory, iov, at, size, buffer) ==
    [v \in Vector |-> [o \in Offset |->
        IF \E p \in Pairs(iov, at, size) : p.vector = v /\ p.offset = o
        THEN buffer[(CHOOSE p \in Pairs(iov, at, size) :
                         p.vector = v /\ p.offset = o).unit]
        ELSE memory[v][o]]]

\* To copy a buffer with the next units to its places is to deliver them.
LEMMA Scatter ==
    ASSUME NEW iov \in Vectors, NEW at \in Positions(iov), NEW size \in Nat,
           NEW d \in Nat, d = Place(iov, at),
           NEW buffer, \A u \in 1 .. size : buffer[u] = d + u - 1
    PROVE  ScatteredInto(Delivered(iov, d), iov, at, size, buffer) = Delivered(iov, d + size)
<1> DEFINE P == Pairs(iov, at, size)
           old(v, o) == IF v <= Len(iov) /\ o < iov[v] /\ First(iov)[v] + o < d
                        THEN First(iov)[v] + o ELSE Untouched
           new(v, o) == IF v <= Len(iov) /\ o < iov[v] /\ First(iov)[v] + o < d + size
                        THEN First(iov)[v] + o ELSE Untouched
           the(v, o) == CHOOSE p \in P : p.vector = v /\ p.offset = o
           res(v, o) == IF \E p \in P : p.vector = v /\ p.offset = o
                        THEN buffer[the(v, o).unit] ELSE old(v, o)
<1> HIDE DEF P
<1>1. /\ iov \in Seq(Nat) /\ Len(iov) \in Nat /\ MaxCount \in Nat
  BY VectorsDef
<1>2. PairsFact(iov, at, size, d)
  BY PairsSpec
<1>3. ASSUME NEW v \in Vector, NEW o \in Offset PROVE res(v, o) = new(v, o)
  <2>1. o \in Nat /\ v \in Nat /\ v >= 1
    BY <1>1 DEF Offset, Vector
  <2>2. CASE \E p \in P : p.vector = v /\ p.offset = o
    <3>1. the(v, o) \in P /\ the(v, o).vector = v /\ the(v, o).offset = o
      BY <2>2, Zenon
    <3>2. res(v, o) = buffer[the(v, o).unit]
      BY <2>2, Zenon
    <3> HIDE DEF the, res
    <3>3. PICK p \in P : p = the(v, o) /\ p.vector = v /\ p.offset = o
      BY <3>1
    <3>4. /\ v \in 1 .. Len(iov) /\ o < iov[v] /\ d <= First(iov)[v] + o
          /\ First(iov)[v] + o < d + size /\ p.unit = First(iov)[v] + o - d + 1
      BY <1>2, <3>3 DEF PairsFact, P
    <3>5. PICK g \in Nat : g = First(iov)[v] + o
      BY <1>1, <2>1, <3>4, UnitOfVector
    <3>6. p.unit = g - d + 1 /\ d <= g /\ g < d + size
      <4>1. PICK f \in Nat : f = First(iov)[v]
        BY <2>1, <3>4, UnitOfVector
      <4>2. g = f + o /\ p.unit = f + o - d + 1 /\ d <= f + o /\ f + o < d + size
        BY <3>4, <3>5, <4>1
      <4> QED
        BY <2>1, <4>2
    <3>7. p.unit \in 1 .. size /\ d + p.unit - 1 = g
      BY <3>6
    <3>8. buffer[p.unit] = g
      BY <3>7
    <3>9. new(v, o) = g
      BY <1>1, <2>1, <3>4, <3>5
    <3> QED
      BY <3>2, <3>3, <3>8, <3>9
  <2>3. CASE ~(\E p \in P : p.vector = v /\ p.offset = o)
    <3>1. res(v, o) = old(v, o)
      BY <2>3, Zenon
    <3>2. old(v, o) = new(v, o)
      <4>1. CASE v <= Len(iov) /\ o < iov[v]
        <5>1. v \in 1 .. Len(iov)
          BY <1>1, <2>1, <4>1
        <5>2. PICK g \in Nat : g = First(iov)[v] + o
          BY <1>1, <2>1, <4>1, <5>1, UnitOfVector
        <5>3. ~(d <= g /\ g < d + size)
          BY <1>2, <2>1, <2>3, <4>1, <5>1, <5>2 DEF PairsFact, P
        <5>4. g < d <=> g < d + size
          BY <5>3
        <5> QED
          BY <4>1, <5>2, <5>4
      <4>2. CASE ~(v <= Len(iov) /\ o < iov[v])
        BY <4>2, Zenon
      <4> QED
        BY <4>1, <4>2
    <3> QED
      BY <3>1, <3>2
  <2> QED
    BY <2>2, <2>3
<1>4. \A v \in Vector, o \in Offset : Delivered(iov, d)[v][o] = old(v, o)
  BY Zenon DEF Delivered
<1>5. Delivered(iov, d + size) = [v \in Vector |-> [o \in Offset |-> new(v, o)]]
  BY Zenon DEF Delivered
<1>6. [v \in Vector |-> [o \in Offset |->
           IF \E p \in P : p.vector = v /\ p.offset = o
           THEN buffer[the(v, o).unit] ELSE Delivered(iov, d)[v][o]]]
      = [v \in Vector |-> [o \in Offset |-> res(v, o)]]
  <2> HIDE DEF the, old
  <2> QED
    BY <1>4, Zenon
<1>7. [v \in Vector |-> [o \in Offset |-> res(v, o)]]
      = [v \in Vector |-> [o \in Offset |-> new(v, o)]]
  <2> HIDE DEF res, new
  <2> QED
    BY <1>3, Zenon
<1> QED
  BY <1>5, <1>6, <1>7, Zenon DEF P, ScatteredInto

\* What __ve_find_min_posted finds.
LEMMA FindMinSpec ==
    ASSUME NEW posted \in [Buf -> Nat \cup {NotPosted}]
    PROVE  /\ FindMinPosted(posted) \in Buf
           /\ (\E b \in Buf : posted[b] # NotPosted) =>
                  /\ posted[FindMinPosted(posted)] # NotPosted
                  /\ \A b \in Buf : posted[b] # NotPosted =>
                                        posted[FindMinPosted(posted)] <= posted[b]
<1> DEFINE W == {b \in Buf : posted[b] # NotPosted}
           V == {posted[b] : b \in W}
<1>1. CASE W = {}
  <2>1. FindMinPosted(posted) = 0
    BY <1>1, Zenon DEF FindMinPosted
  <2>2. 0 \in Buf
    BY SizesAssumption DEF Buf
  <2> QED
    BY <1>1, <2>1, <2>2
<1>2. CASE W # {}
  <2>1. V \in SUBSET Nat /\ V # {}
    BY <1>2
  <2>2. PICK m \in V : \A f \in V : m <= f
    <3> HIDE DEF V
    <3> QED
      BY <2>1, LeastOf
  <2>3. PICK a \in W : posted[a] = m
    BY <2>2
  <2>4. \A b \in W : posted[a] <= posted[b]
    BY <2>2, <2>3
  <2>5. FindMinPosted(posted) = CHOOSE b \in W : \A l \in W : posted[b] <= posted[l]
    BY <1>2, Zenon DEF FindMinPosted
  <2>6. FindMinPosted(posted) \in W /\ \A l \in W : posted[FindMinPosted(posted)] <= posted[l]
    BY <2>3, <2>4, <2>5, Zenon
  <2> QED
    BY <2>6
<1> QED
  BY <1>1, <1>2

\* A request that asks for something has chunks.
LEMMA SomeChunks ==
    ASSUME NEW count \in Nat \ {0}
    PROVE  0 < Chunks(count)
BY SizesAssumption DEF Chunks

-----------------------------------------------------------------------------
(* Where a buffer's units come from.                                       *)

\* Every unit of a request is in one of its vectors.
LEMMA UnitLocated ==
    ASSUME NEW iov \in Vectors, NEW n \in Nat, n < Total(iov)
    PROVE  \E v \in 1 .. Len(iov) : \E o \in Nat : o < iov[v] /\ First(iov)[v] + o = n
<1> DEFINE S == {v \in 1 .. Len(iov) + 1 : First(iov)[v] > n}
<1>1. /\ iov \in Seq(Nat) /\ Len(iov) \in Nat
      /\ First(iov)[1] = 0
      /\ \A v \in 1 .. Len(iov) + 1 : First(iov)[v] \in Nat
      /\ \A v \in 1 .. Len(iov) :
             First(iov)[v + 1] = First(iov)[v] + iov[v] /\ iov[v] \in Nat
  BY VectorsDef, FirstDef
<1>2. Len(iov) + 1 \in S
  BY <1>1 DEF Total
<1>3. PICK e \in S : \A f \in S : e <= f
  <2>1. S \in SUBSET Nat /\ S # {}
    BY <1>1, <1>2
  <2> HIDE DEF S
  <2> QED
    BY <2>1, LeastOf
<1>4. e # 1
  BY <1>1, <1>3
<1>5. PICK v \in 1 .. Len(iov) : e = v + 1
  BY <1>1, <1>3, <1>4
<1>6. First(iov)[v] <= n
  <2>1. v \in 1 .. Len(iov) + 1 /\ ~(e <= v)
    BY <1>1, <1>5
  <2> QED
    BY <1>1, <1>3, <2>1
<1>7. PICK o \in Nat : First(iov)[v] + o = n
  <2>1. First(iov)[v] \in Nat
    BY <1>1
  <2>2. n - First(iov)[v] \in Nat
    BY <1>6, <2>1
  <2> QED
    BY <2>1, <2>2
<1>8. o < iov[v]
  <2>1. First(iov)[v + 1] > n
    BY <1>3, <1>5
  <2>2. v \in 1 .. Len(iov) + 1
    BY <1>1
  <2>3. /\ First(iov)[v] \in Nat /\ iov[v] \in Nat
        /\ First(iov)[v + 1] = First(iov)[v] + iov[v]
    BY <1>1, <2>2
  <2> QED
    BY <1>7, <2>1, <2>3
<1> QED
  BY <1>7, <1>8

\* A buffer after the units of the vectors were copied to it.
GatheredFrom(buffer, iov, at, size) ==
    [u \in 1 .. Paras |->
        IF \E p \in Pairs(iov, at, size) : p.unit = u
        THEN LET p == CHOOSE q \in Pairs(iov, at, size) : q.unit = u
             IN  First(iov)[p.vector] + p.offset
        ELSE buffer[u]]

\* They are the request's next units.
LEMMA Gather ==
    ASSUME NEW iov \in Vectors, NEW at \in Positions(iov), NEW size \in 0 .. Paras,
           NEW d \in Nat, d = Place(iov, at), d + size <= Total(iov),
           NEW buffer \in Buffer
    PROVE  /\ GatheredFrom(buffer, iov, at, size) \in Buffer
           /\ \A u \in 1 .. size : GatheredFrom(buffer, iov, at, size)[u] = d + u - 1
<1> DEFINE P == Pairs(iov, at, size)
           the(u) == CHOOSE q \in P : q.unit = u
           value(u) == IF \E p \in P : p.unit = u
                       THEN First(iov)[the(u).vector] + the(u).offset ELSE buffer[u]
<1>1. /\ iov \in Seq(Nat) /\ Len(iov) \in Nat /\ Total(iov) \in Nat
      /\ Paras \in Nat \ {0} /\ size \in Nat /\ size <= Paras
  <2>1. Paras \in Nat \ {0}
    BY SizesAssumption, Zenon
  <2> QED
    BY <2>1, VectorsDef
<1>2. PairsFact(iov, at, size, d)
  BY <1>1, PairsSpec
<1> HIDE DEF P
<1>3. ASSUME NEW p \in P
      PROVE  /\ First(iov)[p.vector] + p.offset = d + p.unit - 1
             /\ First(iov)[p.vector] + p.offset \in Unit
  <2>1. /\ p.vector \in 1 .. Len(iov) /\ p.offset \in Nat /\ p.offset < iov[p.vector]
        /\ p.unit = First(iov)[p.vector] + p.offset - d + 1
    BY <1>2 DEF PairsFact, P
  <2>2. First(iov)[p.vector] \in Nat /\ First(iov)[p.vector] + p.offset \in Unit
    BY <2>1, UnitOfVector
  <2> QED
    BY <2>1, <2>2
<1>4. ASSUME NEW u \in 1 .. size PROVE \E p \in P : p.unit = u
  <2>1. PICK n \in Nat : n < Total(iov) /\ d <= n /\ n < d + size /\ u = n - d + 1
    <3>1. PICK n \in Nat : n = d + u - 1
      BY <1>1
    <3>2. n < Total(iov) /\ d <= n /\ n < d + size /\ u = n - d + 1
      BY <1>1, <3>1
    <3> QED
      BY <3>2
  <2>2. PICK v \in 1 .. Len(iov) : \E o \in Nat : o < iov[v] /\ First(iov)[v] + o = n
    BY <2>1, UnitLocated
  <2>3. PICK o \in Nat : o < iov[v] /\ First(iov)[v] + o = n
    BY <2>2
  <2>4. PICK p \in P : p.vector = v /\ p.offset = o
    BY <1>2, <2>1, <2>3 DEF PairsFact, P
  <2>5. p.unit = First(iov)[p.vector] + p.offset - d + 1
    BY <1>2 DEF PairsFact, P
  <2>6. p.unit = n - d + 1
    <3>1. First(iov)[v] \in Nat
      BY <2>3, UnitOfVector
    <3> QED
      BY <2>3, <2>4, <2>5, <3>1
  <2> QED
    BY <2>1, <2>6
<1>5. ASSUME NEW u, \E p \in P : p.unit = u PROVE the(u) \in P /\ the(u).unit = u
  BY <1>5, Zenon
<1>6. ASSUME NEW u \in 1 .. Paras PROVE value(u) \in Unit
  <2>1. CASE \E p \in P : p.unit = u
    <3>1. the(u) \in P
      BY <1>5, <2>1, Zenon
    <3> HIDE DEF the
    <3> QED
      BY <1>3, <2>1, <3>1
  <2>2. CASE ~ \E p \in P : p.unit = u
    <3> HIDE DEF the
    <3> QED
      BY <2>2 DEF Buffer
  <2> QED
    BY <2>1, <2>2
<1>7. ASSUME NEW u \in 1 .. size PROVE value(u) = d + u - 1
  <2>1. the(u) \in P /\ the(u).unit = u
    BY <1>4, <1>5, Zenon
  <2>2. value(u) = First(iov)[the(u).vector] + the(u).offset
    BY <1>4, Zenon
  <2> HIDE DEF the, value
  <2> QED
    BY <1>3, <2>1, <2>2
<1>8. GatheredFrom(buffer, iov, at, size) = [u \in 1 .. Paras |-> value(u)]
  BY Zenon DEF GatheredFrom, P
<1> HIDE DEF value
<1>9. GatheredFrom(buffer, iov, at, size) \in Buffer
  BY <1>6, <1>8 DEF Buffer
<1>10. \A u \in 1 .. size : u \in 1 .. Paras
  BY <1>1
<1> QED
  BY <1>7, <1>8, <1>9, <1>10

\* No unit of a buffer is left when the vectors have that many.
LEMMA NothingLeft ==
    ASSUME NEW iov \in Vectors, NEW at \in Positions(iov), NEW size \in Nat,
           Place(iov, at) + size <= Total(iov)
    PROVE  VeBuffSizeLess(iov, at, size)[Len(iov) + 1] = 0
<1>1. /\ iov \in Seq(Nat) /\ Len(iov) \in Nat /\ at.num \in 1 .. Len(iov) + 1
      /\ at.done \in Nat /\ Total(iov) \in Nat
      /\ First(iov)[at.num] \in Nat /\ Place(iov, at) = First(iov)[at.num] + at.done
      /\ at.num > Len(iov) => Place(iov, at) = Total(iov)
  BY PositionFacts
<1>2. PICK d \in Nat : d = Place(iov, at)
  BY <1>1
<1>3. VeBuffSizeLess(iov, at, size)[Len(iov) + 1] = Beyond(iov, at, size, Len(iov) + 1)
  <2>1. Len(iov) + 1 \in at.num .. Len(iov) + 1
    BY <1>1
  <2> QED
    BY <1>1, <2>1, BuffSizeLess
<1>4. CASE at.num = Len(iov) + 1
  <2>1. size = 0
    BY <1>1, <1>2, <1>4
  <2> QED
    BY <1>3, <1>4, <2>1 DEF Beyond
<1>5. CASE at.num # Len(iov) + 1
  <2>1. ~(Place(iov, at) + size > First(iov)[Len(iov) + 1])
    BY <1>1, <1>2 DEF Total
  <2> QED
    BY <1>3, <1>5, <2>1, Zenon DEF Beyond
<1> QED
  BY <1>4, <1>5
=============================================================================
