-------------------------- MODULE VecMemcpyProofs --------------------------
(***************************************************************************)
(* VecMemcpy for every vector length, every two addresses and every size:  *)
(* the copy is exact at every moment and its vector accesses are legal.    *)
(***************************************************************************)
EXTENDS VecMemcpy, TLAPS

-----------------------------------------------------------------------------
(* The inductive invariant behind the properties.                          *)

\* The three registers stay in step, and mem is the prefix they passed.
Progress ==
    /\ p >= dest
    /\ q = src + (p - dest)
    /\ i = n - (p - dest)
    /\ DOMAIN mem = dest .. p - 1
    /\ \A a \in DOMAIN mem : mem[a] = src + (a - dest)

\* What each label may rely on.  At "pre" at most 7 bytes will have been
\* copied when the destination is aligned, of at least 40.
Arrived ==
    /\ pc = "EoP" => p = dest
    /\ pc = "pre" =>
        /\ n >= 40
        /\ p % w = q % w
        /\ ~Aligned(p, w)
        /\ (p - dest) + (w - (p % w)) <= 7
    /\ pc \in {"vector", "loop", "rem_1"} => Aligned(p, w) /\ Aligned(q, w)
    /\ pc = "loop" => i >= MVL * w /\ vl = MVL
    /\ pc = "rem_1" => i < MVL * w
    /\ pc = "rem_2" => i < w
    /\ pc = "post" => i > 0
    /\ pc = "scalar" => i >= 8 /\ w = 8
    /\ pc = "epilogue" => i = 0

IInv == TypeOK /\ Progress /\ Arrived

-----------------------------------------------------------------------------
\* Elements have 4 or 8 bytes; each fact about an address modulo the size of
\* an element is found by the solver for one size at a time.
LEMMA Remainder ==
    ASSUME NEW width \in {4, 8}, NEW a \in Nat
    PROVE  a % width \in 0 .. width - 1
<1>1. CASE width = 4
  BY <1>1, SMT
<1>2. CASE width = 8
  BY <1>2, SMT
<1> QED
  BY <1>1, <1>2

\* A number of elements and a remainder make up every length.
LEMMA Division ==
    ASSUME NEW width \in {4, 8}, NEW a \in Nat
    PROVE  /\ a \div width \in Nat
           /\ (a \div width) * width <= a
           /\ a - (a \div width) * width < width
<1>1. CASE width = 4
  BY <1>1, SMT
<1>2. CASE width = 8
  BY <1>2, SMT
<1> QED
  BY <1>1, <1>2

\* One byte further the remainder is one more, or the address is aligned.
LEMMA NextByte ==
    ASSUME NEW width \in {4, 8}, NEW a \in Nat, ~Aligned(a + 1, width)
    PROVE  (a + 1) % width = (a % width) + 1
<1>1. CASE width = 4
  BY <1>1, SMT DEF Aligned
<1>2. CASE width = 8
  BY <1>2, SMT DEF Aligned
<1> QED
  BY <1>1, <1>2

\* Two addresses that agree modulo the size agree one byte further.
LEMMA SameRemainder ==
    ASSUME NEW width \in {4, 8}, NEW a \in Nat, NEW b \in Nat,
           a % width = b % width
    PROVE  (a + 1) % width = (b + 1) % width
<1>1. CASE width = 4
  BY <1>1, SMT
<1>2. CASE width = 8
  BY <1>2, SMT
<1> QED
  BY <1>1, <1>2

\* Whole elements do not change the alignment.
LEMMA WholeElements ==
    ASSUME NEW width \in {4, 8}, NEW a \in Nat, NEW k \in Nat,
           Aligned(a, width)
    PROVE  Aligned(a + k * width, width)
<1>1. CASE width = 4
  BY <1>1, SMT DEF Aligned
<1>2. CASE width = 8
  BY <1>2, SMT DEF Aligned
<1> QED
  BY <1>1, <1>2

\* Fewer bytes than a full vector are fewer elements than MVL.
LEMMA ShorterVector ==
    ASSUME NEW width \in {4, 8}, NEW a \in Nat, a < MVL * width
    PROVE  a \div width \in 0 .. MVL
<1>1. CASE width = 4
  BY <1>1, MVLAssumption, SMT
<1>2. CASE width = 8
  BY <1>2, MVLAssumption, SMT
<1> QED
  BY <1>1, <1>2

-----------------------------------------------------------------------------
\* A copy that fits into the bytes left keeps registers and memory in step.
LEMMA CopyStep ==
    ASSUME TypeOK, Progress, NEW len \in Nat, len <= i, Copy(len),
           UNCHANGED args
    PROVE  /\ Progress'
           /\ p' \in Nat /\ q' \in Nat /\ i' \in 0 .. n
           /\ DOMAIN mem' \subseteq Nat
<1> USE DEF TypeOK, Progress, Copy, args
<1>1. /\ p' = p + len /\ q' = q + len /\ i' = i - len
      /\ p' \in Nat /\ q' \in Nat /\ i' \in 0 .. n
      /\ dest' = dest /\ src' = src /\ n' = n
  OBVIOUS
<1>2. DOMAIN mem' = dest .. p' - 1
  BY <1>1
<1>3. ASSUME NEW a \in DOMAIN mem' PROVE mem'[a] = src + (a - dest)
  <2>1. CASE a \in p .. p + len - 1
    <3>1. mem'[a] = q + (a - p)
      BY <2>1, <1>1, <1>2
    <3> QED
      BY <3>1, <2>1
  <2>2. CASE a \notin p .. p + len - 1
    <3>1. a \in DOMAIN mem /\ mem'[a] = mem[a]
      BY <2>2, <1>3
    <3> QED
      BY <3>1
  <2> QED
    BY <2>1, <2>2
<1> QED
  BY <1>1, <1>2, <1>3

\* Nothing is copied: registers and memory stay as they are.
LEMMA NoCopyStep ==
    ASSUME TypeOK, Progress, UNCHANGED <<args, p, q, i, mem>>
    PROVE  /\ Progress'
           /\ p' \in Nat /\ q' \in Nat /\ i' \in 0 .. n
           /\ DOMAIN mem' \subseteq Nat
  BY DEF TypeOK, Progress, args

\* A copy starts with nothing copied.
LEMMA InitHolds == Init => IInv
  BY MVLAssumption, ArgumentsAssumption
  DEF Init, IInv, TypeOK, Progress, Arrived, PC, VectorPC

\* Every action keeps the strengthened invariant: the loops that copy without
\* a look at what is left are entered only where enough is left.
LEMMA StepHolds == IInv /\ [Next]_vars => IInv'
<1> SUFFICES ASSUME TypeOK, Progress, Arrived, [Next]_vars PROVE IInv'
  BY DEF IInv
<1> USE DEF Goto, args, PC, VectorPC
<1>0. /\ dest \in Nat /\ src \in Nat /\ n \in Nat /\ p \in Nat /\ q \in Nat
      /\ i \in 0 .. n /\ w \in {4, 8} /\ vl \in 0 .. MVL /\ MVL \in Nat \ {0}
  BY MVLAssumption DEF TypeOK
<1>1. CASE EoP
  <2>1. /\ Progress' /\ UNCHANGED <<dest, src, n, p, q, i, vl>>
        /\ DOMAIN mem' \subseteq Nat
    BY <1>1, NoCopyStep DEF EoP
  <2>2. p = dest /\ q = src /\ i = n
    BY <1>0, <1>1 DEF EoP, Arrived, Progress
  <2>3. ASSUME NEW width \in {4, 8}, Vectors(width) PROVE IInv'
    <3>1. n >= 40 /\ w' = width /\ p % width = q % width
      BY <2>2, <2>3, <1>0 DEF Vectors, Short, SameAlignment
    <3>2. CASE Aligned(p, width)
      BY <1>0, <2>1, <2>3, <3>1, <3>2 DEF Vectors, IInv, TypeOK, Arrived, Aligned
    <3>3. CASE ~Aligned(p, width)
      <4>1. p % width \in 1 .. width - 1
        BY <1>0, <3>3, Remainder DEF Aligned
      <4>2. (p - dest) + (width - (p % width)) <= 7
        BY <1>0, <2>2, <4>1
      <4> QED
        BY <1>0, <2>1, <2>3, <3>1, <3>3, <4>2
        DEF Vectors, IInv, TypeOK, Arrived, Aligned
    <3> QED
      BY <3>2, <3>3
  <2>4. CASE Scalars
    BY <1>0, <2>1, <2>4, SMT DEF Scalars, IInv, TypeOK, Arrived
  <2> QED
    BY <1>1, <2>3, <2>4 DEF EoP
<1>2. CASE Pre
  <2>1. /\ n >= 40 /\ p % w = q % w /\ ~Aligned(p, w)
        /\ (p - dest) + (w - (p % w)) <= 7
    BY <1>2 DEF Pre, Arrived
  <2>2. p % w \in 1 .. w - 1
    BY <1>0, <2>1, Remainder DEF Aligned
  <2>3. 1 <= i
    BY <1>0, <2>1, <2>2 DEF Progress
  <2>4. /\ Progress' /\ p' \in Nat /\ q' \in Nat /\ i' \in 0 .. n
        /\ DOMAIN mem' \subseteq Nat
    BY <1>2, <2>3, CopyStep DEF Pre
  <2>5. p' = p + 1 /\ q' = q + 1 /\ UNCHANGED <<dest, src, n, w, vl>>
    BY <1>2 DEF Pre, Copy
  <2>6. p' % w = q' % w
    BY <1>0, <2>1, <2>5, SameRemainder
  <2>7. CASE Aligned(p', w)
    BY <1>0, <1>2, <2>4, <2>5, <2>6, <2>7
    DEF Pre, IInv, TypeOK, Arrived, Aligned
  <2>8. CASE ~Aligned(p', w)
    <3>1. p' % w = (p % w) + 1
      BY <1>0, <2>5, <2>8, NextByte
    <3>2. (p' - dest) + (w - (p' % w)) <= 7
      BY <1>0, <2>1, <2>2, <2>5, <3>1
    <3> QED
      BY <1>0, <1>2, <2>1, <2>4, <2>5, <2>6, <2>8, <3>2
      DEF Pre, IInv, TypeOK, Arrived
  <2> QED
    BY <2>7, <2>8
<1>3. CASE Vector
  <2>1. Progress' /\ DOMAIN mem' \subseteq Nat
    BY <1>3, NoCopyStep DEF Vector
  <2> QED
    BY <1>0, <1>3, <2>1 DEF Vector, IInv, TypeOK, Arrived, Aligned
<1>4. CASE Loop
  <2>1. Aligned(p, w) /\ Aligned(q, w) /\ i >= MVL * w /\ vl = MVL
    BY <1>4 DEF Loop, Arrived
  <2>2. vl * w \in Nat /\ vl * w <= i
    BY <1>0, <2>1
  <2>3. /\ Progress' /\ p' \in Nat /\ q' \in Nat /\ i' \in 0 .. n
        /\ DOMAIN mem' \subseteq Nat
    BY <1>4, <2>2, CopyStep DEF Loop
  <2>4. Aligned(p', w) /\ Aligned(q', w)
    BY <1>0, <1>4, <2>1, WholeElements DEF Loop, Copy
  <2>5. UNCHANGED <<dest, src, n, w, vl, MVL * w>>
    BY <1>4 DEF Loop
  <2>6. CASE i' >= MVL * w
    BY <1>0, <1>4, <2>1, <2>3, <2>4, <2>5, <2>6 DEF Loop, IInv, TypeOK, Arrived
  <2>7. CASE ~(i' >= MVL * w)
    <3>1. i' < MVL * w
      BY <1>0, <2>3, <2>7
    <3> QED
      BY <1>0, <1>4, <2>3, <2>4, <2>5, <2>7, <3>1 DEF Loop, IInv, TypeOK, Arrived
  <2> QED
    BY <2>6, <2>7
<1>5. CASE Rem1
  <2>1. vl' = i \div w /\ i < MVL * w
    BY <1>5 DEF Rem1, Arrived
  <2>2. /\ vl' \in 0 .. MVL
        /\ vl' * w \in Nat /\ vl' * w <= i /\ i - vl' * w < w
    BY <1>0, <2>1, Division, ShorterVector
  <2>3. /\ Progress' /\ p' \in Nat /\ q' \in Nat /\ i' \in 0 .. n
        /\ DOMAIN mem' \subseteq Nat
    BY <1>5, <2>2, CopyStep DEF Rem1
  <2> QED
    BY <1>0, <1>5, <2>2, <2>3 DEF Rem1, Copy, IInv, TypeOK, Arrived
<1>6. CASE Rem1None
  <2>1. Progress' /\ DOMAIN mem' \subseteq Nat
    BY <1>6, NoCopyStep DEF Rem1None
  <2>2. i < w
    BY <1>0, <1>6, Division DEF Rem1None
  <2> QED
    BY <1>0, <1>6, <2>1, <2>2 DEF Rem1None, IInv, TypeOK, Arrived
<1>7. CASE Rem2
  <2>1. Progress' /\ DOMAIN mem' \subseteq Nat
    BY <1>7, NoCopyStep DEF Rem2
  <2>2. i < w
    BY <1>7 DEF Rem2, Arrived
  <2>3. i % w = 0 => i = 0
    <3>1. CASE w = 4
      BY <1>0, <2>2, <3>1, SMT
    <3>2. CASE w = 8
      BY <1>0, <2>2, <3>2, SMT
    <3> QED
      BY <1>0, <3>1, <3>2
  <2>4. i % w # 0 => i > 0
    <3>1. CASE w = 4
      BY <1>0, <3>1, SMT
    <3>2. CASE w = 8
      BY <1>0, <3>2, SMT
    <3> QED
      BY <1>0, <3>1, <3>2
  <2> QED
    BY <1>0, <1>7, <2>1, <2>3, <2>4 DEF Rem2, IInv, TypeOK, Arrived
<1>8. CASE Post
  <2>1. 1 <= i
    BY <1>0, <1>8 DEF Post, Arrived
  <2>2. /\ Progress' /\ p' \in Nat /\ q' \in Nat /\ i' \in 0 .. n
        /\ DOMAIN mem' \subseteq Nat
    BY <1>8, <2>1, CopyStep DEF Post
  <2> QED
    BY <1>0, <1>8, <2>2 DEF Post, IInv, TypeOK, Arrived
<1>9. CASE Scalar
  <2>1. 8 <= i /\ w = 8
    BY <1>0, <1>9 DEF Scalar, Arrived
  <2>2. /\ Progress' /\ p' \in Nat /\ q' \in Nat /\ i' \in 0 .. n
        /\ DOMAIN mem' \subseteq Nat
    BY <1>9, <2>1, CopyStep DEF Scalar
  <2>3. /\ i' \div 8 # 0 => i' >= 8
        /\ i' \div 8 = 0 /\ i' % 8 = 0 => i' = 0
        /\ i' % 8 # 0 => i' > 0
    <3>1. i' \in Nat
      BY <1>0, <2>2
    <3>2. ASSUME NEW a \in Nat
          PROVE  /\ a \div 8 # 0 => a >= 8
                 /\ a \div 8 = 0 /\ a % 8 = 0 => a = 0
                 /\ a % 8 # 0 => a > 0
      BY SMT
    <3> QED
      BY <3>1, <3>2
  <2> QED
    BY <1>0, <1>9, <2>1, <2>2, <2>3 DEF Scalar, IInv, TypeOK, Arrived
<1>10. CASE UNCHANGED vars
  BY <1>10 DEF vars, IInv, TypeOK, Progress, Arrived, Aligned
<1> QED
  BY <1>1, <1>2, <1>3, <1>4, <1>5, <1>6, <1>7, <1>8, <1>9, <1>10 DEF Next

-----------------------------------------------------------------------------
\* The strengthened invariant holds for ever.
THEOREM Invariance == Spec => []IInv
  BY InitHolds, StepHolds, PTL DEF Spec

\* No register leaves its range: in particular i never becomes negative, which
\* would end a loop late and copy bytes nobody asked for.
THEOREM TypeCorrect == Spec => []TypeOK
<1>1. IInv => TypeOK
  BY DEF IInv
<1> QED
  BY <1>1, Invariance, PTL

\* The routine is memcpy for every vector length, alignment and size.
THEOREM CopyCorrect == Spec => []CopiedExactly
<1>1. IInv => CopiedExactly
  BY DEF IInv, TypeOK, Progress, Arrived, CopiedExactly
<1> QED
  BY <1>1, Invariance, PTL

\* Vector accesses are aligned and never longer than the registers.
THEOREM VectorCorrect == Spec => []VectorLegal
<1>1. IInv => VectorLegal
  <2> SUFFICES ASSUME IInv, pc \in VectorPC PROVE VectorLegal
    BY DEF VectorLegal
  <2>1. w \in {4, 8} /\ i \in Nat
    BY DEF IInv, TypeOK
  <2>2. CASE pc = "loop"
    BY <2>2 DEF IInv, Arrived, VectorLegal
  <2>3. CASE pc = "rem_1"
    <3>1. i < MVL * w
      BY <2>3 DEF IInv, Arrived
    <3>2. i \div w \in 0 .. MVL
      BY <2>1, <3>1, ShorterVector
    <3> QED
      BY <2>3, <3>2, MVLAssumption DEF IInv, Arrived, VectorLegal
  <2> QED
    BY <2>2, <2>3 DEF VectorPC
<1> QED
  BY <1>1, Invariance, PTL

=============================================================================
