-------------------------- MODULE VhcallArgsProofs -------------------------
(***************************************************************************)
(* VhcallArgs for every finite set of elements, every range of argument    *)
(* numbers and every set of values: the types, the safety of the list and  *)
(* of the buffer filled from it, and the refinement of VhcallMap.          *)
(***************************************************************************)
EXTENDS VhcallArgs, FiniteSetTheorems, WellFoundedInduction, TLAPS

-----------------------------------------------------------------------------
(* The inductive invariant behind the properties.                          *)

Elem == alloc \cup {"head"}

Numbers == {num[x] : x \in alloc}

\* The links of S lead from each of its elements to the one with the next
\* higher number, and no two have the same.
Sorted(S) ==
    /\ \A x \in S : next[x] # Null => next[x] \in S /\ num[x] < num[next[x]]
    /\ \A x, y \in S : num[x] = num[y] => x = y
    /\ \A x, y \in S : num[x] < num[y] => next[x] # Null /\ num[next[x]] <= num[y]

\* The list is sorted behind its head, and in vhcall_args_clear, where the
\* head's link dangles, from p on.
ListInv ==
    /\ num["head"] = -1 /\ data["head"] = Zero
    /\ \A x \in alloc : num[x] \in Number
    /\ pc # "clear" => Sorted(Elem)
    /\ pc = "clear" =>
        /\ Sorted(alloc)
        /\ p \in alloc \cup {Null}
        /\ p = Null => alloc = {}
        /\ \A x \in alloc : num[p] <= num[x]
    /\ pc = "none" => alloc = {}

\* A setter returns to its caller or to the invocation it fills a gap for.
BackInv ==
    /\ pc = "walk" => back \in {"ready", "count"}
    /\ pc = "clear" => back \in {"ready", "none"}
    /\ pc \notin {"walk", "clear"} => back = "ready"

\* A walk stands on an element behind tmp, whose number is too low.
WalkInv ==
    pc = "walk" =>
        /\ p \in Elem
        /\ p # "head" => tmp \in Elem /\ next[tmp] = p /\ num[tmp] < argnum

\* The first pass of an invocation, with the setter calls it makes.
FirstPass == pc \in {"check", "count"} \/ (pc = "walk" /\ back = "count")
SecondPass == pc \in {"buffer", "build"}

\* The gap a setter is filling is still open, behind the element reached.
FillInv ==
    pc = "walk" /\ back = "count" =>
        /\ argnum = num[it] + 1 /\ argnum \notin Numbers
        /\ val = Zero
        /\ args_num # -1
        /\ \/ argnum < args_num
           \/ argnum = args_num /\ \E x \in alloc : num[x] > argnum

\* The elements a pass has left behind, and the records such elements take.
Passed == IF it = Null THEN alloc ELSE {x \in alloc : num[x] < num[it]}
Weight(S) == Cardinality(S) + Cardinality({x \in S : data[x] \in Complex})

\* Up to the element reached no number is missing, and what lies behind it
\* has been counted.
CountInv ==
    /\ FirstPass =>
        /\ it \in Elem /\ 0 .. num[it] \subseteq Numbers
        /\ insize = Weight(Passed) /\ in = <<>>
    /\ pc = "count" => ~TooMany /\ ~Gap

Arguments == [n \in Numbers |-> data[CHOOSE x \in alloc : num[x] = n]]

\* The records of the arguments numbered below m.
Records(m) == Object!FlattenSeq([k \in 1 .. m |-> Object!Parts(Arguments[k - 1])])

\* In the second pass no number is missing, the buffer has room for all, and
\* it holds the records of those left behind.
BuildInv ==
    SecondPass =>
        /\ Cardinality(Numbers) \in Nat
        /\ Numbers = 0 .. Cardinality(Numbers) - 1
        /\ args_num \in {-1, Cardinality(Numbers)}
        /\ insize = Weight(alloc)
        /\ pc = "buffer" => it = Null /\ in = <<>>
        /\ pc = "build" =>
            /\ it \in alloc \cup {Null}
            /\ in \in Seq(Value \X {"all", "re", "im"})
            /\ Len(in) = Weight(Passed)
            /\ in = Records(IF it = Null THEN Cardinality(Numbers) ELSE num[it])

\* Outside an invocation there is no buffer.
IdleInv == ~FirstPass /\ ~SecondPass => it = Null /\ insize = 0 /\ in = <<>>

IInv == TypeOK /\ ListInv /\ BackInv /\ WalkInv /\ FillInv /\ CountInv /\ BuildInv /\ IdleInv

-----------------------------------------------------------------------------
(* Sorted links.                                                           *)

\* A set of natural numbers that is not empty has a least one.
LEMMA LeastOf ==
    ASSUME NEW S \in SUBSET Nat, S # {}
    PROVE  \E e \in S : \A f \in S : e <= f
<1>1. PICK m \in S : \A d \in S : ~(<<d, m>> \in OpToRel(<, Nat))
  BY NatLessThanWellFounded, WFMin, Zenon
<1>2. \A d \in S : ~(d < m)
  BY <1>1 DEF OpToRel
<1> QED
  BY <1>2

\* What the types say of the elements in use.
LEMMA ElemTypes ==
    ASSUME TypeOK
    PROVE  /\ alloc \subseteq Node /\ "head" \notin alloc /\ Null \notin Elem /\ Elem \subseteq Item
           /\ \A x \in Item : num[x] \in Int /\ next[x] \in Node \cup {Null} /\ data[x] \in Value
           /\ Null \notin Item /\ Number \subseteq Nat
<1> USE NamesAssumption, NumberAssumption DEF Item
<1>1. /\ alloc \subseteq Node /\ "head" \notin alloc /\ Null \notin Elem /\ Elem \subseteq Item
      /\ Null \notin Item /\ Number \subseteq Nat
  BY DEF TypeOK, Elem
<1>2. ASSUME NEW x \in Item
      PROVE  num[x] \in Int /\ next[x] \in Node \cup {Null} /\ data[x] \in Value
  <2>1. num[x] \in Number \cup {-1} /\ next[x] \in Node \cup {Null} /\ data[x] \in Value
    BY DEF TypeOK
  <2>2. Number \cup {-1} \subseteq Int
    OBVIOUS
  <2> QED
    BY <2>1, <2>2
<1> QED
  BY <1>1, <1>2

\* From its first element on, the links reach all of a sorted set and no more.
LEMMA FromSorted ==
    ASSUME TypeOK, NEW S \in SUBSET Item, Sorted(S), NEW x \in S,
           \A y \in S : num[x] <= num[y]
    PROVE  From(x) = S
<1>1. /\ Null \notin Item
      /\ \A y \in S : num[y] \in Int
  BY ElemTypes
<1>2. From(x) \subseteq S
  <2>1. Closed(S)
    BY DEF Closed, Sorted
  <2> QED
    BY <2>1 DEF From
<1>3. ASSUME NEW y \in S, NEW T \in SUBSET Item, x \in T \cup {Null}, Closed(T), y \notin T
      PROVE  FALSE
  <2> DEFINE Dist == {num[y] - num[z] : z \in {z \in S \cap T : num[z] < num[y]}}
  <2>1. x \in T
    BY <1>1, <1>3
  <2>2. num[x] < num[y]
    <3>1. num[x] # num[y]
      BY <1>3, <2>1 DEF Sorted
    <3> QED
      BY <1>1, <3>1
  <2>3. Dist \in SUBSET Nat
    BY <1>1
  <2>4. num[y] - num[x] \in Dist
    BY <2>1, <2>2
  <2>5. PICK e \in Dist : \A f \in Dist : e <= f
    <3> HIDE DEF Dist
    <3> QED
      BY <2>3, <2>4, LeastOf
  <2>6. PICK z \in S \cap T : num[z] < num[y] /\ e = num[y] - num[z]
    BY <2>5
  <2>7. /\ next[z] \in S \cap T /\ num[z] < num[next[z]] /\ num[next[z]] <= num[y]
    <3>1. next[z] # Null /\ num[next[z]] <= num[y]
      BY <2>6 DEF Sorted
    <3>2. next[z] \in S /\ num[z] < num[next[z]]
      BY <3>1 DEF Sorted
    <3>3. next[z] \in T
      BY <3>1, <1>3 DEF Closed
    <3> QED
      BY <3>1, <3>2, <3>3
  <2>8. next[z] # y
    BY <1>3, <2>7
  <2>9. num[next[z]] # num[y]
    BY <2>7, <2>8 DEF Sorted
  <2>10. num[y] - num[next[z]] \in Dist
    BY <1>1, <2>7, <2>9
  <2> QED
    BY <1>1, <2>5, <2>6, <2>7, <2>10
<1>4. S \subseteq From(x)
  BY <1>3 DEF From
<1> QED
  BY <1>2, <1>4

\* What vhcall_args_append does to the links: a new element goes between old,
\* whose number is lower, and the one behind it, whose number is higher.
LEMMA LinkedSorted ==
    ASSUME TypeOK, Sorted(Elem), NEW old \in Elem, NEW new \in Node \ alloc,
           num[old] < argnum, next[old] # Null => argnum < num[next[old]],
           Link(old, new)
    PROVE  /\ Sorted(Elem)' /\ Elem' = Elem \cup {new}
           /\ next'[new] = next[old] /\ next'[old] = new /\ num'[new] = argnum
           /\ \A x \in Elem : num'[x] = num[x] /\ data'[x] = data[x] /\ (x # old => next'[x] = next[x])
<1>1. /\ "head" \notin alloc /\ Elem \subseteq Item /\ Null \notin Elem \cup {new} /\ "head" # new
      /\ \A x \in Item : num[x] \in Int /\ next[x] \in Node \cup {Null}
      /\ argnum \in Int /\ new \in Item /\ new \notin Elem
  BY ElemTypes, NamesAssumption, NumberAssumption DEF TypeOK, Item, Elem
<1>2. Elem' = Elem \cup {new}
  BY DEF Link, Elem
<1>3. /\ next'[new] = next[old] /\ next'[old] = new /\ num'[new] = argnum
      /\ \A x \in Elem : num'[x] = num[x] /\ data'[x] = data[x] /\ (x # old => next'[x] = next[x])
  BY <1>1 DEF Link, TypeOK
<1>4. next[old] # Null => next[old] \in Elem
  BY DEF Sorted
<1>5. ASSUME NEW x \in Elem \cup {new}, next'[x] # Null
      PROVE  next'[x] \in Elem \cup {new} /\ num'[x] < num'[next'[x]]
  <2>1. CASE x = new
    BY <1>3, <1>4, <1>5, <2>1
  <2>2. CASE x = old
    BY <1>3, <2>2
  <2>3. CASE x \in Elem \ {old}
    <3>1. next[x] \in Elem /\ num[x] < num[next[x]]
      BY <1>3, <1>5, <2>3 DEF Sorted
    <3> QED
      BY <1>3, <2>3, <3>1
  <2> QED
    BY <2>1, <2>2, <2>3
<1>6. \A x \in Elem : num[x] # argnum
  <2> SUFFICES ASSUME NEW x \in Elem, num[x] = argnum PROVE FALSE
    OBVIOUS
  <2>1. next[old] # Null /\ num[next[old]] <= argnum
    BY DEF Sorted
  <2> QED
    BY <1>1, <1>4, <2>1
<1>7. ASSUME NEW x \in Elem \cup {new}, NEW y \in Elem \cup {new}, num'[x] = num'[y]
      PROVE  x = y
  BY <1>3, <1>6, <1>7 DEF Sorted
<1>8. ASSUME NEW x \in Elem \cup {new}, NEW y \in Elem \cup {new}, num'[x] < num'[y]
      PROVE  next'[x] # Null /\ num'[next'[x]] <= num'[y]
  <2>1. CASE x = old
    <3>1. CASE y = new
      BY <1>1, <1>3, <2>1, <3>1
    <3>2. CASE y \in Elem
      <4>1. next[old] # Null /\ num[next[old]] <= num[y]
        BY <1>3, <1>8, <2>1, <3>2 DEF Sorted
      <4> QED
        BY <1>1, <1>3, <1>4, <2>1, <3>2, <4>1
    <3> QED
      BY <3>1, <3>2
  <2>2. CASE x = new
    <3>1. y \in Elem /\ argnum < num[y]
      BY <1>1, <1>3, <1>8, <2>2
    <3>2. num[old] < num[y]
      BY <1>1, <3>1
    <3>3. next[old] # Null /\ num[next[old]] <= num[y]
      BY <3>1, <3>2 DEF Sorted
    <3> QED
      BY <1>3, <1>4, <2>2, <3>1, <3>3
  <2>3. CASE x \in Elem \ {old} /\ y = new
    <3>1. num[x] < argnum
      BY <1>3, <1>8, <2>3
    <3>2. num[x] < num[old]
      <4>1. num[x] # num[old]
        BY <2>3 DEF Sorted
      <4>2. ~(num[old] < num[x])
        <5> SUFFICES ASSUME num[old] < num[x] PROVE FALSE
          OBVIOUS
        <5>1. next[old] # Null /\ num[next[old]] <= num[x]
          BY <2>3 DEF Sorted
        <5> QED
          BY <1>1, <1>4, <2>3, <3>1, <5>1
      <4> QED
        BY <1>1, <2>3, <4>1, <4>2
    <3>3. next[x] # Null /\ num[next[x]] <= num[old] /\ next[x] \in Elem
      BY <2>3, <3>2 DEF Sorted
    <3> QED
      BY <1>1, <1>3, <2>3, <3>3
  <2>4. CASE x \in Elem \ {old} /\ y \in Elem
    <3>1. next[x] # Null /\ num[next[x]] <= num[y] /\ next[x] \in Elem
      BY <1>3, <1>8, <2>4 DEF Sorted
    <3> QED
      BY <1>3, <2>4, <3>1
  <2> QED
    BY <2>1, <2>2, <2>3, <2>4
<1>9. Sorted(Elem)'
  BY <1>2, <1>5, <1>7, <1>8 DEF Sorted
<1> QED
  BY <1>2, <1>3, <1>9

\* Wherever vhcall_args_append makes a new element, it is the right place.
LEMMA InsertPlace ==
    ASSUME IInv, WalkAppend \/ WalkInsert
    PROVE  \E old \in Elem, new \in Node \ alloc :
             /\ num[old] < argnum
             /\ next[old] # Null => argnum < num[next[old]]
             /\ Link(old, new)
<1>1. alloc # Node => (CHOOSE new \in Node : new \notin alloc) \in Node \ alloc
  <2>1. alloc # Node => \E new \in Node : new \notin alloc
    BY ElemTypes DEF IInv
  <2> QED
    BY <2>1
<1>2. CASE WalkAppend
  <2>1. p \in Elem /\ num[p] < argnum /\ next[p] = Null
    BY <1>2 DEF WalkAppend, IInv, WalkInv
  <2> QED
    BY <1>1, <1>2, <2>1 DEF WalkAppend, LinkAfter
<1>3. CASE WalkInsert
  <2>1. pc = "walk" /\ p \in Elem /\ argnum < num[p]
    <3>1. pc = "walk" /\ p \in Elem /\ num[p] > argnum
      BY <1>3 DEF WalkInsert, IInv, WalkInv
    <3> QED
      BY <3>1, ElemTypes, NumberAssumption DEF IInv, TypeOK
  <2>2. p # "head"
    BY <2>1, NumberAssumption DEF IInv, TypeOK, ListInv
  <2>3. tmp \in Elem /\ next[tmp] = p /\ num[tmp] < argnum
    BY <2>1, <2>2 DEF IInv, WalkInv
  <2> QED
    BY <1>1, <1>3, <2>1, <2>3 DEF WalkInsert, LinkAfter
<1> QED
  BY <1>2, <1>3

\* Induction over an interval, for a set instead of a predicate.
LEMMA IntervalInduction ==
    ASSUME NEW b \in Nat, NEW S, 1 \in S, \A n \in 1 .. b : n \in S => n + 1 \in S
    PROVE  \A n \in 1 .. b + 1 : n \in S
<1> SUFFICES ASSUME NEW n \in 1 .. b + 1, n \notin S PROVE FALSE
  OBVIOUS
<1> DEFINE Out == {d \in Nat : d \in 1 .. b + 1 /\ d \notin S}
<1>1. PICK m \in Out : \A d \in Out : m <= d
  <2>1. Out \in SUBSET Nat /\ n \in Out
    OBVIOUS
  <2> HIDE DEF Out
  <2> QED
    BY <2>1, LeastOf
<1>2. m # 1 /\ m \in 1 .. b + 1 /\ m \notin S
  BY <1>1
<1>3. m - 1 \in 1 .. b /\ m - 1 \notin Out /\ m - 1 \in Nat /\ (m - 1) + 1 = m
  BY <1>1, <1>2
<1>4. m - 1 \in S
  BY <1>3
<1> QED
  BY <1>2, <1>3, <1>4

-----------------------------------------------------------------------------
(* The records of the arguments in order.                                  *)

\* FlattenSeq appends the sequences one to another from the first on.
FlattenEq(s, n, f) == f = [i \in 1 .. n |-> IF i = 1 THEN s[i] ELSE f[i - 1] \o s[i]]

\* There is a function that does.
LEMMA FlattenExists ==
    ASSUME NEW s, NEW n \in Nat \ {0}
    PROVE  \E f : FlattenEq(s, n, f)
<1> DEFINE S == {k \in 1 .. n : \E f : FlattenEq(s, k, f)}
<1>1. 1 \in S
  <2>1. FlattenEq(s, 1, [i \in 1 .. 1 |-> s[1]])
    BY DEF FlattenEq
  <2> QED
    BY <2>1
<1>2. ASSUME NEW k \in 1 .. n - 1, k \in S PROVE k + 1 \in S
  <2>1. PICK f : FlattenEq(s, k, f)
    BY <1>2
  <2> DEFINE g == [i \in 1 .. k + 1 |-> IF i = k + 1 THEN f[k] \o s[k + 1] ELSE f[i]]
  <2>2. ASSUME NEW i \in 1 .. k + 1
        PROVE  g[i] = IF i = 1 THEN s[i] ELSE g[i - 1] \o s[i]
    <3>1. CASE i = k + 1
      <4>1. i # 1 /\ i - 1 \in 1 .. k + 1 /\ i - 1 # k + 1 /\ i - 1 = k
        BY <3>1
      <4> QED
        BY <3>1, <4>1
    <3>2. CASE i # k + 1
      <4>1. i \in 1 .. k
        BY <3>2
      <4>2. f[i] = IF i = 1 THEN s[i] ELSE f[i - 1] \o s[i]
        BY <2>1, <4>1 DEF FlattenEq
      <4>3. i # 1 => i - 1 \in 1 .. k + 1 /\ i - 1 # k + 1
        BY <4>1
      <4> QED
        BY <3>2, <4>1, <4>2, <4>3
    <3> QED
      BY <3>1, <3>2
  <2>3. FlattenEq(s, k + 1, g)
    <3>1. g = [i \in 1 .. k + 1 |-> g[i]]
      OBVIOUS
    <3> HIDE DEF g
    <3> QED
      BY <2>2, <3>1 DEF FlattenEq
  <2> HIDE DEF g
  <2>4. k + 1 \in 1 .. n
    OBVIOUS
  <2> QED
    BY <2>3, <2>4
<1>3. \A k \in 1 .. (n - 1) + 1 : k \in S
  <2> HIDE DEF S
  <2>1. n - 1 \in Nat
    OBVIOUS
  <2> QED
    BY <1>1, <1>2, <2>1, IntervalInduction
<1>4. n \in S
  BY <1>3
<1> QED
  BY <1>4

\* FlattenSeq is its last value.
LEMMA FlattenDef ==
    ASSUME NEW g, NEW n \in Nat \ {0}
    PROVE  \E f : /\ FlattenEq([k \in 1 .. n |-> g[k]], n, f)
                 /\ Object!FlattenSeq([k \in 1 .. n |-> g[k]]) = f[n]
<1> DEFINE s == [k \in 1 .. n |-> g[k]]
<1>1. Len(s) = n /\ Len(s) # 0
  OBVIOUS
<1> DEFINE F == CHOOSE f : FlattenEq(s, n, f)
<1>2. FlattenEq(s, n, F)
  <2> HIDE DEF s
  <2>1. \E f : FlattenEq(s, n, f)
    BY FlattenExists
  <2> QED
    BY <2>1
<1>3. Object!FlattenSeq(s) = F[n]
  <2> HIDE DEF s
  <2> QED
    BY <1>1 DEF Object!FlattenSeq, FlattenEq
<1> QED
  BY <1>2, <1>3

\* Functions that satisfy the equation for sequences with a common beginning
\* agree on it.
LEMMA FlattenUnique ==
    ASSUME NEW s, NEW t, NEW n \in Nat \ {0}, NEW m \in Nat, n <= m,
           \A i \in 1 .. n : s[i] = t[i],
           NEW f, FlattenEq(s, n, f), NEW g, FlattenEq(t, m, g)
    PROVE  f[n] = g[n]
<1> DEFINE S == {i \in 1 .. n : f[i] = g[i]}
<1>1. \A i \in 1 .. n : i \in 1 .. m
  OBVIOUS
<1>2. \A i \in 1 .. n : /\ f[i] = (IF i = 1 THEN s[i] ELSE f[i - 1] \o s[i])
                         /\ g[i] = (IF i = 1 THEN t[i] ELSE g[i - 1] \o t[i])
  BY <1>1 DEF FlattenEq
<1>3. 1 \in S
  BY <1>2
<1>4. ASSUME NEW i \in 1 .. n - 1, i \in S PROVE i + 1 \in S
  <2>1. i + 1 \in 1 .. n /\ i + 1 # 1 /\ (i + 1) - 1 = i
    OBVIOUS
  <2> QED
    BY <1>2, <1>4, <2>1
<1>5. \A i \in 1 .. (n - 1) + 1 : i \in S
  <2> HIDE DEF S
  <2>1. n - 1 \in Nat
    OBVIOUS
  <2> QED
    BY <1>3, <1>4, <2>1, IntervalInduction
<1>6. n \in S
  BY <1>5
<1> QED
  BY <1>6

\* One sequence more is appended at the end.
LEMMA FlattenMore ==
    ASSUME NEW g, NEW n \in Nat \ {0}
    PROVE  Object!FlattenSeq([k \in 1 .. n + 1 |-> g[k]])
             = Object!FlattenSeq([k \in 1 .. n |-> g[k]]) \o g[n + 1]
<1> DEFINE s == [k \in 1 .. n |-> g[k]]
           t == [k \in 1 .. n + 1 |-> g[k]]
<1>1. PICK f : FlattenEq(s, n, f) /\ Object!FlattenSeq(s) = f[n]
  BY FlattenDef
<1>2. PICK h : FlattenEq(t, n + 1, h) /\ Object!FlattenSeq(t) = h[n + 1]
  <2>1. n + 1 \in Nat \ {0}
    OBVIOUS
  <2> QED
    BY <2>1, FlattenDef
<1>3. f[n] = h[n]
  <2>1. \A i \in 1 .. n : s[i] = t[i]
    OBVIOUS
  <2> HIDE DEF s, t
  <2>2. n + 1 \in Nat /\ n <= n + 1
    OBVIOUS
  <2> QED
    BY <1>1, <1>2, <2>1, <2>2, FlattenUnique
<1>4. h[n + 1] = h[n] \o t[n + 1]
  <2>1. n + 1 \in 1 .. n + 1 /\ n + 1 # 1 /\ (n + 1) - 1 = n
    OBVIOUS
  <2> HIDE DEF t
  <2> QED
    BY <1>2, <2>1 DEF FlattenEq
<1>5. t[n + 1] = g[n + 1]
  OBVIOUS
<1> HIDE DEF s, t
<1>6. Object!FlattenSeq(t) = Object!FlattenSeq(s) \o g[n + 1]
  BY <1>1, <1>2, <1>3, <1>4, <1>5
<1> QED
  BY <1>6 DEF s, t

\* The records of no argument are none.
LEMMA RecordsNone == Records(0) = <<>>
<1>1. [k \in 1 .. 0 |-> Object!Parts(Arguments[k - 1])] = <<>>
  OBVIOUS
<1>2. Object!FlattenSeq(<<>>) = <<>>
  BY DEF Object!FlattenSeq
<1> QED
  BY <1>1, <1>2 DEF Records

\* Those of one argument more are appended.
LEMMA RecordsMore ==
    ASSUME NEW m \in Nat
    PROVE  Records(m + 1) = Records(m) \o Object!Parts(Arguments[m])
<1> DEFINE g == [k \in 1 .. m + 1 |-> Object!Parts(Arguments[k - 1])]
<1>1. Records(m + 1) = Object!FlattenSeq([k \in 1 .. m + 1 |-> g[k]])
  BY DEF Records
<1>2. Records(m) = Object!FlattenSeq([k \in 1 .. m |-> g[k]])
  <2>1. [k \in 1 .. m |-> Object!Parts(Arguments[k - 1])] = [k \in 1 .. m |-> g[k]]
    OBVIOUS
  <2> QED
    BY <2>1 DEF Records
<1>3. g[m + 1] = Object!Parts(Arguments[m])
  <2>1. m + 1 \in 1 .. m + 1 /\ (m + 1) - 1 = m
    OBVIOUS
  <2> QED
    BY <2>1
<1>4. CASE m # 0
  <2>1. m \in Nat \ {0}
    BY <1>4
  <2> HIDE DEF g
  <2> QED
    BY <1>1, <1>2, <1>3, <2>1, FlattenMore
<1>5. CASE m = 0
  <2>1. Records(1) = g[1]
    <3>1. PICK f : FlattenEq([k \in 1 .. 1 |-> g[k]], 1, f) /\ Records(1) = f[1]
      <4> HIDE DEF g
      <4>1. m + 1 = 1 /\ 1 \in Nat \ {0}
        BY <1>5
      <4>2. Records(1) = Object!FlattenSeq([k \in 1 .. 1 |-> g[k]])
        BY <1>1, <4>1
      <4> QED
        BY <4>1, <4>2, FlattenDef
    <3> QED
      BY <3>1, <1>5 DEF FlattenEq
  <2>2. <<>> \o Object!Parts(Arguments[m]) = Object!Parts(Arguments[m])
    BY DEF Object!Parts
  <2> HIDE DEF g
  <2>3. m + 1 = 1
    BY <1>5
  <2>4. g[1] = Object!Parts(Arguments[m])
    BY <1>3, <2>3
  <2> QED
    BY <1>5, <2>1, <2>2, <2>3, <2>4, RecordsNone
<1> QED
  BY <1>4, <1>5

\* What is sent for an element is what its number stands for.
LEMMA ArgumentOf ==
    ASSUME \A x, y \in alloc : num[x] = num[y] => x = y, NEW x \in alloc
    PROVE  num[x] \in Numbers /\ Arguments[num[x]] = data[x]
<1>1. num[x] \in Numbers
  BY DEF Numbers
<1>2. (CHOOSE y \in alloc : num[y] = num[x]) = x
  <2>1. \A y \in alloc : num[y] = num[x] <=> y = x
    OBVIOUS
  <2> QED
    BY <2>1
<1> QED
  BY <1>1, <1>2 DEF Arguments

-----------------------------------------------------------------------------
(* The conjuncts of the invariant, step by step.                           *)

\* All other steps leave the list alone: Quiet is what they keep.
Quiet == UNCHANGED heap /\ (pc = "clear" <=> pc' = "clear") /\ (pc = "none" <=> pc' = "none")

\* Only a setter, vhcall_args_clear and _alloc disturb what ListInv is about.
LEMMA QuietSteps ==
    ASSUME IInv, [Next]_vars
    PROVE  \/ Quiet /\ (pc = "clear" => p' = p)
           \/ \E n \in Number \cup {-1} : Alloc(n)
           \/ \E then \in {"ready", "none"} : CallClear(then)
           \/ WalkAppend \/ WalkInsert \/ WalkFound \/ ClearOne \/ ClearEnd
<1>2. (\E r \in {"EINVAL", "ENOMEM"} : Refuse(r)) => Quiet /\ p' = p
  BY DEF Refuse, Quiet, setter
<1>3. (\E n \in Number : CallSetComplexDouble(n) \/ CallSetOther(n)) => Quiet /\ pc # "clear"
  BY DEF CallSetComplexDouble, CallSetOther, CallSet, Enter, Quiet
<1>4. CallInvoke => Quiet /\ pc # "clear"
  BY DEF CallInvoke, Quiet
<1>5. WalkOn \/ WalkNoMemory => Quiet /\ pc # "clear"
  BY DEF WalkOn, WalkNoMemory, Abort, Quiet
<1>6. CheckFails \/ CheckFills \/ CheckPasses => Quiet /\ pc # "clear"
  BY DEF CheckFails, CheckFills, CheckPasses, Abort, Enter, Quiet
<1>7. Count \/ Buffer \/ BufferNoMemory \/ Build \/ Invoked => Quiet /\ pc # "clear"
  BY DEF Count, Buffer, BufferNoMemory, Build, Invoked, Abort, Quiet
<1>8. UNCHANGED vars => Quiet /\ p' = p
  BY DEF vars, setter, Quiet
<1> QED
  BY <1>2, <1>3, <1>4, <1>5, <1>6, <1>7, <1>8 DEF Next, Call, Proceed, AppendStep

\* A new object has an empty list.
LEMMA InitHolds == Init => IInv
<1> SUFFICES ASSUME Init PROVE IInv
  OBVIOUS
<1> USE NamesAssumption, NumberAssumption, ValueAssumption DEF Init
<1>1. Cardinality(Node) \in Nat
  BY NodeAssumption, FS_CardinalityType
<1>2. TypeOK
  BY <1>1 DEF TypeOK, Item
<1>3. ListInv
  BY DEF ListInv, Item, Sorted, Elem
<1> QED
  BY <1>2, <1>3
     DEF IInv, BackInv, WalkInv, FillInv, CountInv, BuildInv, IdleInv, FirstPass, SecondPass

\* The list stays sorted through insertions, and through the freeing of its
\* elements one by one.
LEMMA ListStep == IInv /\ [Next]_vars => ListInv'
<1> SUFFICES ASSUME IInv, [Next]_vars PROVE ListInv'
  OBVIOUS
<1>1. TypeOK /\ ListInv
  BY DEF IInv
<1>2. /\ alloc \subseteq Node /\ "head" \notin alloc /\ Null \notin Item /\ Elem \subseteq Item
      /\ "head" \notin Node /\ argnum \in Number /\ Number \subseteq Nat
      /\ \A x \in Item : num[x] \in Int /\ next[x] \in Node \cup {Null}
  BY <1>1, ElemTypes, NamesAssumption DEF TypeOK
<1>3. CASE Quiet /\ (pc = "clear" => p' = p)
  BY <1>1, <1>3 DEF ListInv, Sorted, Elem, heap, Quiet
<1>4. ASSUME NEW n \in Number \cup {-1}, Alloc(n) PROVE ListInv'
  BY <1>1, <1>4 DEF Alloc, ListInv, Sorted, Elem, heap
<1>5. ASSUME NEW then \in {"ready", "none"}, CallClear(then) PROVE ListInv'
  <2>1. /\ UNCHANGED heap /\ pc # "clear" /\ pc' = "clear" /\ p' = next["head"] /\ pc # "none"
        /\ Sorted(Elem)
    BY <1>1, <1>5 DEF CallClear, ListInv
  <2>2. Sorted(alloc)
    BY <1>2, <2>1 DEF Sorted, Elem
  <2>3. p' \in alloc \cup {Null}
    <3>1. next["head"] # Null => next["head"] \in Elem /\ next["head"] # "head"
      BY <1>2, <2>1 DEF Sorted, Elem, Item
    <3> QED
      BY <2>1, <3>1 DEF Elem
  <2>4. ASSUME NEW x \in alloc PROVE p' # Null /\ num[p'] <= num[x]
    <3>1. num[x] \in Nat /\ num["head"] = -1
      BY <1>1, <1>2 DEF ListInv
    <3>2. num["head"] < num[x]
      BY <3>1
    <3> QED
      BY <2>1, <3>2 DEF Sorted, Elem
  <2> QED
    BY <1>1, <2>1, <2>2, <2>3, <2>4 DEF ListInv, Sorted, Elem, heap
<1>6. CASE WalkAppend \/ WalkInsert
  <2>1. PICK old \in Elem, new \in Node \ alloc :
           num[old] < argnum /\ (next[old] # Null => argnum < num[next[old]]) /\ Link(old, new)
    BY <1>6, InsertPlace
  <2>2. pc = "walk" /\ pc' \in {"ready", "count"} /\ Sorted(Elem)
    BY <1>1, <1>6 DEF WalkAppend, WalkInsert, Leave, IInv, BackInv, ListInv
  <2>3. /\ Sorted(Elem)' /\ Elem' = Elem \cup {new} /\ num'[new] = argnum
        /\ \A x \in Elem : num'[x] = num[x] /\ data'[x] = data[x]
    BY <1>1, <2>1, <2>2, LinkedSorted
  <2>4. alloc' = alloc \cup {new}
    BY <2>1 DEF Link
  <2>5. num'["head"] = num["head"] /\ data'["head"] = data["head"]
    BY <2>3 DEF Elem
  <2>6. \A x \in alloc' : num'[x] \in Number
    BY <1>1, <1>2, <2>3, <2>4 DEF ListInv, Elem
  <2> QED
    BY <1>1, <2>2, <2>3, <2>5, <2>6 DEF ListInv
<1>7. CASE WalkFound
  <2>1. pc = "walk" /\ pc' \in {"ready", "count"} /\ Sorted(Elem) /\ p \in Elem /\ num[p] = argnum
    BY <1>1, <1>7 DEF WalkFound, Leave, IInv, BackInv, ListInv, WalkInv
  <2>2. p # "head"
    BY <1>1, <1>2, <2>1 DEF ListInv
  <2>3. data'["head"] = data["head"]
    BY <1>1, <1>7, <2>2 DEF WalkFound, TypeOK, Item
  <2> QED
    BY <1>1, <1>7, <2>1, <2>3 DEF ListInv, Sorted, Elem, WalkFound
<1>8. CASE ClearOne
  <2>1. /\ pc = "clear" /\ p # Null /\ p \in alloc /\ Sorted(alloc) /\ \A x \in alloc : num[p] <= num[x]
        /\ pc' = "clear" /\ p' = next[p] /\ alloc' = alloc \ {p}
    BY <1>1, <1>8 DEF ClearOne, ListInv
  <2>2. /\ \A x \in alloc' : num'[x] = num[x] /\ next'[x] = next[x]
        /\ num'["head"] = num["head"] /\ data'["head"] = data["head"]
    BY <1>1, <1>2, <1>8, <2>1 DEF ClearOne, TypeOK, Item
  <2>3. ASSUME NEW x \in alloc' PROVE num[p] < num[x]
    <3>1. num[p] # num[x] /\ x \in alloc
      BY <2>1 DEF Sorted
    <3> QED
      BY <1>2, <2>1, <3>1 DEF Item
  <2>4. ASSUME NEW x \in alloc', next[x] # Null PROVE next[x] \in alloc'
    <3>1. next[x] \in alloc /\ num[x] < num[next[x]] /\ x \in alloc
      BY <2>1, <2>4 DEF Sorted
    <3>2. next[x] # p
      BY <1>2, <2>1, <2>3, <3>1 DEF Item
    <3> QED
      BY <2>1, <3>1, <3>2
  <2>5. Sorted(alloc)'
    BY <2>1, <2>2, <2>4 DEF Sorted
  <2>6. p' # Null => p' \in alloc'
    <3> SUFFICES ASSUME p' # Null PROVE p' \in alloc'
      OBVIOUS
    <3>1. next[p] \in alloc /\ num[p] < num[next[p]]
      BY <2>1 DEF Sorted
    <3>2. next[p] # p
      BY <1>2, <2>1, <3>1 DEF Item
    <3> QED
      BY <2>1, <3>1, <3>2
  <2>7. ASSUME NEW x \in alloc' PROVE p' # Null /\ num[p'] <= num[x]
    BY <2>1, <2>3 DEF Sorted
  <2>8. \A x \in alloc' : num'[p'] <= num'[x]
    BY <2>2, <2>6, <2>7
  <2>9. \A x \in alloc' : num'[x] \in Number
    BY <1>1, <2>1, <2>2 DEF ListInv
  <2> QED
    BY <1>1, <2>1, <2>2, <2>5, <2>6, <2>7, <2>8, <2>9 DEF ListInv
<1>9. CASE ClearEnd
  <2>1. /\ pc = "clear" /\ alloc = {} /\ alloc' = {} /\ pc' \in {"ready", "none"}
        /\ num' = num /\ data' = data
    BY <1>1, <1>9 DEF ClearEnd, ListInv, IInv, BackInv
  <2>2. next'["head"] = Null
    BY <1>1, <1>9 DEF ClearEnd, TypeOK, Item
  <2> QED
    BY <1>1, <1>2, <2>1, <2>2 DEF ListInv, Sorted, Elem
<1> QED
  BY <1>3, <1>4, <1>5, <1>6, <1>7, <1>8, <1>9, QuietSteps

\* Where a setter goes when it is done.
LEMMA BackStep == IInv /\ [Next]_vars => BackInv'
<1> SUFFICES ASSUME BackInv, [Next]_vars PROVE BackInv'
  BY DEF IInv
<1> USE DEF BackInv
<1>1. (\E n \in Number \cup {-1} : Alloc(n)) \/ (\E r \in {"EINVAL", "ENOMEM"} : Refuse(r)) => BackInv'
  BY DEF Alloc, Refuse, setter
<1>2. (\E n \in Number : CallSetComplexDouble(n) \/ CallSetOther(n)) => BackInv'
  BY DEF CallSetComplexDouble, CallSetOther, CallSet, Enter
<1>3. (\E then \in {"ready", "none"} : CallClear(then)) \/ CallInvoke => BackInv'
  BY DEF CallClear, CallInvoke, setter
<1>4. WalkOn \/ WalkNoMemory => BackInv'
  BY DEF WalkOn, WalkNoMemory, Abort
<1>5. WalkAppend \/ WalkInsert \/ WalkFound => BackInv'
  BY DEF WalkAppend, WalkInsert, WalkFound, Leave
<1>6. ClearOne \/ ClearEnd => BackInv'
  BY DEF ClearOne, ClearEnd
<1>7. CheckFails \/ CheckFills \/ CheckPasses => BackInv'
  BY DEF CheckFails, CheckFills, CheckPasses, Abort, Enter, setter
<1>8. Count \/ Buffer \/ BufferNoMemory \/ Build \/ Invoked => BackInv'
  BY DEF Count, Buffer, BufferNoMemory, Build, Invoked, Abort, setter
<1>9. UNCHANGED vars => BackInv'
  BY DEF vars, setter
<1> QED
  BY <1>1, <1>2, <1>3, <1>4, <1>5, <1>6, <1>7, <1>8, <1>9 DEF Next, Call, Proceed, AppendStep

\* A walk that is under way goes on, ends in one of four ways, or stutters; a
\* new one starts at the head.
LEMMA WalkSteps ==
    ASSUME IInv, [Next]_vars, pc' = "walk"
    PROVE  \/ WalkOn
           \/ \E n \in Number, v \in Value : CallSet(n, v)
           \/ CheckFills
           \/ UNCHANGED vars
<1>1. CASE \E n \in Number : CallSetComplexDouble(n) \/ CallSetOther(n)
  BY <1>1, ValueAssumption DEF CallSetComplexDouble, CallSetOther
<1>2. CASE (\E n \in Number \cup {-1} : Alloc(n)) \/ (\E r \in {"EINVAL", "ENOMEM"} : Refuse(r))
  BY <1>2 DEF Alloc, Refuse
<1>3. CASE (\E then \in {"ready", "none"} : CallClear(then)) \/ CallInvoke
  BY <1>3 DEF CallClear, CallInvoke
<1>4. CASE WalkAppend \/ WalkInsert \/ WalkFound
  BY <1>4 DEF WalkAppend, WalkInsert, WalkFound, Leave, IInv, BackInv
<1>5. CASE WalkNoMemory \/ CheckFails \/ BufferNoMemory
  BY <1>5 DEF WalkNoMemory, CheckFails, BufferNoMemory, Abort
<1>6. CASE ClearOne \/ ClearEnd
  BY <1>6 DEF ClearOne, ClearEnd, IInv, BackInv
<1>7. CASE CheckPasses \/ Count \/ Buffer \/ Build \/ Invoked
  BY <1>7 DEF CheckPasses, Count, Buffer, Build, Invoked
<1> QED
  BY <1>1, <1>2, <1>3, <1>4, <1>5, <1>6, <1>7 DEF Next, Call, Proceed, AppendStep

\* A walk passes from an element to the one behind it.
LEMMA WalkStep == IInv /\ [Next]_vars => WalkInv'
<1> SUFFICES ASSUME IInv, [Next]_vars, pc' = "walk"
             PROVE  p' \in Elem' /\ (p' # "head" => tmp' \in Elem' /\ next'[tmp'] = p' /\ num'[tmp'] < argnum')
  BY DEF WalkInv
<1>1. CASE WalkOn
  <2>1. /\ p \in Elem /\ num[p] < argnum /\ next[p] # Null /\ Sorted(Elem)
        /\ p' = next[p] /\ tmp' = p /\ UNCHANGED <<heap, argnum>>
    BY <1>1 DEF WalkOn, IInv, WalkInv, ListInv
  <2>2. next[p] \in Elem
    BY <2>1 DEF Sorted
  <2> QED
    BY <2>1, <2>2 DEF heap, Elem
<1>2. CASE (\E n \in Number, v \in Value : CallSet(n, v)) \/ CheckFills
  BY <1>2 DEF CallSet, CheckFills, Enter, Elem
<1>3. CASE UNCHANGED vars
  BY <1>3 DEF IInv, WalkInv, vars, heap, setter, Elem
<1> QED
  BY <1>1, <1>2, <1>3, WalkSteps

\* Facts about the first pass that hold whatever it does next.
LEMMA PassFacts ==
    ASSUME IInv, FirstPass
    PROVE  /\ it \in Elem /\ Sorted(Elem) /\ pc # "clear" /\ it \in Item /\ it # Null
           /\ num[it] \in Int /\ num[it] >= -1 /\ (it # "head" <=> num[it] >= 0)
           /\ args_num \in Int /\ args_num >= -1
           /\ 0 .. num[it] \subseteq Numbers
           /\ \A x \in alloc : x \in Item /\ num[x] \in Nat
<1>1. it \in Elem /\ Sorted(Elem) /\ pc # "clear" /\ 0 .. num[it] \subseteq Numbers
  BY DEF IInv, CountInv, ListInv, FirstPass
<1>2. \A x \in alloc : x \in Item /\ num[x] \in Nat
  BY NumberAssumption, ElemTypes DEF IInv, ListInv, Elem
<1>3. num["head"] = -1 /\ "head" \in Item
  BY DEF IInv, ListInv, Item
<1>4. it = "head" \/ (it \in alloc /\ it # "head")
  BY <1>1, ElemTypes DEF Elem, IInv
<1>5. it \in Item /\ it # Null
  BY <1>1, ElemTypes DEF IInv
<1>6. num[it] \in Int /\ num[it] >= -1 /\ (it # "head" <=> num[it] >= 0)
  BY <1>2, <1>3, <1>4
<1>7. args_num \in Int /\ args_num >= -1
  <2>1. args_num \in Number \cup {-1}
    BY DEF IInv, TypeOK
  <2> QED
    BY <2>1, NumberAssumption
<1> QED
  BY <1>1, <1>2, <1>5, <1>6, <1>7

\* Where vhcall_invoke_with_args sees a gap there is one.
LEMMA GapOpen ==
    ASSUME IInv, FirstPass, Gap
    PROVE  num[it] + 1 \notin Numbers
<1>1. SUFFICES ASSUME NEW x \in alloc, num[x] = num[it] + 1 PROVE FALSE
  BY DEF Numbers
<1>2. it \in Elem /\ Sorted(Elem) /\ x \in Elem /\ num[it] \in Int
  BY PassFacts DEF Elem
<1>3. num[it] < num[x]
  BY <1>1, <1>2
<1>4. next[it] # Null /\ num[next[it]] <= num[it] + 1
  BY <1>1, <1>2, <1>3 DEF Sorted
<1>5. num[next[it]] \in Int /\ num[it] < num[next[it]]
  BY <1>2, <1>4, ElemTypes DEF Sorted, IInv
<1>6. num[next[it]] = num[it] + 1
  BY <1>2, <1>4, <1>5
<1> QED
  BY <1>4, <1>6 DEF Gap

\* A gap being filled stays the same until the setter has found its place.
LEMMA FillStep == IInv /\ [Next]_vars => FillInv'
<1> SUFFICES ASSUME IInv, [Next]_vars, pc' = "walk", back' = "count" PROVE FillInv'
  BY DEF FillInv
<1>1. CASE WalkOn
  BY <1>1 DEF WalkOn, IInv, FillInv, Numbers, heap, invocation
<1>2. CASE \E n \in Number, v \in Value : CallSet(n, v)
  BY <1>2 DEF CallSet, Enter
<1>3. CASE CheckFills
  <2>1. /\ pc = "check" /\ args_num # -1 /\ ~TooMany /\ Gap
        /\ argnum' = num[it] + 1 /\ val' = Zero
        /\ UNCHANGED <<heap, args_num, it>>
    BY <1>3 DEF CheckFills, Enter, invocation
  <2>2. FirstPass
    BY <2>1 DEF FirstPass
  <2>3. num[it] + 1 \notin Numbers
    BY <2>1, <2>2, GapOpen
  <2>4. num[it] + 1 <= args_num
    BY <2>1, <2>2, PassFacts DEF TooMany
  <2>5. next[it] # Null => next[it] \in alloc /\ num[next[it]] > num[it] + 1
    <3> SUFFICES ASSUME next[it] # Null PROVE next[it] \in alloc /\ num[next[it]] > num[it] + 1
      OBVIOUS
    <3>1. next[it] \in Elem /\ num[it] < num[next[it]] /\ num[it] + 1 # num[next[it]]
      BY <2>1, <2>2, PassFacts DEF Sorted, Gap
    <3>2. num[next[it]] \in Int /\ next[it] # "head"
      BY <2>2, <3>1, PassFacts, ElemTypes, NamesAssumption DEF IInv, Item
    <3>3. num[next[it]] > num[it] + 1
      BY <2>2, <3>1, <3>2, PassFacts
    <3> QED
      BY <3>1, <3>2, <3>3 DEF Elem
  <2>6. num[it] + 1 < args_num \/ (num[it] + 1 = args_num /\ \E x \in alloc : num[x] > num[it] + 1)
    <3>1. CASE next[it] # Null
      BY <2>2, <2>4, <2>5, <3>1, PassFacts
    <3>2. CASE next[it] = Null
      BY <2>1, <3>2 DEF Gap
    <3> QED
      BY <3>1, <3>2
  <2> QED
    BY <2>1, <2>3, <2>6 DEF FillInv, Numbers, heap
<1>4. CASE UNCHANGED vars
  BY <1>4 DEF vars, IInv, FillInv, Numbers, heap, setter, invocation
<1> QED
  BY <1>1, <1>2, <1>3, <1>4, WalkSteps

\* How the first pass is entered, and what keeps it going.
LEMMA FirstPassSteps ==
    ASSUME IInv, [Next]_vars, FirstPass'
    PROVE  \/ CallInvoke
           \/ FirstPass /\ (\/ WalkOn \/ WalkAppend \/ WalkInsert \/ WalkFound
                            \/ CheckFills \/ CheckPasses \/ Count)
           \/ FirstPass /\ UNCHANGED vars
<1> USE DEF FirstPass
<1>1. CASE \E n \in Number : CallSetComplexDouble(n) \/ CallSetOther(n)
  BY <1>1 DEF CallSetComplexDouble, CallSetOther, CallSet, Enter
<1>2. CASE (\E n \in Number \cup {-1} : Alloc(n)) \/ (\E r \in {"EINVAL", "ENOMEM"} : Refuse(r))
  BY <1>2 DEF Alloc, Refuse
<1>3. CASE \E then \in {"ready", "none"} : CallClear(then)
  BY <1>3 DEF CallClear
<1>4. CASE WalkOn \/ WalkAppend \/ WalkInsert \/ WalkFound
  BY <1>4 DEF WalkOn, WalkAppend, WalkInsert, WalkFound, Leave, IInv, BackInv
<1>5. CASE WalkNoMemory \/ CheckFails \/ BufferNoMemory
  BY <1>5 DEF WalkNoMemory, CheckFails, BufferNoMemory, Abort
<1>6. CASE ClearOne \/ ClearEnd
  BY <1>6 DEF ClearOne, ClearEnd, IInv, BackInv
<1>7. CASE CheckFills \/ CheckPasses \/ Count
  BY <1>7 DEF CheckFills, CheckPasses, Count
<1>8. CASE Buffer \/ Build \/ Invoked
  BY <1>8 DEF Buffer, Build, Invoked
<1>9. CASE UNCHANGED vars
  BY <1>9 DEF vars, setter
<1> QED
  BY <1>1, <1>2, <1>3, <1>4, <1>5, <1>6, <1>7, <1>8, <1>9 DEF Next, Call, Proceed, AppendStep

\* Sets of elements are finite, and so are their weights.
LEMMA WeightType ==
    ASSUME TypeOK, NEW S \in SUBSET alloc
    PROVE  /\ IsFiniteSet(S) /\ Cardinality(S) \in Nat /\ Cardinality({x \in S : data[x] \in Complex}) \in Nat
           /\ Weight(S) \in 0 .. 2 * Cardinality(Node) /\ Weight(S) \in Nat
<1>1. IsFiniteSet(Node) /\ S \subseteq Node /\ {x \in S : data[x] \in Complex} \subseteq Node
  BY NodeAssumption DEF TypeOK
<1>2. /\ IsFiniteSet(S) /\ Cardinality(S) <= Cardinality(Node) /\ Cardinality(S) \in Nat
      /\ Cardinality(Node) \in Nat
  BY <1>1, FS_Subset, FS_CardinalityType
<1>3. /\ Cardinality({x \in S : data[x] \in Complex}) <= Cardinality(Node)
      /\ Cardinality({x \in S : data[x] \in Complex}) \in Nat
  BY <1>1, FS_Subset, FS_CardinalityType
<1> QED
  BY <1>2, <1>3 DEF Weight

\* One more element weighs what SizeOf says.
LEMMA WeightMore ==
    ASSUME TypeOK, NEW S \in SUBSET alloc, NEW x \in alloc \ S, num[x] \in Nat
    PROVE  Weight(S \cup {x}) = Weight(S) + SizeOf(x)
<1> DEFINE C == {y \in S : data[y] \in Complex}
<1>1. IsFiniteSet(S) /\ Cardinality(S) \in Nat /\ Cardinality(C) \in Nat
  BY WeightType
<1>2. IsFiniteSet(C)
  BY <1>1, FS_Subset
<1>3. Cardinality(S \cup {x}) = Cardinality(S) + 1
  BY <1>1, FS_AddElement
<1>4. CASE data[x] \in Complex
  <2>1. {y \in S \cup {x} : data[y] \in Complex} = C \cup {x}
    BY <1>4
  <2>2. Cardinality(C \cup {x}) = Cardinality(C) + 1
    BY <1>2, FS_AddElement
  <2> HIDE DEF C
  <2> QED
    BY <1>1, <1>3, <1>4, <2>1, <2>2 DEF Weight, SizeOf, C
<1>5. CASE data[x] \notin Complex
  <2>1. {y \in S \cup {x} : data[y] \in Complex} = C
    BY <1>5
  <2>2. SizeOf(x) = 1
    BY <1>5 DEF SizeOf
  <2> QED
    BY <1>1, <1>3, <2>1, <2>2 DEF Weight
<1> QED
  BY <1>4, <1>5

\* Nothing weighs nothing, and the head takes no records.
LEMMA WeightNone == Weight({}) = 0
  BY FS_EmptySet DEF Weight

\* Fewer elements weigh no more.
LEMMA WeightLess ==
    ASSUME TypeOK, NEW S \in SUBSET alloc
    PROVE  Weight(S) <= Weight(alloc)
<1> DEFINE Complexes(T) == {x \in T : data[x] \in Complex}
<1>1. /\ IsFiniteSet(alloc) /\ Cardinality(alloc) \in Nat /\ Cardinality(Complexes(alloc)) \in Nat
      /\ Cardinality(S) \in Nat /\ Cardinality(Complexes(S)) \in Nat
  BY WeightType
<1>2. Cardinality(S) <= Cardinality(alloc) /\ IsFiniteSet(Complexes(alloc))
  BY <1>1, FS_Subset
<1>3. Cardinality(Complexes(S)) <= Cardinality(Complexes(alloc))
  <2>1. Complexes(S) \subseteq Complexes(alloc)
    OBVIOUS
  <2> QED
    BY <1>2, <2>1, FS_Subset
<1> QED
  BY <1>1, <1>2, <1>3 DEF Weight

\* Behind the last element there is none, and behind another one the next.
LEMMA PassOn ==
    ASSUME TypeOK, Sorted(Elem), NEW x \in Elem
    PROVE  (IF next[x] = Null THEN alloc ELSE {y \in alloc : num[y] < num[next[x]]})
             = {y \in alloc : num[y] < num[x]} \cup ({x} \ {"head"})
<1>1. /\ "head" \notin alloc /\ \A y \in Elem : num[y] \in Int
  BY ElemTypes DEF Elem
<1>2. CASE next[x] = Null
  <2>1. \A y \in alloc : y = x \/ num[y] < num[x]
    <3> SUFFICES ASSUME NEW y \in alloc, y # x, ~(num[y] < num[x]) PROVE FALSE
      OBVIOUS
    <3>1. y \in Elem /\ num[x] # num[y]
      BY DEF Sorted, Elem
    <3>2. num[x] < num[y]
      BY <1>1, <3>1
    <3> QED
      BY <1>2, <3>1, <3>2 DEF Sorted
  <2> QED
    BY <1>1, <1>2, <2>1 DEF Elem
<1>3. CASE next[x] # Null
  <2>1. next[x] \in Elem /\ num[x] < num[next[x]]
    BY <1>3 DEF Sorted
  <2>2. ASSUME NEW y \in alloc PROVE num[y] < num[next[x]] <=> (y = x \/ num[y] < num[x])
    <3>1. y \in Elem /\ num[y] \in Int /\ num[x] \in Int /\ num[next[x]] \in Int
      BY <1>1, <2>1 DEF Elem
    <3>2. num[x] < num[y] => num[next[x]] <= num[y]
      BY <3>1 DEF Sorted
    <3>3. num[x] = num[y] => x = y
      BY <3>1 DEF Sorted
    <3> QED
      BY <2>1, <3>1, <3>2, <3>3
  <2> QED
    BY <1>1, <1>3, <2>2 DEF Elem
<1> QED
  BY <1>2, <1>3

\* A setter called by an invocation puts its element right behind the one
\* the invocation has reached.
LEMMA FillBehind ==
    ASSUME IInv, back = "count", WalkAppend \/ WalkInsert
    PROVE  \E new \in Node \ alloc :
             /\ next'[it] = new /\ num'[new] = num[it] + 1 /\ next'[new] = next[it]
             /\ Elem' = Elem \cup {new} /\ alloc' = alloc \cup {new}
             /\ \A x \in Elem : num'[x] = num[x] /\ data'[x] = data[x]
             /\ next[it] # Null => num[it] + 1 < num[next[it]]
<1>1. PICK old \in Elem, new \in Node \ alloc :
         num[old] < argnum /\ (next[old] # Null => argnum < num[next[old]]) /\ Link(old, new)
  BY InsertPlace
<1>2. pc = "walk" /\ FirstPass
  BY DEF WalkAppend, WalkInsert, FirstPass
<1>3. argnum = num[it] + 1
  BY <1>2 DEF IInv, FillInv
<1>4. TypeOK /\ Sorted(Elem) /\ it \in Elem
  BY <1>2, PassFacts DEF IInv
<1>5. \A x \in Elem : num[x] \in Int
  BY <1>4, ElemTypes
<1>6. old = it
  <2>1. ~(num[it] < num[old])
    BY <1>1, <1>3, <1>4, <1>5
  <2>2. ~(num[old] < num[it])
    <3> SUFFICES ASSUME num[old] < num[it] PROVE FALSE
      OBVIOUS
    <3>1. next[old] # Null /\ num[next[old]] <= num[it] /\ next[old] \in Elem
      BY <1>4 DEF Sorted
    <3> QED
      BY <1>1, <1>3, <1>4, <1>5, <3>1
  <2>3. num[old] = num[it]
    BY <1>4, <1>5, <2>1, <2>2
  <2> QED
    BY <1>4, <2>3 DEF Sorted
<1>7. /\ Elem' = Elem \cup {new} /\ next'[new] = next[old] /\ next'[old] = new /\ num'[new] = argnum
      /\ \A x \in Elem : num'[x] = num[x] /\ data'[x] = data[x]
  BY <1>1, <1>4, LinkedSorted
<1>8. alloc' = alloc \cup {new}
  BY <1>1 DEF Link
<1> QED
  BY <1>1, <1>3, <1>6, <1>7, <1>8

\* With the element reached, all up to the one behind it are counted.
LEMMA CountedNext ==
    ASSUME IInv, FirstPass
    PROVE  Weight(IF next[it] = Null THEN alloc ELSE {y \in alloc : num[y] < num[next[it]]})
             = insize + SizeOf(it)
<1>1. TypeOK /\ insize = Weight(Passed)
  BY DEF IInv, CountInv
<1>2. /\ it \in Elem /\ Sorted(Elem) /\ it # Null /\ num[it] \in Int
      /\ (it # "head" <=> num[it] >= 0)
  BY PassFacts
<1>3. Passed = {y \in alloc : num[y] < num[it]} /\ Passed \in SUBSET alloc
  BY <1>2 DEF Passed
<1>4. (IF next[it] = Null THEN alloc ELSE {y \in alloc : num[y] < num[next[it]]})
        = Passed \cup ({it} \ {"head"})
  BY <1>1, <1>2, <1>3, PassOn
<1>5. CASE it = "head"
  <2>1. Passed \cup ({it} \ {"head"}) = Passed
    BY <1>5
  <2>2. num["head"] = -1 /\ data["head"] \notin Complex
    BY ValueAssumption DEF IInv, ListInv
  <2>3. SizeOf(it) = 0
    BY <1>5, <2>2 DEF SizeOf
  <2>4. Weight(Passed) \in Nat
    BY <1>1, <1>3, WeightType
  <2> QED
    BY <1>1, <1>4, <2>1, <2>3, <2>4
<1>6. CASE it # "head"
  <2>1. it \in alloc \ Passed /\ num[it] \in Nat
    BY <1>2, <1>3, <1>6 DEF Elem
  <2>2. Passed \cup ({it} \ {"head"}) = Passed \cup {it}
    BY <1>6
  <2> QED
    BY <1>1, <1>3, <1>4, <2>1, <2>2, WeightMore
<1> QED
  BY <1>5, <1>6

\* The first pass counts what it leaves behind, and leaves no gap.
LEMMA CountStep == IInv /\ [Next]_vars => CountInv'
<1> SUFFICES ASSUME IInv, [Next]_vars, FirstPass'
             PROVE  /\ it' \in Elem' /\ (0 .. num[it] \subseteq Numbers)'
                    /\ insize' = Weight(Passed)' /\ in' = <<>>
                    /\ pc' = "count" => ~TooMany' /\ ~Gap'
  BY DEF CountInv, FirstPass
<1>1. TypeOK
  BY DEF IInv
<1>2. FirstPass => insize = Weight(Passed) /\ in = <<>>
  BY DEF IInv, CountInv
<1>3. CASE CallInvoke
  <2>1. /\ pc = "ready" /\ pc' = "check" /\ it' = "head" /\ UNCHANGED <<heap, insize, in>>
        /\ insize = 0 /\ in = <<>>
    BY <1>3 DEF CallInvoke, IInv, IdleInv, FirstPass, SecondPass
  <2>2. num["head"] = -1 /\ \A x \in alloc : num[x] \in Nat
    BY NumberAssumption DEF IInv, ListInv
  <2>3. "head" # Null /\ Passed' = {}
    BY <2>1, <2>2, NamesAssumption DEF Passed, heap
  <2>4. Weight(Passed)' = 0
    BY <2>1, <2>3, WeightNone DEF Weight
  <2> QED
    BY <2>1, <2>2, <2>4 DEF Elem, heap
<1>4. CASE FirstPass /\ (WalkOn \/ CheckFills)
  <2>1. UNCHANGED <<heap, it, insize, in>> /\ pc' = "walk"
    BY <1>4 DEF WalkOn, CheckFills, Enter, invocation
  <2> QED
    BY <1>2, <1>4, <2>1, PassFacts DEF heap, Elem, Numbers, Weight, Passed
<1>5. CASE FirstPass /\ CheckPasses
  <2>1. UNCHANGED <<heap, args_num, it, insize, in>> /\ ~TooMany /\ ~Gap
    BY <1>5 DEF CheckPasses, invocation
  <2> QED
    BY <1>2, <1>5, <2>1, PassFacts DEF heap, Elem, Numbers, Weight, Passed, TooMany, Gap
<1>6. CASE FirstPass /\ (WalkAppend \/ WalkInsert)
  <2>1. pc = "walk" /\ back = "count" /\ UNCHANGED <<args_num, it, insize, in>>
    BY <1>6 DEF WalkAppend, WalkInsert, Leave, FirstPass, invocation
  <2>2. PICK new \in Node \ alloc :
             /\ next'[it] = new /\ num'[new] = num[it] + 1
             /\ next'[new] = next[it]
             /\ Elem' = Elem \cup {new} /\ alloc' = alloc \cup {new}
             /\ \A x \in Elem : num'[x] = num[x] /\ data'[x] = data[x]
             /\ next[it] # Null => num[it] + 1 < num[next[it]]
    BY <1>6, <2>1, FillBehind
  <2>3. /\ it \in Elem /\ num[it] \in Int /\ it # Null /\ num'[it] = num[it]
        /\ \A x \in alloc : num'[x] = num[x] /\ data'[x] = data[x] /\ x # new
    BY <1>6, <2>2, PassFacts DEF Elem
  <2>4. Passed' = Passed
    BY <2>1, <2>2, <2>3 DEF Passed
  <2>5. Weight(Passed)' = Weight(Passed)
    <3>1. Passed \subseteq alloc
      BY <2>3 DEF Passed
    <3>2. {x \in Passed : data'[x] \in Complex} = {x \in Passed : data[x] \in Complex}
      BY <2>3, <3>1
    <3> QED
      BY <2>4, <3>2 DEF Weight
  <2>6. (0 .. num[it] \subseteq Numbers)'
    <3>1. Numbers \subseteq Numbers'
      BY <2>2, <2>3 DEF Numbers
    <3> QED
      BY <1>6, <2>1, <2>3, <3>1, PassFacts
  <2>7. ~TooMany'
    <3>1. argnum = num[it] + 1 /\ argnum <= args_num /\ args_num # -1
      BY <1>6, <2>1, <2>3, PassFacts DEF IInv, FillInv
    <3> QED
      BY <1>6, <2>1, <2>3, <3>1, PassFacts DEF TooMany
  <2>8. ~Gap'
    <3>1. new # Null
      BY NamesAssumption
    <3> QED
      BY <2>1, <2>2, <2>3, <3>1 DEF Gap
  <2> QED
    BY <1>2, <1>6, <2>1, <2>2, <2>3, <2>5, <2>6, <2>7, <2>8
<1>7. CASE FirstPass /\ WalkFound
  <2>1. /\ pc = "walk" /\ back = "count" /\ p \in Elem /\ num[p] = argnum
        /\ argnum = num[it] + 1 /\ argnum \notin Numbers
    BY <1>7 DEF WalkFound, FirstPass, IInv, WalkInv, FillInv
  <2>2. p = "head"
    BY <2>1 DEF Elem, Numbers
  <2>3. num["head"] = -1 /\ num[it] \in Int /\ num[it] >= -1
    BY <1>7, PassFacts DEF IInv, ListInv
  <2> QED
    BY <2>1, <2>2, <2>3
<1>8. CASE FirstPass /\ Count
  <2>1. /\ pc = "count" /\ pc' = "check" /\ it' = next[it] /\ next[it] # Null
        /\ insize' = insize + SizeOf(it) /\ UNCHANGED <<heap, in>>
    BY <1>8 DEF Count, FirstPass
  <2>2. ~Gap
    BY <2>1 DEF IInv, CountInv
  <2>3. /\ it \in Elem /\ Sorted(Elem) /\ it # Null /\ num[it] \in Int
        /\ (it # "head" <=> num[it] >= 0) /\ 0 .. num[it] \subseteq Numbers
    BY <1>8, PassFacts
  <2>4. next[it] \in Elem /\ num[next[it]] = num[it] + 1 /\ next[it] # "head"
    BY <1>1, <2>1, <2>2, <2>3, ElemTypes, NamesAssumption DEF Sorted, Gap, Elem, Item
  <2>5. 0 .. num[next[it]] \subseteq Numbers
    <3>1. num[next[it]] \in Numbers
      BY <2>4 DEF Numbers, Elem
    <3> QED
      BY <2>3, <2>4, <3>1
  <2>6. Weight(Passed)' = insize + SizeOf(it)
    <3>1. Passed' = IF next[it] = Null THEN alloc ELSE {y \in alloc : num[y] < num[next[it]]}
      BY <2>1 DEF Passed, heap
    <3> QED
      BY <1>8, <2>1, <3>1, CountedNext DEF Weight, heap
  <2> QED
    BY <1>2, <1>8, <2>1, <2>4, <2>5, <2>6 DEF heap, Elem, Numbers
<1>9. CASE FirstPass /\ UNCHANGED vars
  <2>1. UNCHANGED <<heap, args_num, it, insize, in, pc>>
    BY <1>9 DEF vars, invocation
  <2> QED
    BY <1>2, <1>9, <2>1, PassFacts
       DEF heap, Elem, Numbers, Weight, Passed, TooMany, Gap, IInv, CountInv
<1> QED
  BY <1>3, <1>4, <1>5, <1>6, <1>7, <1>8, <1>9, FirstPassSteps

\* Without an invocation there is nothing to remember of one.
LEMMA IdleStep == IInv /\ [Next]_vars => IdleInv'
<1> SUFFICES ASSUME IInv, [Next]_vars, ~FirstPass', ~SecondPass'
             PROVE  it' = Null /\ insize' = 0 /\ in' = <<>>
  BY DEF IdleInv, FirstPass, SecondPass
<1> USE DEF IdleInv, FirstPass, SecondPass
<1>1. IdleInv
  BY DEF IInv
<1>2. CASE \E n \in Number : CallSetComplexDouble(n) \/ CallSetOther(n)
  BY <1>1, <1>2 DEF CallSetComplexDouble, CallSetOther, CallSet, Enter, invocation
<1>3. CASE (\E n \in Number \cup {-1} : Alloc(n)) \/ (\E r \in {"EINVAL", "ENOMEM"} : Refuse(r))
  BY <1>1, <1>3 DEF Alloc, Refuse, invocation
<1>4. CASE (\E then \in {"ready", "none"} : CallClear(then)) \/ CallInvoke
  BY <1>1, <1>4 DEF CallClear, CallInvoke, invocation
<1>5. CASE WalkOn \/ WalkAppend \/ WalkInsert \/ WalkFound
  BY <1>1, <1>5 DEF WalkOn, WalkAppend, WalkInsert, WalkFound, Leave, invocation
<1>6. CASE WalkNoMemory \/ CheckFails \/ BufferNoMemory
  BY <1>6 DEF WalkNoMemory, CheckFails, BufferNoMemory, Abort
<1>7. CASE ClearOne \/ ClearEnd
  BY <1>1, <1>7 DEF ClearOne, ClearEnd, invocation
<1>8. CASE CheckFills \/ CheckPasses \/ Count \/ Buffer \/ Build
  BY <1>8 DEF CheckFills, CheckPasses, Count, Buffer, Build, Enter
<1>9. CASE Invoked
  BY <1>9 DEF Invoked
<1>10. CASE UNCHANGED vars
  BY <1>1, <1>10 DEF vars, setter, invocation
<1> QED
  BY <1>2, <1>3, <1>4, <1>5, <1>6, <1>7, <1>8, <1>9, <1>10 DEF Next, Call, Proceed, AppendStep

\* How the second pass is entered, and what keeps it going.
LEMMA SecondPassSteps ==
    ASSUME IInv, [Next]_vars, SecondPass'
    PROVE  \/ pc = "count" /\ Count /\ next[it] = Null
           \/ SecondPass /\ (Buffer \/ Build \/ UNCHANGED vars)
<1> USE DEF SecondPass
<1>1. CASE \E n \in Number : CallSetComplexDouble(n) \/ CallSetOther(n)
  BY <1>1 DEF CallSetComplexDouble, CallSetOther, CallSet, Enter
<1>2. CASE (\E n \in Number \cup {-1} : Alloc(n)) \/ (\E r \in {"EINVAL", "ENOMEM"} : Refuse(r))
  BY <1>2 DEF Alloc, Refuse
<1>3. CASE (\E then \in {"ready", "none"} : CallClear(then)) \/ CallInvoke
  BY <1>3 DEF CallClear, CallInvoke
<1>4. CASE WalkOn \/ WalkAppend \/ WalkInsert \/ WalkFound
  BY <1>4 DEF WalkOn, WalkAppend, WalkInsert, WalkFound, Leave, IInv, BackInv
<1>5. CASE WalkNoMemory \/ CheckFails \/ BufferNoMemory
  BY <1>5 DEF WalkNoMemory, CheckFails, BufferNoMemory, Abort
<1>6. CASE ClearOne \/ ClearEnd
  BY <1>6 DEF ClearOne, ClearEnd, IInv, BackInv
<1>7. CASE CheckFills \/ CheckPasses \/ Count
  BY <1>7 DEF CheckFills, CheckPasses, Count, Enter
<1>8. CASE Buffer \/ Build \/ Invoked
  BY <1>8 DEF Buffer, Build, Invoked
<1>9. CASE UNCHANGED vars
  BY <1>9 DEF vars
<1> QED
  BY <1>1, <1>2, <1>3, <1>4, <1>5, <1>6, <1>7, <1>8, <1>9 DEF Next, Call, Proceed, AppendStep

\* Where the first pass ends the list is complete.
LEMMA PassComplete ==
    ASSUME IInv, pc = "count", next[it] = Null
    PROVE  /\ Cardinality(Numbers) \in Nat
           /\ Numbers = 0 .. Cardinality(Numbers) - 1
           /\ args_num \in {-1, Cardinality(Numbers)}
<1>1. FirstPass
  BY DEF FirstPass
<1>2. /\ it \in Elem /\ Sorted(Elem) /\ num[it] \in Int /\ num[it] >= -1
      /\ args_num \in Int /\ 0 .. num[it] \subseteq Numbers
      /\ \A x \in alloc : num[x] \in Nat
  BY <1>1, PassFacts
<1>3. Numbers \subseteq 0 .. num[it]
  <2> SUFFICES ASSUME NEW x \in alloc PROVE num[x] \in 0 .. num[it]
    BY DEF Numbers
  <2>1. ~(num[it] < num[x])
    BY <1>2 DEF Sorted, Elem
  <2> QED
    BY <1>2, <2>1
<1>4. Numbers = 0 .. num[it]
  BY <1>2, <1>3
<1>5. Cardinality(0 .. num[it]) = num[it] + 1
  BY <1>2, FS_Interval
<1>6. args_num \in {-1, num[it] + 1}
  <2>1. ~TooMany /\ ~Gap
    BY DEF IInv, CountInv
  <2> QED
    BY <1>2, <2>1 DEF TooMany, Gap
<1> QED
  BY <1>2, <1>4, <1>5, <1>6

\* Facts about the second pass that hold whatever it does next.
LEMMA BuildFacts ==
    ASSUME IInv, SecondPass
    PROVE  /\ TypeOK /\ pc # "clear" /\ Sorted(Elem) /\ Elem = alloc \cup {"head"} /\ num["head"] = -1
           /\ Cardinality(Numbers) \in Nat
           /\ \A x \in alloc : /\ x \in Elem /\ num[x] \in Nat /\ num[x] < Cardinality(Numbers)
                               /\ data[x] \in Value /\ Arguments[num[x]] = data[x] /\ x # Null
           /\ \A k \in 0 .. Cardinality(Numbers) - 1 : \E x \in alloc : num[x] = k
<1>1. TypeOK /\ pc # "clear" /\ Sorted(Elem) /\ num["head"] = -1
  BY DEF IInv, ListInv, SecondPass
<1>2. Numbers = 0 .. Cardinality(Numbers) - 1
  BY DEF IInv, BuildInv
<1>5. Cardinality(Numbers) \in Nat
  BY DEF IInv, BuildInv
<1>6. ASSUME NEW x \in alloc
      PROVE  /\ x \in Elem /\ num[x] \in Nat /\ num[x] < Cardinality(Numbers)
             /\ data[x] \in Value /\ Arguments[num[x]] = data[x] /\ x # Null
  <2>1. x \in Elem /\ num[x] \in Nat /\ num[x] \in Numbers
    BY NumberAssumption DEF IInv, ListInv, Elem, Numbers
  <2>2. num[x] < Cardinality(Numbers)
    BY <1>2, <1>5, <2>1
  <2>3. data[x] \in Value /\ x # Null
    BY <1>1, <2>1, ElemTypes
  <2>4. Arguments[num[x]] = data[x]
    <3>1. \A y, z \in alloc : num[y] = num[z] => y = z
      BY <1>1 DEF Sorted, Elem
    <3> QED
      BY <3>1, ArgumentOf
  <2> QED
    BY <2>1, <2>2, <2>3, <2>4
<1>7. \A k \in 0 .. Cardinality(Numbers) - 1 : \E x \in alloc : num[x] = k
  BY <1>2 DEF Numbers
<1> QED
  BY <1>1, <1>5, <1>6, <1>7 DEF Elem

\* Behind the element numbered k comes that numbered k + 1, or the end.
LEMMA BuildNext ==
    ASSUME IInv, SecondPass, NEW x \in Elem
    PROVE  IF next[x] = Null THEN num[x] + 1 = Cardinality(Numbers)
           ELSE next[x] \in alloc /\ num[next[x]] = num[x] + 1
<1> DEFINE C == Cardinality(Numbers)
<1>1. num[x] \in Int /\ num[x] + 1 \in Nat /\ num[x] < C /\ C \in Nat
  BY BuildFacts
<1>2. ASSUME NEW y \in alloc, num[y] = num[x] + 1
      PROVE  next[x] # Null /\ num[next[x]] <= num[x] + 1
  <2>1. num[x] < num[y] /\ y \in Elem
    BY <1>1, <1>2, BuildFacts
  <2> QED
    BY <1>2, <2>1, BuildFacts DEF Sorted
<1>3. CASE next[x] = Null
  <2>1. num[x] + 1 \notin 0 .. C - 1
    <3> SUFFICES ASSUME num[x] + 1 \in 0 .. C - 1 PROVE FALSE
      OBVIOUS
    <3>1. PICK y \in alloc : num[y] = num[x] + 1
      BY BuildFacts
    <3> QED
      BY <1>2, <1>3, <3>1
  <2> HIDE DEF C
  <2>2. num[x] + 1 = C
    BY <1>1, <2>1
  <2> QED
    BY <1>3, <2>2 DEF C
<1>4. CASE next[x] # Null
  <2>1. next[x] \in Elem /\ num[x] < num[next[x]]
    BY <1>4, BuildFacts DEF Sorted
  <2>2. next[x] \in alloc
    <3>1. next[x] # "head"
      BY <1>1, <2>1, BuildFacts
    <3> QED
      BY <2>1, <3>1 DEF Elem
  <2>3. num[next[x]] \in Nat /\ num[next[x]] < C
    BY <2>2, BuildFacts
  <2> HIDE DEF C
  <2>4. num[x] + 1 \in 0 .. C - 1
    BY <1>1, <2>1, <2>3
  <2>5. PICK y \in alloc : num[y] = num[x] + 1
    BY <2>4, BuildFacts DEF C
  <2>6. num[next[x]] <= num[x] + 1
    BY <1>2, <2>5
  <2>7. num[next[x]] = num[x] + 1
    BY <1>1, <2>1, <2>3, <2>6
  <2> QED
    BY <1>4, <2>2, <2>7
<1> QED
  BY <1>3, <1>4

\* The second pass writes the records of the element reached behind those of
\* the ones before, and ends with room for none.
LEMMA BuildStep == IInv /\ [Next]_vars => BuildInv'
<1> SUFFICES ASSUME IInv, [Next]_vars, SecondPass' PROVE BuildInv'
  BY DEF BuildInv, SecondPass
<1>1. CASE pc = "count" /\ Count /\ next[it] = Null
  <2>1. pc' = "buffer" /\ it' = Null /\ insize' = insize + SizeOf(it) /\ UNCHANGED <<heap, args_num, in>>
    BY <1>1 DEF Count
  <2>2. FirstPass
    BY <1>1 DEF FirstPass
  <2>3. in = <<>> /\ Weight(alloc) = insize + SizeOf(it)
    BY <1>1, <2>2, CountedNext DEF IInv, CountInv
  <2>4. Weight(alloc)' = Weight(alloc) /\ Numbers' = Numbers
    BY <2>1 DEF Weight, Numbers, heap
  <2> QED
    BY <1>1, <2>1, <2>3, <2>4, PassComplete DEF BuildInv
<1>2. CASE SecondPass /\ Buffer
  <2>1. /\ pc = "buffer" /\ pc' = "build" /\ it' = next["head"]
        /\ UNCHANGED <<heap, args_num, insize, in>> /\ in = <<>> /\ insize = Weight(alloc)
        /\ Numbers = 0 .. Cardinality(Numbers) - 1 /\ args_num \in {-1, Cardinality(Numbers)}
        /\ Cardinality(Numbers) \in Nat
    BY <1>2 DEF Buffer, IInv, BuildInv
  <2>2. Numbers' = Numbers /\ Weight(alloc)' = Weight(alloc) /\ Records(0)' = Records(0)
    BY <2>1 DEF Numbers, Weight, Records, Arguments, heap
  <2>3. "head" \in Elem /\ num["head"] = -1
    BY <1>2, BuildFacts
  <2>4. IF next["head"] = Null THEN Cardinality(Numbers) = 0
        ELSE next["head"] \in alloc /\ num[next["head"]] = 0
    <3>1. Cardinality(Numbers) \in Nat
      BY <1>2, BuildFacts
    <3>2. num["head"] + 1 = 0
      BY <2>3
    <3> QED
      BY <1>2, <2>3, <3>1, <3>2, BuildNext
  <2>5. Passed' = {}
    <3>1. {y \in alloc : num[y] < num["head"]} \cup ({"head"} \ {"head"}) = {}
      BY <1>2, <2>3, BuildFacts
    <3>2. (IF next["head"] = Null THEN alloc ELSE {y \in alloc : num[y] < num[next["head"]]}) = {}
      BY <1>2, <2>3, <3>1, BuildFacts, PassOn
    <3> QED
      BY <2>1, <3>2 DEF Passed, heap
  <2>6. Len(in') = Weight(Passed)'
    BY <2>1, <2>5, WeightNone DEF Weight
  <2>7. in' = Records(IF it = Null THEN Cardinality(Numbers) ELSE num[it])'
    <3>1. (IF it' = Null THEN Cardinality(Numbers') ELSE num'[it']) = 0
      BY <2>1, <2>2, <2>4 DEF heap
    <3>2. Records(0)' = <<>>
      BY <2>2, RecordsNone
    <3> QED
      BY <2>1, <3>1, <3>2 DEF Records
  <2> QED
    BY <2>1, <2>2, <2>4, <2>6, <2>7 DEF BuildInv, heap
<1>3. CASE SecondPass /\ Build
  <2> DEFINE k == num[it]
             parts == Object!Parts(data[it])
  <2>1. /\ pc = "build" /\ pc' = "build" /\ it # Null /\ it' = next[it]
        /\ in' = in \o parts
        /\ UNCHANGED <<heap, args_num, insize>>
    BY <1>3 DEF Build, Object!Parts
  <2>2. /\ Numbers = 0 .. Cardinality(Numbers) - 1 /\ args_num \in {-1, Cardinality(Numbers)}
        /\ Cardinality(Numbers) \in Nat
        /\ insize = Weight(alloc) /\ it \in alloc /\ in \in Seq(Value \X {"all", "re", "im"})
        /\ Len(in) = Weight(Passed) /\ in = Records(k)
    BY <1>3, <2>1 DEF IInv, BuildInv
  <2>3. Numbers' = Numbers /\ Weight(alloc)' = Weight(alloc)
    BY <2>1 DEF Numbers, Weight, heap
  <2>4. k \in Nat /\ data[it] \in Value /\ Arguments[k] = data[it] /\ TypeOK /\ it \in Elem
    BY <1>3, <2>2, BuildFacts
  <2>5. in' = Records(k + 1)
    BY <2>1, <2>2, <2>4, RecordsMore
  <2>6. parts \in Seq(Value \X {"all", "re", "im"}) /\ Len(parts) = SizeOf(it)
    <3>1. CASE data[it] \in Complex
      BY <2>4, <3>1 DEF Object!Parts, SizeOf
    <3>2. CASE data[it] \notin Complex
      BY <2>4, <3>2 DEF Object!Parts, SizeOf
    <3> QED
      BY <3>1, <3>2
  <2>7. in' \in Seq(Value \X {"all", "re", "im"}) /\ Len(in') = Len(in) + SizeOf(it)
    <3> DEFINE T == Value \X {"all", "re", "im"}
    <3>1. in \in Seq(T) /\ parts \in Seq(T)
      BY <2>2, <2>6
    <3> HIDE DEF parts, T
    <3>2. in \o parts \in Seq(T) /\ Len(in \o parts) = Len(in) + Len(parts)
      BY <3>1
    <3> QED
      BY <2>1, <2>6, <3>2 DEF T
  <2>8. IF next[it] = Null THEN k + 1 = Cardinality(Numbers)
        ELSE next[it] \in alloc /\ num[next[it]] = k + 1
    BY <1>3, <2>4, BuildNext
  <2>9. Passed' = Passed \cup {it} /\ Passed = {y \in alloc : num[y] < num[it]}
    <3>1. Passed' = IF next[it] = Null THEN alloc ELSE {y \in alloc : num[y] < num[next[it]]}
      BY <2>1 DEF Passed, heap
    <3>2. it # "head"
      BY <2>2, <2>4, ElemTypes
    <3> QED
      BY <1>3, <2>1, <2>4, <3>1, <3>2, PassOn, BuildFacts DEF Passed
  <2>10. Weight(Passed)' = Weight(Passed) + SizeOf(it)
    <3>1. Weight(Passed)' = Weight(Passed \cup {it})
      BY <2>1, <2>9 DEF Weight, heap
    <3>2. Passed \in SUBSET alloc /\ it \in alloc \ Passed
      BY <2>2, <2>4, <2>9
    <3> QED
      BY <2>4, <3>1, <3>2, WeightMore
  <2>11. in' = Records(IF it = Null THEN Cardinality(Numbers) ELSE num[it])'
    <3>1. (IF it' = Null THEN Cardinality(Numbers') ELSE num'[it']) = k + 1
      BY <2>1, <2>3, <2>4, <2>8, NamesAssumption DEF heap, TypeOK
    <3>2. Arguments' = Arguments
      BY <2>1, <2>3 DEF Arguments, heap
    <3> HIDE DEF k
    <3> QED
      BY <2>5, <3>1, <3>2 DEF Records
  <2> QED
    BY <2>1, <2>2, <2>3, <2>7, <2>8, <2>10, <2>11 DEF BuildInv, heap
<1>4. CASE SecondPass /\ UNCHANGED vars
  <2>1. UNCHANGED <<heap, args_num, it, insize, in, pc>>
    BY <1>4 DEF vars, invocation
  <2> QED
    BY <1>4, <2>1 DEF IInv, BuildInv, Numbers, Weight, Passed, Records, Arguments, heap
<1> QED
  BY <1>1, <1>2, <1>3, <1>4, SecondPassSteps

\* Every step keeps the types: what a setter inserts is a number below the
\* one announced, and neither the size of the buffer nor what is written to it
\* can exceed the records of all elements.
LEMMA TypeStep == IInv /\ [Next]_vars => TypeOK'
<1> SUFFICES ASSUME IInv, [Next]_vars PROVE TypeOK'
  OBVIOUS
<1>1. /\ TypeOK /\ IdleInv /\ BackInv /\ Cardinality(Node) \in Nat
      /\ 0 \in Number /\ Number \subseteq Nat /\ Zero \in Value
  BY NumberAssumption, ValueAssumption, NodeAssumption, FS_CardinalityType DEF IInv
<1>2. CASE WalkAppend \/ WalkInsert
  <2>1. PICK old \in Elem, new \in Node \ alloc : Link(old, new)
    BY <1>2, InsertPlace
  <2>2. old \in Item /\ new \in Item /\ next[old] \in Node \cup {Null}
    BY <1>1, <2>1, ElemTypes DEF Item
  <2>3. /\ alloc' \subseteq Node /\ num' \in [Item -> Number \cup {-1}]
        /\ next' \in [Item -> Node \cup {Null}] /\ data' \in [Item -> Value]
    BY <1>1, <2>1, <2>2 DEF Link, TypeOK
  <2>4. pc = "walk" /\ Leave
    BY <1>2 DEF WalkAppend, WalkInsert
  <2> QED
    BY <1>1, <2>3, <2>4 DEF TypeOK, Leave, BackInv, invocation
<1>3. CASE WalkOn \/ WalkFound
  <2>1. pc = "walk" /\ p \in Item /\ next[p] \in Item \cup {Null}
    BY <1>1, <1>3, ElemTypes DEF WalkOn, WalkFound, WalkInv, IInv, Item
  <2>2. CASE WalkOn
    BY <1>1, <2>1, <2>2 DEF WalkOn, TypeOK, heap, invocation
  <2>3. CASE WalkFound
    BY <1>1, <2>1, <2>3 DEF WalkFound, TypeOK, Leave, BackInv, invocation
  <2> QED
    BY <1>3, <2>2, <2>3
<1>4. CASE WalkNoMemory \/ CheckFails \/ BufferNoMemory
  BY <1>1, <1>4 DEF WalkNoMemory, CheckFails, BufferNoMemory, Abort, TypeOK, heap
<1>5. CASE ClearOne \/ ClearEnd
  <2>1. "head" \in Item /\ (p # Null => p \in Item /\ next[p] \in Item \cup {Null})
    BY <1>1 DEF TypeOK, Item
  <2>2. CASE ClearOne
    BY <1>1, <2>1, <2>2 DEF ClearOne, TypeOK, invocation
  <2>3. CASE ClearEnd
    BY <1>1, <2>1, <2>3 DEF ClearEnd, TypeOK, BackInv, invocation
  <2> QED
    BY <1>5, <2>2, <2>3
<1>6. CASE CheckFills
  <2>1. pc' = "walk" /\ back' = "count"
    BY <1>6 DEF CheckFills, Enter
  <2>2. /\ pc = "check" /\ argnum' = num[it] + 1 /\ args_num' = args_num /\ FirstPass
    BY <1>6 DEF CheckFills, Enter, FirstPass
  <2>3. argnum' \in 0 .. args_num /\ args_num \in Number
    <3>1. args_num # -1 /\ (argnum' < args_num \/ argnum' = args_num)
      BY <2>1, <2>2, FillStep DEF FillInv
    <3> QED
      BY <1>1, <2>2, <3>1, PassFacts DEF TypeOK
  <2>4. argnum' \in Number
    BY <2>3, NumberAssumption
  <2> QED
    BY <1>1, <1>6, <2>4 DEF CheckFills, Enter, TypeOK, heap, invocation, Item
<1>7. CASE Count
  <2>1. FirstPass /\ in = <<>>
    BY <1>7 DEF Count, FirstPass, IInv, CountInv
  <2>2. it \in Item /\ next[it] \in Item \cup {Null}
    BY <1>1, <2>1, PassFacts, ElemTypes DEF Item
  <2>3. insize' \in 0 .. 2 * Cardinality(Node)
    <3> DEFINE S == IF next[it] = Null THEN alloc ELSE {y \in alloc : num[y] < num[next[it]]}
    <3>1. S \in SUBSET alloc
      OBVIOUS
    <3>2. insize' = Weight(S)
      BY <1>7, <2>1, CountedNext DEF Count
    <3> HIDE DEF S
    <3> QED
      BY <1>1, <3>1, <3>2, WeightType
  <2>4. UNCHANGED <<heap, args_num, setter, in, reply>> /\ it' = next[it] /\ pc' \in {"buffer", "check"}
    BY <1>7 DEF Count
  <2>5. Len(in') <= insize'
    BY <2>1, <2>3, <2>4
  <2> QED
    BY <1>1, <2>2, <2>3, <2>4, <2>5 DEF TypeOK, heap, setter
<1>8. CASE Build
  <2>1. SecondPass /\ pc' = "build" /\ it' = next[it] /\ UNCHANGED <<heap, args_num, setter, insize, reply>>
    BY <1>8 DEF Build, SecondPass
  <2>2. Len(in') = Weight(Passed)' /\ insize = Weight(alloc)
    BY <1>8, <2>1, BuildStep DEF BuildInv, IInv, SecondPass
  <2>3. it \in Item /\ next[it] \in Item \cup {Null}
    <3>1. it \in alloc
      BY <1>8 DEF Build, IInv, BuildInv, SecondPass
    <3> QED
      BY <1>1, <3>1, ElemTypes DEF Item
  <2>4. Len(in') <= insize'
    <3> DEFINE S == IF next[it] = Null THEN alloc ELSE {y \in alloc : num[y] < num[next[it]]}
    <3>1. Weight(Passed)' = Weight(S)
      BY <2>1 DEF Weight, Passed, heap
    <3>2. S \in SUBSET alloc
      OBVIOUS
    <3> HIDE DEF S
    <3> QED
      BY <1>1, <2>1, <2>2, <3>1, <3>2, WeightLess
  <2> QED
    BY <1>1, <2>1, <2>3, <2>4 DEF TypeOK, heap, setter
<1>9. CASE (\E n \in Number \cup {-1} : Alloc(n)) \/ (\E r \in {"EINVAL", "ENOMEM"} : Refuse(r))
  BY <1>1, <1>9 DEF Alloc, Refuse, TypeOK, heap, setter, invocation
<1>10. CASE \E n \in Number : CallSetComplexDouble(n) \/ CallSetOther(n)
  <2>1. PICK n \in Number, v \in Value : CallSet(n, v)
    BY <1>10, ValueAssumption DEF CallSetComplexDouble, CallSetOther
  <2> QED
    BY <1>1, <2>1 DEF CallSet, Enter, TypeOK, heap, invocation, Item
<1>11. CASE (\E then \in {"ready", "none"} : CallClear(then)) \/ CallInvoke
  BY <1>1, <1>11 DEF CallClear, CallInvoke, TypeOK, heap, setter, invocation, Item
<1>12. CASE CheckPasses \/ Buffer \/ Invoked
  <2>1. next["head"] \in Item \cup {Null}
    BY <1>1 DEF TypeOK, Item
  <2> QED
    BY <1>1, <1>12, <2>1 DEF CheckPasses, Buffer, Invoked, TypeOK, heap, setter, invocation
<1>13. CASE UNCHANGED vars
  BY <1>1, <1>13 DEF vars, heap, setter, invocation, TypeOK
<1> QED
  BY <1>2, <1>3, <1>4, <1>5, <1>6, <1>7, <1>8, <1>9, <1>10, <1>11, <1>12, <1>13
     DEF Next, Call, Proceed, AppendStep

-----------------------------------------------------------------------------
(* The theorems on types and on memory.                                    *)

\* IInv is inductive.
THEOREM Invariance == Spec => []IInv
<1>1. IInv /\ [Next]_vars => IInv'
  <2> SUFFICES ASSUME IInv, [Next]_vars PROVE IInv'
    OBVIOUS
  <2> QED
    BY TypeStep, ListStep, BackStep, WalkStep, FillStep, CountStep, BuildStep, IdleStep DEF IInv
<1> QED
  BY InitHolds, <1>1, PTL DEF Spec

\* Of whatever size the list is: types, and the size of the buffer, which what
\* is written to it does not exceed.
THEOREM TypeCorrect == Spec => []TypeOK
<1>1. IInv => TypeOK
  BY DEF IInv
<1> QED
  BY Invariance, <1>1, PTL

\* What the links reach from the head is what is allocated.
LEMMA ListedAlloc ==
    ASSUME IInv, pc # "clear"
    PROVE  Listed = alloc
<1>1. TypeOK /\ Sorted(Elem) /\ Elem \in SUBSET Item /\ "head" \notin alloc
  BY ElemTypes DEF IInv, ListInv
<1>2. "head" \in Elem /\ \A x \in Elem : num["head"] <= num[x]
  <2>1. num["head"] = -1 /\ \A x \in alloc : num[x] \in Nat
    BY NumberAssumption DEF IInv, ListInv
  <2> QED
    BY <2>1 DEF Elem
<1>3. From("head") = Elem
  BY <1>1, <1>2, FromSorted
<1> QED
  BY <1>1, <1>3 DEF Listed, Elem

\* Nothing dangles, leaks or is written beyond the buffer, in any step of a
\* setter, of an invocation and of vhcall_args_clear.
THEOREM MemorySafeCorrect == Spec => []MemorySafe
<1>1. IInv => MemorySafe
  <2> SUFFICES ASSUME IInv PROVE MemorySafe
    OBVIOUS
  <2>1. TypeOK /\ ListInv /\ "head" \notin alloc /\ alloc \in SUBSET Item /\ Null \notin Item
    BY ElemTypes DEF IInv, Elem
  <2>2. pc \notin {"none", "clear"} => Listed = alloc
    BY ListedAlloc
  <2>3. ASSUME NEW x \in Listed \cup {"head"}, pc # "clear", next[x] # Null
        PROVE  num[x] < num[next[x]]
    <3>1. x \in Elem /\ Sorted(Elem)
      BY <2>1, <2>3, ListedAlloc DEF ListInv, Elem
    <3> QED
      BY <2>3, <3>1 DEF Sorted
  <2>4. ASSUME pc = "walk"
        PROVE  p \in Elem /\ (num[p] > argnum => tmp \in Elem /\ next[tmp] = p)
    <3>1. num["head"] = -1 /\ argnum \in Nat
      BY <2>1, NumberAssumption DEF ListInv, TypeOK
    <3> QED
      BY <2>4, <3>1 DEF IInv, WalkInv
  <2>5. pc = "clear" => From(p) = alloc
    <3>1. CASE pc = "clear" /\ p = Null
      <4>1. alloc = {} /\ Closed({})
        BY <3>1 DEF IInv, ListInv, Closed
      <4>2. From(p) = {}
        BY <3>1, <4>1 DEF From
      <4> QED
        BY <4>1, <4>2
    <3>2. CASE pc = "clear" /\ p # Null
      <4>1. p \in alloc /\ Sorted(alloc) /\ \A x \in alloc : num[p] <= num[x]
        BY <3>2 DEF IInv, ListInv
      <4> QED
        BY <2>1, <4>1, FromSorted
    <3> QED
      BY <3>1, <3>2
  <2>6. pc = "none" => alloc = {}
    BY <2>1 DEF ListInv
  <2>7. pc \in {"check", "count"} => it \in Elem
    BY DEF IInv, CountInv, FirstPass
  <2>8. pc = "build" /\ it = Null => Len(in) = insize
    BY DEF IInv, BuildInv, SecondPass, Passed
  <2> QED
    BY <2>2, <2>3, <2>4, <2>5, <2>6, <2>7, <2>8 DEF MemorySafe, Elem
<1> QED
  BY Invariance, <1>1, PTL

-----------------------------------------------------------------------------
(* The list is the map of VhcallMap.                                       *)

\* The map a call of the object sees: none of the list vhcall_args_clear is
\* taking apart.
Held == IF pc = "clear" THEN Object!Unset ELSE Arguments

\* It is the map the links lead to.
LEMMA MapHeld == IInv => Map = Held
<1> SUFFICES ASSUME IInv PROVE Map = Held
  OBVIOUS
<1>1. CASE pc = "clear"
  BY <1>1 DEF Map, Held, Object!Unset
<1>2. CASE pc # "clear"
  BY <1>2, ListedAlloc DEF Map, Held, Arguments, Numbers
<1> QED
  BY <1>1, <1>2

\* The standard module, instantiated, is the same.
LEMMA SameCardinality == \A S : Object!Cardinality(S) = Cardinality(S)
  BY DEF Object!Cardinality, Cardinality

\* Without elements it is empty.
LEMMA ArgumentsNone == alloc = {} => Arguments = Object!Unset
  BY DEF Arguments, Numbers, Object!Unset

\* There are no more numbers than elements.
LEMMA NumbersFinite ==
    ASSUME TypeOK
    PROVE  IsFiniteSet(Numbers) /\ Cardinality(Numbers) \in Nat
<1>1. IsFiniteSet(alloc)
  BY WeightType
<1>2. [x \in alloc |-> num[x]] \in Surjection(alloc, Numbers)
  BY DEF Surjection, Numbers
<1>3. IsFiniteSet(Numbers)
  BY <1>1, <1>2, FS_Surjection
<1> QED
  BY <1>3, FS_CardinalityType

\* A setter that comes to its end sets its argument and leaves the others; it
\* makes an element only for a number that has none.
LEMMA SetterSets ==
    ASSUME IInv, WalkAppend \/ WalkInsert \/ WalkFound
    PROVE  /\ Arguments' = [k \in Numbers \cup {argnum} |-> IF k = argnum THEN val ELSE Arguments[k]]
           /\ WalkAppend \/ WalkInsert => argnum \notin Numbers
<1>1. /\ TypeOK /\ Sorted(Elem) /\ pc = "walk" /\ "head" \notin alloc /\ p \in Elem /\ Elem \subseteq Item
      /\ num["head"] = -1 /\ argnum \in Nat
  BY ElemTypes, NumberAssumption DEF WalkAppend, WalkInsert, WalkFound, IInv, ListInv, WalkInv, TypeOK
<1>2. \A x, y \in alloc : num[x] = num[y] => x = y
  BY <1>1 DEF Sorted, Elem
<1>3. ASSUME WalkAppend \/ WalkInsert
      PROVE  \E new \in Node \ alloc :
               /\ alloc' = alloc \cup {new} /\ num'[new] = argnum /\ data'[new] = val
               /\ \A x \in alloc : num'[x] = num[x] /\ data'[x] = data[x] /\ num[x] # argnum
  <2>1. PICK old \in Elem, new \in Node \ alloc :
           num[old] < argnum /\ (next[old] # Null => argnum < num[next[old]]) /\ Link(old, new)
    BY <1>3, InsertPlace
  <2>2. /\ Sorted(Elem)' /\ Elem' = Elem \cup {new} /\ num'[new] = argnum
        /\ \A x \in Elem : num'[x] = num[x] /\ data'[x] = data[x]
    BY <1>1, <2>1, LinkedSorted
  <2>3. \A x \in alloc : num[x] # argnum
    BY <2>1, <2>2 DEF Sorted, Elem
  <2>4. data'[new] = val /\ alloc' = alloc \cup {new}
    BY <1>1, <2>1 DEF Link, TypeOK, Item
  <2> QED
    BY <2>2, <2>3, <2>4 DEF Elem
<1>4. ASSUME WalkFound
      PROVE  /\ alloc' = alloc /\ num' = num /\ p \in alloc /\ num[p] = argnum
             /\ data'[p] = val /\ \A x \in alloc : x # p => data'[x] = data[x]
  BY <1>1, <1>4 DEF WalkFound, TypeOK, Elem
<1>5. PICK e \in alloc' :
         /\ num'[e] = argnum /\ data'[e] = val /\ alloc' = alloc \cup {e}
         /\ \A x \in alloc \ {e} : num'[x] = num[x] /\ data'[x] = data[x] /\ num[x] # argnum
         /\ e \in alloc => num[e] = argnum
  <2>1. CASE WalkAppend \/ WalkInsert
    BY <1>3, <2>1
  <2>2. CASE WalkFound
    BY <1>2, <1>4, <2>2
  <2> QED
    BY <2>1, <2>2
<1>6. Numbers' = Numbers \cup {argnum}
  BY <1>5 DEF Numbers
<1>7. ASSUME NEW k \in Numbers \cup {argnum}
      PROVE  data'[CHOOSE x \in alloc' : num'[x] = k] = IF k = argnum THEN val ELSE Arguments[k]
  <2>1. CASE k = argnum
    <3>1. \A x \in alloc' : num'[x] = k <=> x = e
      BY <1>5, <2>1
    <3>2. (CHOOSE x \in alloc' : num'[x] = k) = e
      BY <3>1
    <3> QED
      BY <1>5, <2>1, <3>2
  <2>2. CASE k # argnum
    <3>1. PICK y \in alloc : num[y] = k
      BY <2>2 DEF Numbers
    <3>2. y # e /\ y \in alloc'
      BY <1>5, <2>2, <3>1
    <3>3. \A x \in alloc' : num'[x] = k <=> x = y
      BY <1>2, <1>5, <2>2, <3>1, <3>2
    <3>4. (CHOOSE x \in alloc' : num'[x] = k) = y
      BY <3>3, <3>2
    <3>5. Arguments[k] = data[y]
      BY <1>2, <3>1, ArgumentOf
    <3> QED
      BY <1>5, <2>2, <3>2, <3>4, <3>5
  <2> QED
    BY <2>1, <2>2
<1>8. Arguments' = [k \in Numbers \cup {argnum} |-> IF k = argnum THEN val ELSE Arguments[k]]
  <2>1. Arguments' = [k \in Numbers' |-> data'[CHOOSE x \in alloc' : num'[x] = k]]
    BY DEF Arguments
  <2> QED
    BY <1>6, <1>7, <2>1
<1>9. WalkAppend \/ WalkInsert => argnum \notin Numbers
  BY <1>3 DEF Numbers
<1> QED
  BY <1>8, <1>9

\* An invocation's setter never finds the argument set.
LEMMA FilledNew ==
    ASSUME IInv, WalkFound
    PROVE  back # "count"
<1> SUFFICES ASSUME back = "count" PROVE FALSE
  OBVIOUS
<1>1. pc = "walk" /\ p \in Elem /\ num[p] = argnum /\ num["head"] = -1 /\ argnum \in Nat
  BY NumberAssumption DEF WalkFound, IInv, WalkInv, ListInv, TypeOK
<1>2. argnum \in Numbers
  BY <1>1 DEF Elem, Numbers
<1> QED
  BY <1>1, <1>2 DEF IInv, FillInv

\* Steps that neither touch the list nor begin or end a clearing leave the map.
LEMMA HeldKept ==
    ASSUME UNCHANGED heap, pc = "clear" <=> pc' = "clear"
    PROVE  Held' = Held
  BY DEF Held, Arguments, Numbers, Object!Unset, heap

\* The calls that set, clear or free an object, or get no memory for it.
LEMMA CallsImplement ==
    ASSUME IInv, Map = Held, Map' = Held',
           \/ \E n \in Number \cup {-1} : Alloc(n)
           \/ \E r \in {"EINVAL", "ENOMEM"} : Refuse(r)
           \/ \E n \in Number : CallSetComplexDouble(n) \/ CallSetOther(n)
           \/ \E then \in {"ready", "none"} : CallClear(then)
           \/ CallInvoke
    PROVE  Object!Next \/ UNCHANGED Object!vars
<1> USE DEF Object!Next, Object!vars, Object!Replies
<1>1. ASSUME NEW n \in Number \cup {-1}, Alloc(n) PROVE Object!Alloc(n)
  <2>1. alloc' = {}
    BY <1>1 DEF Alloc, heap, IInv, ListInv
  <2>2. Map' = Object!Unset
    <3>1. Held' = Arguments'
      BY <1>1 DEF Alloc, Held
    <3>2. Arguments' = Object!Unset
      BY <2>1 DEF Arguments, Numbers, Object!Unset
    <3> QED
      BY <3>1, <3>2
  <2> QED
    BY <1>1, <2>2 DEF Alloc, Object!Alloc, Phase
<1>2. ASSUME NEW r \in {"EINVAL", "ENOMEM"}, Refuse(r) PROVE Object!Refuse(r)
  <2>1. Held' = Held
    BY <1>2, HeldKept DEF Refuse
  <2> QED
    BY <1>2, <2>1 DEF Refuse, Object!Refuse, Phase, setter
<1>3. ASSUME NEW n \in Number, NEW v \in Value, CallSet(n, v) PROVE UNCHANGED Object!vars
  <2>1. Held' = Held
    BY <1>3, HeldKept DEF CallSet, Enter
  <2> QED
    BY <1>3, <2>1 DEF CallSet, Enter, Phase
<1>4. ASSUME NEW then \in {"ready", "none"}, CallClear(then) PROVE Object!Clear
  <2>1. Map' = Object!Unset
    BY <1>4 DEF CallClear, Held, Object!Unset
  <2> QED
    BY <1>4, <2>1 DEF CallClear, Object!Clear, Phase
<1>5. ASSUME CallInvoke PROVE Object!Invoke
  <2>1. Held' = Held
    BY <1>5, HeldKept DEF CallInvoke
  <2> QED
    BY <1>5, <2>1 DEF CallInvoke, Object!Invoke, Phase, setter
<1>6. ASSUME \E n \in Number : CallSetComplexDouble(n) \/ CallSetOther(n)
      PROVE  \E n \in Number, v \in Value : CallSet(n, v)
  BY <1>6, ValueAssumption DEF CallSetComplexDouble, CallSetOther
<1> QED
  BY <1>1, <1>2, <1>3, <1>4, <1>5, <1>6

\* A setter sets its argument of the map, or fills the gap it was called for.
LEMMA SettersImplement ==
    ASSUME IInv, Map = Held, Map' = Held', AppendStep
    PROVE  Object!Next \/ UNCHANGED Object!vars
<1> USE DEF Object!Next, Object!vars, Object!Replies
<1>1. /\ pc = "walk" /\ back \in {"ready", "count"} /\ Map = Arguments /\ DOMAIN Map = Numbers
      /\ argnum \in Number /\ argnum \in Nat /\ val \in Value
  <2>1. pc = "walk"
    BY DEF AppendStep, WalkOn, WalkAppend, WalkInsert, WalkFound, WalkNoMemory
  <2> QED
    BY <2>1, NumberAssumption DEF IInv, BackInv, TypeOK, Held, Arguments
<1>2. ASSUME back = "count"
      PROVE  /\ args_num \in Int /\ args_num # -1 /\ argnum \notin Numbers /\ 0 .. argnum - 1 \subseteq Numbers
             /\ argnum < args_num \/ (argnum = args_num /\ \E k \in Numbers : k > argnum)
             /\ val = Zero
  <2>1. FirstPass
    BY <1>1, <1>2 DEF FirstPass
  <2>2. argnum = num[it] + 1 /\ 0 .. num[it] \subseteq Numbers /\ num[it] \in Int /\ args_num \in Int
    BY <1>1, <1>2, <2>1, PassFacts DEF IInv, FillInv
  <2> QED
    BY <1>1, <1>2, <2>2 DEF IInv, FillInv, Numbers
<1>3. CASE WalkOn
  <2>1. Held' = Held
    BY <1>3, HeldKept DEF WalkOn
  <2> QED
    BY <1>3, <2>1 DEF WalkOn, Phase
<1>4. ASSUME WalkAppend \/ WalkInsert \/ WalkFound
      PROVE  /\ Leave
             /\ Map' = [k \in DOMAIN Map \cup {argnum} |-> IF k = argnum THEN val ELSE Map[k]]
             /\ back = "count" => WalkAppend \/ WalkInsert
  <2>1. Leave
    BY <1>4 DEF WalkAppend, WalkInsert, WalkFound
  <2>2. Held' = Arguments'
    BY <1>1, <2>1 DEF Leave, Held
  <2>3. ~(back = "count" /\ WalkFound)
    BY FilledNew
  <2> QED
    BY <1>1, <1>4, <2>1, <2>2, <2>3, SetterSets
<1>5. CASE (WalkAppend \/ WalkInsert \/ WalkFound) /\ back = "ready"
  <2>1. Object!Set(argnum, val)
    BY <1>1, <1>4, <1>5 DEF Leave, Object!Set, Phase
  <2> QED
    BY <1>1, <2>1
<1>6. CASE (WalkAppend \/ WalkInsert \/ WalkFound) /\ back = "count"
  <2>1. Object!Fill(argnum)
    BY <1>1, <1>2, <1>4, <1>6 DEF Leave, Object!Fill, Phase
  <2> QED
    BY <1>1, <2>1
<1>7. CASE WalkNoMemory
  <2>1. Held' = Held
    BY <1>1, <1>7, HeldKept DEF WalkNoMemory, Abort
  <2>2. CASE back = "ready"
    <3>1. Object!Refuse("ENOMEM")
      BY <1>1, <1>7, <2>1, <2>2 DEF WalkNoMemory, Abort, Object!Refuse, Phase
    <3> QED
      BY <3>1
  <2>3. CASE back = "count"
    <3>1. Numbers # {} \/ args_num > 0
      BY <1>1, <1>2, <2>3
    <3>2. Object!InvokeNoMemory
      BY <1>1, <1>7, <2>1, <2>3, <3>1 DEF WalkNoMemory, Abort, Object!InvokeNoMemory, Phase
    <3> QED
      BY <3>2
  <2> QED
    BY <1>1, <2>2, <2>3
<1> QED
  BY <1>1, <1>3, <1>5, <1>6, <1>7 DEF AppendStep

\* Freeing the elements is not seen, until the object itself is gone.
LEMMA ClearingImplements ==
    ASSUME IInv, Map = Held, Map' = Held', ClearOne \/ ClearEnd
    PROVE  Object!Next \/ UNCHANGED Object!vars
<1> USE DEF Object!Next, Object!vars
<1>1. pc = "clear" /\ back \in {"ready", "none"} /\ Map = Object!Unset
  BY DEF ClearOne, ClearEnd, IInv, BackInv, Held
<1>2. CASE ClearOne
  <2>1. Map' = Object!Unset
    BY <1>1, <1>2 DEF ClearOne, Held, Object!Unset
  <2> QED
    BY <1>1, <1>2, <2>1 DEF ClearOne, Phase
<1>3. CASE ClearEnd
  <2>1. alloc' = {} /\ pc' = back /\ back' = "ready"
    BY <1>1, <1>3 DEF ClearEnd, IInv, ListInv
  <2>2. Map' = Object!Unset
    <3>1. Arguments' = Object!Unset
      BY <2>1 DEF Arguments, Numbers, Object!Unset
    <3> QED
      BY <1>1, <2>1, <3>1 DEF Held
  <2>3. CASE back = "ready"
    BY <1>1, <1>3, <2>1, <2>2, <2>3 DEF ClearEnd, Phase
  <2>4. CASE back = "none"
    <3>1. Object!Free
      BY <1>1, <1>3, <2>1, <2>2, <2>4 DEF ClearEnd, Object!Free, Phase
    <3> QED
      BY <3>1
  <2> QED
    BY <1>1, <2>3, <2>4
<1> QED
  BY <1>2, <1>3

\* An invocation the first pass refuses has too many arguments, or too few and
\* nothing to tell how many there should be.
LEMMA RefusalImplements ==
    ASSUME IInv, Map = Held, Map' = Held', CheckFails
    PROVE  Object!Next
<1>1. FirstPass /\ pc = "check"
  BY DEF CheckFails, FirstPass
<1>2. Held' = Held /\ Map = Arguments /\ DOMAIN Map = Numbers
  <2>1. Held' = Held
    BY <1>1, HeldKept DEF CheckFails, Abort
  <2> QED
    BY <1>1, <2>1 DEF Held, Arguments
<1>3. /\ it \in Elem /\ num[it] \in Int /\ num[it] >= -1 /\ (it # "head" <=> num[it] >= 0)
      /\ args_num \in Int /\ args_num >= -1 /\ Sorted(Elem) /\ it \in Item
      /\ Cardinality(Numbers) \in Nat
  BY <1>1, PassFacts, NumbersFinite DEF IInv
<1>4. CASE args_num = -1
  <2>1. Gap /\ next[it] # Null
    BY <1>4 DEF CheckFails, TooMany, Gap
  <2>2. num[it] + 1 \notin Numbers
    BY <1>1, <2>1, GapOpen
  <2>3. next[it] \in Elem /\ num[it] < num[next[it]] /\ num[next[it]] \in Int
    BY <1>3, <2>1, ElemTypes DEF Sorted, IInv
  <2>4. num[next[it]] \in Numbers
    <3>1. next[it] # "head"
      BY <2>1, <1>3, ElemTypes, NamesAssumption DEF IInv
    <3> QED
      BY <2>3, <3>1 DEF Elem, Numbers
  <2>5. Numbers # 0 .. Cardinality(Numbers) - 1
    <3> DEFINE C == Cardinality(Numbers)
    <3> SUFFICES ASSUME Numbers = 0 .. C - 1 PROVE FALSE
      OBVIOUS
    <3> HIDE DEF C
    <3>1. C \in Nat
      BY <1>3 DEF C
    <3> QED
      BY <1>3, <2>2, <2>3, <2>4, <3>1
  <2> QED
    BY <1>1, <1>2, <1>4, <2>5, SameCardinality
       DEF CheckFails, Abort, Object!Next, Object!InvokeRefuses, Object!Complete, Object!Replies, Phase
<1>5. CASE args_num # -1
  <2>1. num[it] + 1 > args_num
    BY <1>5 DEF CheckFails, TooMany
  <2>2. it # "head" /\ num[it] >= args_num
    BY <1>3, <1>5, <2>1
  <2>3. num[it] \in Numbers
    BY <1>3, <2>2 DEF Elem, Numbers
  <2> QED
    BY <1>1, <1>2, <1>5, <2>2, <2>3
       DEF CheckFails, Abort, Object!Next, Object!InvokeRefuses, Object!Replies, Phase
<1> QED
  BY <1>4, <1>5

\* What is sent is every argument, in the order of the numbers.
LEMMA SendingImplements ==
    ASSUME IInv, Map = Held, Map' = Held', Invoked
    PROVE  Object!Next
<1>1. SecondPass /\ pc = "build" /\ it = Null
  BY DEF Invoked, SecondPass
<1>2. Held' = Held /\ Map = Arguments /\ DOMAIN Map = Numbers
  <2>1. Held' = Held
    BY <1>1, HeldKept DEF Invoked
  <2> QED
    BY <1>1, <2>1 DEF Held, Arguments
<1>3. /\ Numbers = 0 .. Cardinality(Numbers) - 1 /\ args_num \in {-1, Cardinality(Numbers)}
      /\ in = Records(Cardinality(Numbers))
  BY <1>1 DEF IInv, BuildInv
<1>4. Object!Complete
  BY <1>2, <1>3, SameCardinality DEF Object!Complete
<1>5. in = Object!Records
  BY <1>2, <1>3, SameCardinality DEF Records, Object!Records
<1> QED
  BY <1>1, <1>2, <1>4, <1>5 DEF Invoked, Object!Next, Object!InvokeSends, Phase, setter

\* The buffer is only missed by an object that holds an argument.
LEMMA BufferImplements ==
    ASSUME IInv, Map = Held, Map' = Held', BufferNoMemory
    PROVE  Object!Next
<1>1. SecondPass /\ pc = "buffer" /\ insize > 0
  BY DEF BufferNoMemory, SecondPass
<1>2. Held' = Held /\ DOMAIN Map = Numbers
  <2>1. Held' = Held
    BY <1>1, HeldKept DEF BufferNoMemory, Abort
  <2> QED
    BY <1>1, <2>1 DEF Held, Arguments
<1>3. Numbers # {}
  <2>1. insize = Weight(alloc)
    BY <1>1 DEF IInv, BuildInv
  <2>2. alloc # {}
    BY <1>1, <2>1, WeightNone
  <2> QED
    BY <2>2 DEF Numbers
<1> QED
  BY <1>1, <1>2, <1>3
     DEF BufferNoMemory, Abort, Object!Next, Object!InvokeNoMemory, Object!Replies, Phase

\* The other steps of an invocation are not seen.
LEMMA PassesStutter ==
    ASSUME IInv, Map = Held, Map' = Held',
           CheckFills \/ CheckPasses \/ Count \/ Buffer \/ Build
    PROVE  UNCHANGED Object!vars
<1>1. Held' = Held
  <2>1. UNCHANGED heap /\ pc # "clear" /\ pc' # "clear"
    BY DEF CheckFills, CheckPasses, Count, Buffer, Build, Enter
  <2> QED
    BY <2>1, HeldKept
<1>2. Phase = "invoking" /\ Phase' = "invoking"
  BY DEF CheckFills, CheckPasses, Count, Buffer, Build, Enter, Phase
<1>3. UNCHANGED <<args_num, reply, sent>>
  BY DEF CheckFills, CheckPasses, Count, Buffer, Build, Enter
<1> QED
  BY <1>1, <1>2, <1>3 DEF Object!vars

\* VhcallArgs implements VhcallMap: links, walks, gaps filled while walking and
\* a buffer filled in a second pass come to a map that is sent as a whole.
THEOREM Refinement == Spec => Implements
<1>1. Init /\ Map = Held => Object!Init
  BY ArgumentsNone DEF Init, Object!Init, Held, Phase
<1>2. IInv /\ [Next]_vars /\ Map = Held /\ (Map = Held)' => [Object!Next]_(Object!vars)
  <2> SUFFICES ASSUME IInv, [Next]_vars, Map = Held, Map' = Held'
               PROVE  Object!Next \/ UNCHANGED Object!vars
    OBVIOUS
  <2>1. CASE Call
    BY <2>1, CallsImplement DEF Call
  <2>2. CASE AppendStep
    BY <2>2, SettersImplement
  <2>3. CASE ClearOne \/ ClearEnd
    BY <2>3, ClearingImplements
  <2>4. CASE CheckFails \/ BufferNoMemory \/ Invoked
    BY <2>4, RefusalImplements, BufferImplements, SendingImplements
  <2>5. CASE CheckFills \/ CheckPasses \/ Count \/ Buffer \/ Build
    BY <2>5, PassesStutter
  <2>6. CASE UNCHANGED vars
    <3>1. Held' = Held
      BY <2>6, HeldKept DEF vars
    <3> QED
      BY <2>6, <3>1 DEF vars, setter, Object!vars, Phase
  <2> QED
    BY <2>1, <2>2, <2>3, <2>4, <2>5, <2>6 DEF Next, Proceed
<1> QED
  BY Invariance, MapHeld, <1>1, <1>2, PTL DEF Spec, Implements, Object!Spec

-----------------------------------------------------------------------------
(* No call goes on for ever: what every step of one makes smaller.         *)

Busy == pc \notin {"none", "ready"}

\* The elements a walk has before it.
Ahead(x) == {y \in alloc : num[y] > num[x]}

\* The numbers the first pass has before it: those of elements behind the one
\* it has reached, and those it will have to fill.
Pending == {n \in Number : n > num[it] /\ (n \in Numbers \/ n <= args_num)}

\* First the passes, then the numbers of the first one, then the steps at each
\* number, or of any other call.
PassesLeft == IF FirstPass THEN 1 ELSE 0
NumbersLeft == IF FirstPass THEN Cardinality(Pending) ELSE 0
StepsLeft ==
    CASE pc = "walk" -> Cardinality(Ahead(p)) + 2
      [] pc = "check" -> Cardinality(alloc) + 3
      [] pc = "count" -> 1
      [] pc = "clear" -> Cardinality(alloc)
      [] pc = "buffer" -> Cardinality(alloc) + 1
      [] pc = "build" -> Cardinality(alloc \ Passed)
      [] OTHER -> 0

Nearer ==
    \/ PassesLeft' < PassesLeft
    \/ PassesLeft' = PassesLeft /\ NumbersLeft' < NumbersLeft
    \/ PassesLeft' = PassesLeft /\ NumbersLeft' = NumbersLeft /\ StepsLeft' < StepsLeft

\* The sets that are counted are finite.
LEMMA LeftFinite ==
    ASSUME IInv
    PROVE  /\ \A S \in SUBSET alloc : IsFiniteSet(S) /\ Cardinality(S) \in Nat
                                       /\ Cardinality(S) <= Cardinality(alloc)
           /\ IsFiniteSet(Pending) /\ Cardinality(Pending) \in Nat
           /\ PassesLeft \in Nat /\ NumbersLeft \in Nat /\ StepsLeft \in Nat
<1>1. TypeOK
  BY DEF IInv
<1>2. \A S \in SUBSET alloc : IsFiniteSet(S) /\ Cardinality(S) \in Nat
  BY <1>1, WeightType
<1>3. \A S \in SUBSET alloc : Cardinality(S) <= Cardinality(alloc)
  BY <1>2, FS_Subset
<1>4. IsFiniteSet(Pending) /\ Cardinality(Pending) \in Nat
  <2>1. IsFiniteSet(0 .. args_num)
    BY <1>1, NumberAssumption, FS_Interval DEF TypeOK
  <2>2. IsFiniteSet(Numbers \cup 0 .. args_num)
    BY <1>1, <2>1, NumbersFinite, FS_Union
  <2>3. Pending \subseteq Numbers \cup 0 .. args_num
    <3> SUFFICES ASSUME NEW n \in Pending, n \notin Numbers PROVE n \in 0 .. args_num
      OBVIOUS
    <3>1. n \in Nat /\ n <= args_num /\ args_num \in Int
      BY <1>1, NumberAssumption DEF Pending, TypeOK
    <3> QED
      BY <3>1
  <2> QED
    BY <2>2, <2>3, FS_Subset, FS_CardinalityType
<1>5. StepsLeft \in Nat
  <2>1. Cardinality(Ahead(p)) \in Nat /\ Cardinality(alloc) \in Nat /\ Cardinality(alloc \ Passed) \in Nat
    BY <1>2 DEF Ahead
  <2> QED
    BY <2>1 DEF StepsLeft
<1> QED
  BY <1>2, <1>3, <1>4, <1>5 DEF PassesLeft, NumbersLeft

\* A set that lost an element is smaller.
LEMMA Smaller ==
    ASSUME NEW S, NEW T, IsFiniteSet(T), S \subseteq T, NEW x \in T, x \notin S
    PROVE  Cardinality(S) < Cardinality(T)
<1>1. IsFiniteSet(S) /\ S \cup {x} \subseteq T
  BY FS_Subset
<1>2. Cardinality(S \cup {x}) = Cardinality(S) + 1 /\ Cardinality(S) \in Nat
  BY <1>1, FS_AddElement, FS_CardinalityType
<1>3. Cardinality(S \cup {x}) <= Cardinality(T) /\ Cardinality(T) \in Nat
  BY <1>1, FS_Subset, FS_CardinalityType
<1> QED
  BY <1>2, <1>3

\* Of a walk: to the next element, to the end of the walk for a gap, which
\* leaves the numbers ahead as they were, and of the steps that start one.
LEMMA WalkNearer ==
    ASSUME IInv, AppendStep, Busy'
    PROVE  Nearer
<1>1. pc = "walk" /\ back \in {"ready", "count"} /\ TypeOK /\ Sorted(Elem) /\ p \in Elem
  <2>1. pc = "walk"
    BY DEF AppendStep, WalkOn, WalkAppend, WalkInsert, WalkFound, WalkNoMemory
  <2> QED
    BY <2>1 DEF IInv, BackInv, ListInv, WalkInv
<1>2. CASE WalkOn
  <2>1. pc' = "walk" /\ p' = next[p] /\ next[p] # Null /\ UNCHANGED <<heap, args_num, back, it>>
    BY <1>2 DEF WalkOn, invocation
  <2>2. next[p] \in Elem /\ num[p] < num[next[p]]
    BY <1>1, <2>1 DEF Sorted
  <2>3. PassesLeft' = PassesLeft /\ NumbersLeft' = NumbersLeft
    BY <1>1, <2>1 DEF PassesLeft, NumbersLeft, FirstPass, Pending, Numbers, heap
  <2>4. next[p] \in Ahead(p) /\ next[p] \notin Ahead(next[p]) /\ Ahead(next[p]) \subseteq Ahead(p)
    <3>1. \A x \in Elem : num[x] \in Int
      BY <1>1, ElemTypes
    <3>2. next[p] # "head"
      BY <1>1, <2>2, ElemTypes, NamesAssumption DEF Item
    <3> QED
      BY <1>1, <2>2, <3>1, <3>2 DEF Ahead, Elem
  <2>5. Cardinality(Ahead(next[p])) < Cardinality(Ahead(p))
    <3>1. IsFiniteSet(Ahead(p))
      BY LeftFinite DEF Ahead
    <3> QED
      BY <2>4, <3>1, Smaller
  <2>6. StepsLeft = Cardinality(Ahead(p)) + 2 /\ StepsLeft' = Cardinality(Ahead(next[p])) + 2
    BY <1>1, <2>1 DEF StepsLeft, Ahead, heap
  <2>7. Cardinality(Ahead(p)) \in Nat /\ Cardinality(Ahead(next[p])) \in Nat
    BY LeftFinite DEF Ahead
  <2> QED
    BY <2>3, <2>5, <2>6, <2>7 DEF Nearer
<1>3. CASE WalkAppend \/ WalkInsert
  <2>1. Leave
    BY <1>3 DEF WalkAppend, WalkInsert
  <2>2. back = "count" /\ pc' = "count" /\ UNCHANGED <<args_num, it>>
    BY <1>1, <2>1 DEF Leave, Busy, invocation
  <2>3. FirstPass /\ FirstPass'
    BY <1>1, <2>2 DEF FirstPass
  <2>4. num'[it] = num[it] /\ Numbers' = Numbers \cup {argnum}
    <3>1. it \in Elem
      BY <2>3, PassFacts
    <3>2. \A x \in Elem : num'[x] = num[x]
      BY <1>3, <2>2, FillBehind
    <3>3. Numbers' = DOMAIN Arguments' /\ DOMAIN Arguments' = Numbers \cup {argnum}
      BY <1>3, SetterSets DEF Arguments
    <3> QED
      BY <3>1, <3>2, <3>3
  <2>5. argnum <= args_num
    BY <1>1, <2>2, <2>3, PassFacts DEF IInv, FillInv
  <2>6. Pending' = Pending
    BY <2>2, <2>4, <2>5 DEF Pending
  <2>7. StepsLeft' = 1 /\ StepsLeft = Cardinality(Ahead(p)) + 2 /\ Cardinality(Ahead(p)) \in Nat
    BY <1>1, <2>2, LeftFinite DEF StepsLeft, Ahead
  <2> QED
    BY <2>3, <2>6, <2>7 DEF Nearer, PassesLeft, NumbersLeft
<1>4. CASE WalkFound
  <2>1. back = "ready"
    BY <1>1, <1>4, FilledNew
  <2> QED
    BY <1>4, <2>1 DEF WalkFound, Leave, Busy
<1>5. CASE WalkNoMemory
  BY <1>5 DEF WalkNoMemory, Abort, Busy
<1> QED
  BY <1>2, <1>3, <1>4, <1>5 DEF AppendStep

\* Of an invocation: from a check to a walk or on, and from one number to
\* the next; then from one pass to the other, and from one element to the next.
LEMMA InvocationNearer ==
    ASSUME IInv, [Next]_vars, Busy',
           \/ CheckFails \/ CheckFills \/ CheckPasses \/ Count
           \/ Buffer \/ BufferNoMemory \/ Build \/ Invoked
    PROVE  Nearer
<1>1. TypeOK /\ Cardinality(alloc) \in Nat
  BY LeftFinite DEF IInv
<1>2. CASE CheckFails \/ BufferNoMemory \/ Invoked
  BY <1>2 DEF CheckFails, BufferNoMemory, Invoked, Abort, Busy
<1>3. CASE CheckFills \/ CheckPasses
  <2>1. /\ pc = "check" /\ UNCHANGED <<heap, args_num, it>>
        /\ pc' = "count" \/ (pc' = "walk" /\ back' = "count" /\ p' = "head")
    BY <1>3 DEF CheckFills, CheckPasses, Enter, invocation
  <2>2. FirstPass /\ FirstPass' /\ Pending' = Pending
    BY <2>1 DEF FirstPass, Pending, Numbers, heap
  <2>3. StepsLeft = Cardinality(alloc) + 3
    BY <2>1 DEF StepsLeft
  <2>4. Cardinality(Ahead("head")) \in Nat /\ Cardinality(Ahead("head")) <= Cardinality(alloc)
    BY LeftFinite DEF Ahead
  <2>5. StepsLeft' \in {1, Cardinality(Ahead("head")) + 2}
    BY <2>1 DEF StepsLeft, Ahead, heap
  <2> QED
    BY <1>1, <2>2, <2>3, <2>4, <2>5 DEF Nearer, PassesLeft, NumbersLeft
<1>4. CASE Count /\ next[it] # Null
  <2>1. pc = "count" /\ pc' = "check" /\ it' = next[it] /\ UNCHANGED <<heap, args_num>>
    BY <1>4 DEF Count
  <2>2. FirstPass /\ FirstPass'
    BY <2>1 DEF FirstPass
  <2>3. /\ next[it] \in Elem /\ num[it] < num[next[it]] /\ num[it] \in Int /\ next[it] # "head"
    BY <1>1, <1>4, <2>2, PassFacts, ElemTypes, NamesAssumption DEF Sorted, Item
  <2>4. num[next[it]] \in Numbers /\ num[next[it]] \in Number /\ Number \subseteq Nat
    BY <2>3, NumberAssumption DEF Elem, Numbers, IInv, ListInv
  <2>5. num[next[it]] \in Pending /\ num[next[it]] \notin Pending' /\ Pending' \subseteq Pending
    <3>0. num[next[it]] \in Int
      BY <1>1, <2>3, ElemTypes
    <3>1. Numbers' = Numbers
      BY <2>1 DEF Numbers, heap
    <3>2. Pending' = {n \in Number : n > num[next[it]] /\ (n \in Numbers \/ n <= args_num)}
      BY <2>1, <3>1 DEF Pending, heap
    <3>3. num[next[it]] \in Pending
      BY <2>3, <2>4 DEF Pending
    <3>4. num[next[it]] \notin Pending'
      <4>1. ~(num[next[it]] > num[next[it]])
        BY <3>0
      <4> QED
        BY <3>2, <4>1
    <3>5. ASSUME NEW n \in Pending' PROVE n \in Pending
      <4>1. n \in Number /\ n > num[next[it]] /\ (n \in Numbers \/ n <= args_num)
        BY <3>2, <3>5
      <4>2. n \in Int
        BY <2>4, <4>1
      <4>3. n > num[it]
        BY <2>3, <3>0, <4>1, <4>2
      <4> QED
        BY <4>1, <4>3 DEF Pending
    <3> QED
      BY <3>3, <3>4, <3>5
  <2>6. Cardinality(Pending') < Cardinality(Pending)
    BY <2>5, LeftFinite, Smaller
  <2> QED
    BY <2>2, <2>6 DEF Nearer, PassesLeft, NumbersLeft
<1>5. CASE Count /\ next[it] = Null
  BY <1>5 DEF Count, Nearer, PassesLeft, FirstPass
<1>6. CASE Buffer
  <2>1. pc = "buffer" /\ pc' = "build" /\ UNCHANGED heap
    BY <1>6 DEF Buffer
  <2>2. StepsLeft = Cardinality(alloc) + 1 /\ StepsLeft' = Cardinality(alloc \ Passed')
    BY <2>1 DEF StepsLeft, heap
  <2>3. Cardinality(alloc \ Passed') \in Nat /\ Cardinality(alloc \ Passed') <= Cardinality(alloc)
    BY LeftFinite
  <2> QED
    BY <1>1, <2>1, <2>2, <2>3 DEF Nearer, PassesLeft, NumbersLeft, FirstPass
<1>7. CASE Build
  <2>1. pc = "build" /\ pc' = "build" /\ SecondPass /\ it' = next[it] /\ UNCHANGED heap
    BY <1>7 DEF Build, SecondPass
  <2>2. it \in alloc /\ it \in Elem /\ it # Null /\ it # "head" /\ num[it] \in Int /\ Sorted(Elem)
    BY <1>1, <1>7, <2>1, BuildFacts, ElemTypes DEF Build, IInv, BuildInv
  <2>3. Passed' = Passed \cup {it} /\ it \notin Passed
    <3>1. Passed = {y \in alloc : num[y] < num[it]}
      BY <2>2 DEF Passed
    <3>2. Passed' = IF next[it] = Null THEN alloc ELSE {y \in alloc : num[y] < num[next[it]]}
      BY <2>1 DEF Passed, heap
    <3> QED
      BY <1>1, <2>2, <3>1, <3>2, PassOn
  <2>4. Cardinality(alloc \ Passed') < Cardinality(alloc \ Passed)
    <3>1. IsFiniteSet(alloc \ Passed)
      BY LeftFinite
    <3> QED
      BY <2>2, <2>3, <3>1, Smaller
  <2>5. StepsLeft = Cardinality(alloc \ Passed) /\ StepsLeft' = Cardinality(alloc \ Passed')
    BY <2>1 DEF StepsLeft, heap
  <2> QED
    BY <2>1, <2>4, <2>5 DEF Nearer, PassesLeft, NumbersLeft, FirstPass
<1> QED
  BY <1>2, <1>3, <1>4, <1>5, <1>6, <1>7

\* Every step inside a call brings its end nearer, in an order without infinite
\* descent: the list has no cycle a walk could be caught in, and an invocation
\* that makes the list longer while it walks it cannot run ahead of itself.
THEOREM CallsShrink ==
    Spec => /\ [](PassesLeft \in Nat /\ NumbersLeft \in Nat /\ StepsLeft \in Nat)
            /\ [][Busy /\ Busy' => Nearer]_vars
<1>1. IInv => PassesLeft \in Nat /\ NumbersLeft \in Nat /\ StepsLeft \in Nat
  BY LeftFinite
<1>2. IInv /\ [Next]_vars => [Busy /\ Busy' => Nearer]_vars
  <2> SUFFICES ASSUME IInv, Next, Busy, Busy' PROVE Nearer
    OBVIOUS
  <2>1. CASE Call
    BY <2>1 DEF Call, Alloc, Refuse, CallSetComplexDouble, CallSetOther, CallSet, CallClear,
                CallInvoke, Busy
  <2>2. CASE AppendStep
    BY <2>2, WalkNearer
  <2>3. CASE ClearOne
    <3>1. pc = "clear" /\ pc' = "clear" /\ p \in alloc /\ alloc' = alloc \ {p}
      BY <2>3 DEF ClearOne, IInv, ListInv
    <3>2. Cardinality(alloc') < Cardinality(alloc)
      BY <3>1, LeftFinite, Smaller
    <3> QED
      BY <3>1, <3>2 DEF Nearer, PassesLeft, NumbersLeft, StepsLeft, FirstPass
  <2>4. CASE ClearEnd
    BY <2>4 DEF ClearEnd, Busy, IInv, BackInv
  <2>5. CASE \/ CheckFails \/ CheckFills \/ CheckPasses \/ Count
             \/ Buffer \/ BufferNoMemory \/ Build \/ Invoked
    BY <2>5, InvocationNearer
  <2> QED
    BY <2>1, <2>2, <2>3, <2>4, <2>5 DEF Next, Proceed
<1> QED
  BY Invariance, <1>1, <1>2, PTL DEF Spec

=============================================================================
