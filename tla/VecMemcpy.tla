----------------------------- MODULE VecMemcpy -----------------------------
(***************************************************************************)
(* __libsysve_vec_memcpy, the copy accelerated I/O makes between user      *)
(* buffers and its own: bytes until the destination is aligned, vector     *)
(* loads and stores of 8-byte elements (of 4-byte ones when the two        *)
(* addresses differ modulo 8 only), one shorter vector, bytes again; plain *)
(* 8-byte words for short copies and for addresses that differ modulo 4.   *)
(*                                                                         *)
(* The two halves of the routine, labelled ..8 and ..4, are one here with  *)
(* the width w of an element.  Memory is what was stored: mem[a] is the    *)
(* source address whose byte now is at address a.  Source and destination  *)
(* do not overlap.                                                         *)
(***************************************************************************)
EXTENDS Integers

CONSTANTS
    MVL,        \* the largest vector length, 256 elements on the VE
    Address,    \* the addresses dest and src are taken from
    Size        \* the sizes n is taken from

ASSUME MVLAssumption == MVL \in Nat \ {0}
ASSUME ArgumentsAssumption == Address \subseteq Nat /\ Size \subseteq Nat

VARIABLES
    dest, src, n,   \* the arguments
    p, q, i,        \* next byte to store, next byte to load, bytes left
    w,              \* size of an element: 8 or 4
    vl,             \* the vector length register
    mem,            \* what was stored, and where
    pc              \* the label reached

args == <<dest, src, n>>
vars == <<dest, src, n, p, q, i, w, vl, mem, pc>>

VectorPC == {"loop", "rem_1"}
PC == {"EoP", "pre", "vector", "rem_2", "post", "scalar", "epilogue"} \cup VectorPC

Aligned(a, width) == a % width = 0

\* len bytes from q are stored at p, and all three registers move on.
Copy(len) ==
    /\ mem' = [a \in DOMAIN mem \cup p .. p + len - 1 |->
                IF a \in p .. p + len - 1 THEN q + (a - p) ELSE mem[a]]
    /\ p' = p + len
    /\ q' = q + len
    /\ i' = i - len

Goto(label) == pc' = label

-----------------------------------------------------------------------------
(* Choice of the way to copy. *)

\* Two wrong choices, for the mutants: no lower bound on the size, and no
\* look at the alignment.
ShortNone == FALSE
SameAlignmentAny(width) == TRUE

\* Below 40 bytes a plain copy is as good; it also is what the loop that
\* aligns the destination, which does not look at i, relies on.
Short == n < 40

SameAlignment(width) == dest % width = src % width

\* Elements of the given size can be used.
Vectors(width) ==
    /\ ~Short
    /\ SameAlignment(width)
    /\ w' = width
    /\ Goto(IF Aligned(p, width) THEN "vector" ELSE "pre")

Scalars ==
    /\ Short \/ ~SameAlignment(4)
    /\ w' = 8
    /\ Goto(IF i \div 8 = 0 THEN "rem_2" ELSE "scalar")

EoP ==
    /\ pc = "EoP"
    /\ \/ Vectors(8)
       \/ ~SameAlignment(8) /\ Vectors(4)
       \/ Scalars
    /\ UNCHANGED <<args, p, q, i, vl, mem>>

-----------------------------------------------------------------------------
\* .L_pre8, .L_pre4: bytes until the destination is aligned.
Pre ==
    /\ pc = "pre"
    /\ Copy(1)
    /\ Goto(IF Aligned(p', w) THEN "vector" ELSE "pre")
    /\ UNCHANGED <<args, w, vl>>

\* .L_8vector, .L_4vector
Vector ==
    /\ pc = "vector"
    /\ Goto(IF i < MVL * w THEN "rem_1" ELSE "loop")
    /\ vl' = IF i < MVL * w THEN vl ELSE MVL
    /\ UNCHANGED <<args, p, q, i, w, mem>>

\* Mutant: once more when whole vectors are used up.
LoopOnceMore ==
    /\ pc = "loop"
    /\ Copy(vl * w)
    /\ Goto(IF i >= MVL * w THEN "loop" ELSE "rem_1")
    /\ UNCHANGED <<args, w, vl>>

\* .L_loop8, .L_loop4: a load and a store of vl elements.
Loop ==
    /\ pc = "loop"
    /\ Copy(vl * w)
    /\ Goto(IF i' >= MVL * w THEN "loop" ELSE "rem_1")
    /\ UNCHANGED <<args, w, vl>>

\* .L_rem8_1, .L_rem4_1: one vector of what fills elements.
Rem1 ==
    /\ pc = "rem_1"
    /\ i \div w # 0
    /\ vl' = i \div w
    /\ Copy(vl' * w)
    /\ Goto("rem_2")
    /\ UNCHANGED <<args, w>>

\* Mutant: back to the start of the vector loop.
Rem1NoneRetries ==
    /\ pc = "rem_1"
    /\ i \div w = 0
    /\ Goto("vector")
    /\ UNCHANGED <<args, p, q, i, w, vl, mem>>

Rem1None ==
    /\ pc = "rem_1"
    /\ i \div w = 0
    /\ Goto("rem_2")
    /\ UNCHANGED <<args, p, q, i, w, vl, mem>>

\* .L_rem8_2, .L_rem4_2
Rem2 ==
    /\ pc = "rem_2"
    /\ Goto(IF i % w = 0 THEN "epilogue" ELSE "post")
    /\ UNCHANGED <<args, p, q, i, w, vl, mem>>

\* .L_post8, .L_post4: the last bytes.
Post ==
    /\ pc = "post"
    /\ Copy(1)
    /\ Goto(IF i' > 0 THEN "post" ELSE "epilogue")
    /\ UNCHANGED <<args, w, vl>>

\* .L_scalar_loop: words of 8 bytes, wherever they begin.
Scalar ==
    /\ pc = "scalar"
    /\ Copy(8)
    /\ Goto(IF i' \div 8 # 0 THEN "scalar"
            ELSE IF i' % 8 # 0 THEN "post" ELSE "epilogue")
    /\ UNCHANGED <<args, w, vl>>

Init ==
    /\ dest \in Address
    /\ src \in Address
    /\ n \in Size
    /\ p = dest
    /\ q = src
    /\ i = n
    /\ w = 8
    /\ vl = 0
    /\ mem = [a \in {} |-> 0]
    /\ pc = "EoP"

Next ==
    \/ EoP \/ Pre \/ Vector \/ Loop \/ Rem1 \/ Rem1None \/ Rem2 \/ Post
    \/ Scalar

Spec == Init /\ [][Next]_vars

\* A call that was made keeps running.
FairSpec == Spec /\ WF_vars(Next)

-----------------------------------------------------------------------------
(* Properties *)

TypeOK ==
    /\ dest \in Nat /\ src \in Nat /\ n \in Nat
    /\ p \in Nat /\ q \in Nat
    /\ i \in 0 .. n
    /\ w \in {4, 8}
    /\ vl \in 0 .. MVL
    /\ DOMAIN mem \subseteq Nat
    /\ pc \in PC

\* memcpy: at every moment a prefix of the destination has been written,
\* with the bytes of the source in their order and never a byte beyond n;
\* at the end it is all of it.  The six loops hand over to each other in the
\* middle of it, and only one of them looks at i before it stores.
CopiedExactly ==
    /\ DOMAIN mem = dest .. p - 1
    /\ \A a \in DOMAIN mem : mem[a] = src + (a - dest)
    /\ p <= dest + n
    /\ pc = "epilogue" => p = dest + n

\* What the vector instructions require: both addresses are multiples of
\* the element's size, and no more elements than MVL are asked for.
VectorLegal ==
    pc \in VectorPC =>
        /\ Aligned(p, w) /\ Aligned(q, w)
        /\ pc = "loop" => vl = MVL
        /\ pc = "rem_1" => i \div w <= MVL

\* Every copy ends: the loops test i and the address after they changed
\* them, so each of them must meet its bound exactly or from above.
Returns == <>(pc = "epilogue")
=============================================================================
