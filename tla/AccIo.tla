------------------------------- MODULE AccIo -------------------------------
(***************************************************************************)
(* What the read and the write pipeline of accelerated_io.c share.  A      *)
(* request is cut into chunks of Paras units which pass through NParas     *)
(* pairs of buffers: one on the host (VH), where the system call reads or  *)
(* writes, and one on the VE; a DMA moves a chunk between the two while    *)
(* the thread works on the next one.                                       *)
(*                                                                         *)
(* The caller's memory is a sequence of vectors, of which "iov" gives the  *)
(* lengths; a read, pread, write or pwrite has one, its buffer.  Units are *)
(* numbered along the vectors, and along the file.                         *)
(***************************************************************************)
EXTENDS Integers, Sequences

CONSTANTS
    NParas,     \* BUFF_NPARAS, pairs of buffers of a thread
    Paras,      \* PARAS_SIZE, what a buffer holds
    MaxCount,   \* bound: the largest request and file considered
    MaxIov,     \* bound: the most vectors of a request
    MaxLen      \* bound: the longest vector of a request with several

ASSUME SizesAssumption ==
    /\ NParas \in Nat \ {0} /\ Paras \in Nat \ {0}
    /\ MaxCount \in Nat /\ MaxIov \in Nat \ {0} /\ MaxLen \in Nat
    /\ MaxIov * MaxLen <= MaxCount

Buf == 0 .. NParas - 1
Offset == 0 .. MaxCount - 1
Vector == 1 .. MaxIov

\* posted[j] = -1: no DMA of buffer j is waited for any more.
NotPosted == -1

\* What a memory cell holds: a unit, nothing new, or what a failed DMA left.
Untouched == -1
Garbage == -2
Unit == 0 .. MaxCount - 1 \cup {Untouched, Garbage}
Buffer == [1 .. Paras -> Unit]

\* A request: its name, its vectors, and whether its buffer or iov is NULL.
Vectored == {"readv", "preadv", "writev", "pwritev"}
Requests(names) ==
    UNION {[name : {s}, null : BOOLEAN,
            iov : IF s \in Vectored
                  THEN UNION {[1 .. n -> 0 .. MaxLen] : n \in 0 .. MaxIov}
                  ELSE [1 .. 1 -> 0 .. MaxCount]] : s \in names}

\* The number of the first unit of each vector, and of all units.
First(iov) ==
    LET f[n \in 1 .. Len(iov) + 1] == IF n = 1 THEN 0 ELSE f[n - 1] + iov[n - 1]
    IN  f
Total(iov) == First(iov)[Len(iov) + 1]

\* The caller's memory after its first n units were delivered.
Delivered(iov, n) ==
    [v \in Vector |-> [o \in Offset |->
        IF v <= Len(iov) /\ o < iov[v] /\ First(iov)[v] + o < n
        THEN First(iov)[v] + o ELSE Untouched]]

\* The request that makes no use of the pipeline: a count of 0, which is the
\* number of bytes of a plain request but the number of vectors of the others.
CountIsZero(c) == IF c.name \in Vectored THEN c.iov = << >> ELSE c.iov = <<0>>

Chunks(count) == (count + Paras - 1) \div Paras

\* Mutant: a last chunk one buffer too large.
ChunkSizeOff(count, i) ==
    IF i = Chunks(count) - 1 THEN count - Paras * (i - 1) ELSE Paras

\* The last chunk is what the others left over.
ChunkSize(count, i) ==
    IF i = Chunks(count) - 1 THEN count - Paras * i ELSE Paras

\* Mutant: always drains from the first buffer.
FindMinPostedFirst(posted) == 0

\* __ve_find_min_posted: the buffer with the oldest chunk, 0 if there is none.
FindMinPosted(posted) ==
    LET Waiting == {k \in Buf : posted[k] # NotPosted} IN
    IF Waiting = {} THEN 0
    ELSE CHOOSE k \in Waiting : \A l \in Waiting : posted[k] <= posted[l]

-----------------------------------------------------------------------------
(* The loops over the vectors.  A position is the vector to go on with and *)
(* what of it is done: next_iov_num and iov_len_done, or buf.              *)

Position == [num : 1 .. MaxIov + 1, done : 0 .. MaxCount]
Start == [num |-> 1, done |-> 0]

Done(at, n) == IF n = at.num THEN at.done ELSE 0
IovLenLess(iov, at, n) == iov[n] - Done(at, n)

\* ve_buff_size_less before vector n: a buffer of "size" units less what the
\* vectors from position "at" to n - 1 take.
VeBuffSizeLess(iov, at, size) ==
    LET less[n \in at.num .. Len(iov) + 1] ==
            IF n = at.num THEN size
            ELSE LET l == less[n - 1] - IovLenLess(iov, at, n - 1)
                 IN  IF l < 0 THEN 0 ELSE l
    IN  less

\* Which unit of the buffer belongs to which offset of which vector.
Pairs(iov, at, size) ==
    LET less == VeBuffSizeLess(iov, at, size)
        Copied(n) ==
            {q \in 0 .. MaxCount : q < IovLenLess(iov, at, n) /\ q < less[n]}
        Pair(n, q) == [vector |-> n, offset |-> Done(at, n) + q,
                       unit |-> size - less[n] + q + 1]
    IN  UNION {{Pair(n, q) : q \in Copied(n)} : n \in at.num .. Len(iov)}

\* The vectors in which a buffer of "size" units may end.
Ends(iov, at, size) ==
    LET less == VeBuffSizeLess(iov, at, size)
    IN  {n \in at.num .. Len(iov) : less[n] <= IovLenLess(iov, at, n)}

\* Mutant: forgets what was done of the vector before.
NextPositionForgets(iov, at, size) ==
    LET less == VeBuffSizeLess(iov, at, size)
        n == CHOOSE e \in Ends(iov, at, size) : \A f \in Ends(iov, at, size) : e <= f
    IN  IF IovLenLess(iov, at, n) > less[n]
        THEN [num |-> n, done |-> less[n]]
        ELSE [num |-> n + 1, done |-> 0]

\* Where the next buffer goes on: in the vector this one ends in, or behind it.
NextPosition(iov, at, size) ==
    LET less == VeBuffSizeLess(iov, at, size)
        n == CHOOSE e \in Ends(iov, at, size) : \A f \in Ends(iov, at, size) : e <= f
    IN  IF Ends(iov, at, size) = {}
        THEN [at EXCEPT !.done = IF at.num <= Len(iov) THEN 0 ELSE @]
        ELSE IF IovLenLess(iov, at, n) > less[n]
        THEN [num |-> n, done |-> Done(at, n) + less[n]]
        ELSE [num |-> n + 1, done |-> 0]
=============================================================================
