------------------------- MODULE AccIoWriteProofs -------------------------
(***************************************************************************)
(* Proofs about the accelerated writes (AccIoWrite), for every number and  *)
(* size of buffers and every request: the file holds the beginning of the  *)
(* caller's vectors, the result counts it, and the DMAs are collected.     *)
(***************************************************************************)
EXTENDS AccIoWrite, AccIoProofs

-----------------------------------------------------------------------------
(* The inductive invariant behind the properties.                          *)

\* The chunks that buffers are posted for are Low .. Hi - 1.  Those before
\* Cur have been dealt with; those before Due have been waited for.
Low == IF pc \in {"wait", "write"} THEN i - NParas
       ELSE IF i < NParas THEN 0 ELSE i - NParas + 1
Hi == IF posted[j] = i THEN i + 1 ELSE i
Cur == IF pc \in {"drain", "drain_write"} THEN Low + k
       ELSE IF pc = "done" THEN Low + NParas ELSE Low
Due == IF pc \in {"write", "drain_write"} THEN Cur + 1 ELSE Cur

LoopInv ==
    /\ pc \in {"call", "plain"} => i = 0 /\ \A b \in Buf : posted[b] = NotPosted
    /\ i = 0 \/ i < Chunks(count)
    /\ pc \in {"wait", "write", "copy", "post"} => i < Chunks(count) /\ posted[j] # i
    /\ posted[j] = i => i < Chunks(count)
    /\ pc \in {"wait", "write"} => i >= NParas
    /\ pc = "drain_write" => k < NParas /\ posted[DrainBuf] # NotPosted

\* Chunk c is posted in buffer c % NParas, and in no other.
RingInv ==
    /\ \A c \in Low .. Hi - 1 : posted[c % NParas] = c
    /\ \A b \in Buf :
           /\ posted[b] >= Low => posted[b] < Hi /\ posted[b] % NParas = b
           /\ posted[b] < Low => posted[b] = NotPosted \/ (pc \in {"copy", "post"} /\ b = j)
    /\ pc \in {"drain", "drain_write"} /\ Low < Hi => min_k = Low % NParas

\* A buffer has a DMA from when it is posted until it is waited for.
DmaInv == \A b \in Buf : dma[b] # "none" <=> posted[b] >= Due

\* Buffer b holds its chunk of the caller's vectors.
Holds(buffer, b) ==
    \A u \in 1 .. need_write_in_size[b] : buffer[b][u] = Paras * posted[b] + u - 1
DataInv ==
    /\ \A b \in Buf : posted[b] >= Low => need_write_in_size[b] = ChunkSize(count, posted[b])
    /\ \A b \in Buf : posted[b] >= Cur =>
           Holds(ve, b) /\ (dma[b] \in {"ok", "none"} => Holds(vh, b))
    /\ pc = "post" => \A u \in 1 .. transfer_size : ve[j][u] = Paras * i + u - 1

\* Chunk i begins where the chunks before it ended.
PositionInv ==
    /\ next_iov \in Positions(call.iov) /\ ve_buff_size_less = 0
    /\ pc \in {"call", "plain", "wait", "write", "copy"} => Place(call.iov, next_iov) = Paras * i
    /\ pc = "post" => Place(call.iov, next_iov) = Paras * i + transfer_size

\* What the system calls have written as long as nothing went wrong: all
\* chunks before Cur, of which only the last may be short.
Got == IF Cur > i THEN Paras * i + (IF posted[j] = i THEN transfer_size ELSE 0)
       ELSE Paras * Cur
ResultInv ==
    /\ ByArgument => fpos = 0
    /\ data_err => pc \in {"last", "drain", "done"}
    /\ ~data_err /\ pc # "done" => exit_result = Got /\ ofs = Got
    /\ exit_result # -1 => /\ exit_result <= count /\ contents = Prefix(exit_result)
                           /\ ~ByArgument => fpos = exit_result
    /\ exit_result = -1 => /\ errno_bak # "0"
                           /\ errno_bak = "sys" => fpos = 0 /\ contents = Prefix(0)
    /\ Written

IInv == TypeOK /\ LoopInv /\ RingInv /\ DmaInv /\ DataInv /\ PositionInv /\ ResultInv

-----------------------------------------------------------------------------
(* The window of the chunks that are posted.                               *)

\* What the types say of the request and of the ring.
LEMMA Basics ==
    ASSUME TypeOK
    PROVE  /\ NParas \in Nat \ {0} /\ Paras \in Nat \ {0} /\ MaxCount \in Nat
           /\ i \in Nat /\ j \in Buf /\ j \in Int /\ Paras * i \in Nat
           /\ call.iov \in Vectors /\ count \in Nat /\ count <= MaxCount
           /\ \A b \in Buf : posted[b] \in Int /\ posted[b] >= -1
<1>1. NParas \in Nat \ {0} /\ Paras \in Nat \ {0} /\ MaxCount \in Nat
  BY SizesAssumption, Zenon
<1>2. i \in Nat /\ posted \in [Buf -> Nat \cup {NotPosted}]
  BY DEF TypeOK
<1>3. j \in 0 .. NParas - 1 /\ Paras * i \in Nat
  BY <1>1, <1>2 DEF j
<1>4. call.iov \in Vectors
  BY RequestVectors DEF TypeOK
<1>5. count \in Nat /\ count <= MaxCount
  BY <1>4, VectorsDef DEF count
<1>6. \A b \in Buf : posted[b] \in Int /\ posted[b] >= -1
  BY <1>2 DEF NotPosted
<1> QED
  BY <1>1, <1>2, <1>3, <1>4, <1>5, <1>6 DEF Buf

\* The window ends with the chunk at hand and is no longer than the ring.
LEMMA Window ==
    ASSUME TypeOK, LoopInv
    PROVE  /\ Low \in Nat /\ Hi \in Nat /\ Cur \in Nat /\ Due \in Nat
           /\ Low <= Cur /\ Low <= i /\ (Hi = i \/ Hi = i + 1) /\ Hi <= Low + NParas
           /\ Hi = i + 1 <=> posted[j] = i
           /\ pc \in {"wait", "write"} => Low = i - NParas /\ i >= NParas
           /\ pc \notin {"wait", "write"} /\ i < NParas => Low = 0
           /\ pc \notin {"wait", "write"} /\ i >= NParas => Low = i - NParas + 1
           /\ pc \in {"wait", "write", "copy", "post"} => Hi = i
           /\ pc \in {"drain", "drain_write"} => Cur = Low + k
           /\ pc = "done" => Cur = Low + NParas
           /\ pc \notin {"drain", "drain_write", "done"} => Cur = Low
           /\ pc \in {"write", "drain_write"} => Due = Cur + 1
           /\ pc \notin {"write", "drain_write"} => Due = Cur
<1>1. NParas \in Nat \ {0} /\ i \in Nat /\ k \in Nat
  BY Basics DEF TypeOK
<1>2. /\ pc \in {"wait", "write"} => Low = i - NParas /\ i >= NParas
      /\ pc \notin {"wait", "write"} /\ i < NParas => Low = 0
      /\ pc \notin {"wait", "write"} /\ i >= NParas => Low = i - NParas + 1
  BY <1>1 DEF Low, LoopInv
<1>3. /\ Low \in Nat /\ Low <= i /\ i <= Low + NParas
      /\ pc \notin {"wait", "write"} => i + 1 <= Low + NParas
  BY <1>1, <1>2
<1>4. (Hi = i \/ Hi = i + 1) /\ (Hi = i + 1 <=> posted[j] = i)
  BY <1>1 DEF Hi
<1>5. pc \in {"wait", "write", "copy", "post"} => Hi = i
  BY <1>4 DEF LoopInv
<1>6. /\ pc \in {"drain", "drain_write"} => Cur = Low + k
      /\ pc = "done" => Cur = Low + NParas
      /\ pc \notin {"drain", "drain_write", "done"} => Cur = Low
  BY DEF Cur
<1>7. Hi <= Low + NParas /\ Hi \in Nat
  BY <1>1, <1>3, <1>4, <1>5
<1>8. Cur \in Nat /\ Low <= Cur
  BY <1>1, <1>3, <1>6
<1>9. /\ pc \in {"write", "drain_write"} => Due = Cur + 1
      /\ pc \notin {"write", "drain_write"} => Due = Cur
      /\ Due \in Nat
  BY <1>8 DEF Due
<1> QED
  BY <1>2, <1>3, <1>4, <1>5, <1>6, <1>7, <1>8, <1>9

\* The buffer at hand: its chunk is the one to wait for and to write, or it is
\* free.
LEMMA AtHand ==
    ASSUME TypeOK, LoopInv, RingInv, DmaInv
    PROVE  /\ pc \in {"wait", "write"} => posted[j] = Low
           /\ pc = "write" => dma[j] = "none"
           /\ pc \in {"copy", "post"} => posted[j] < Low /\ dma[j] = "none"
<1>1. /\ NParas \in Nat \ {0} /\ i \in Nat /\ j \in Buf
      /\ \A b \in Buf : posted[b] \in Int
  BY Basics
<1>2. ASSUME pc \in {"wait", "write"} PROVE posted[j] = Low
  <2>1. Low \in Nat /\ Low = i - NParas /\ Hi = i
    BY <1>2, Window
  <2>2. Low \in Low .. Hi - 1 /\ Low + NParas = i
    BY <1>1, <2>1
  <2>3. Low % NParas = j
    <3>1. NParas \in Nat \ {0} /\ Low \in Int
      BY <1>1, <2>1
    <3>2. (Low + NParas) % NParas = Low % NParas
      BY <3>1, RingStep, Zenon
    <3> QED
      BY <2>2, <3>2 DEF j
  <2> QED
    BY <2>2, <2>3 DEF RingInv
<1>3. ASSUME pc = "write" PROVE dma[j] = "none"
  <2>1. Due = Low + 1 /\ Low \in Nat /\ posted[j] = Low
    BY <1>2, <1>3, Window
  <2>2. ~(posted[j] >= Due)
    BY <2>1
  <2> QED
    BY <1>1, <2>2 DEF DmaInv
<1>4. ASSUME pc \in {"copy", "post"} PROVE posted[j] < Low
  <2>1. Low \in Nat /\ Hi = i /\ i < Low + NParas
    <3>1. pc \notin {"wait", "write"} /\ pc \in {"wait", "write", "copy", "post"}
      BY <1>4
    <3>2. /\ Low \in Nat /\ Hi = i
          /\ i < NParas => Low = 0
          /\ i >= NParas => Low = i - NParas + 1
      BY <3>1, Window
    <3> QED
      BY <1>1, <3>2
  <2>2. SUFFICES ASSUME posted[j] >= Low PROVE FALSE
    BY <1>1, <2>1
  <2>3. posted[j] < i /\ posted[j] % NParas = i % NParas
    BY <1>1, <2>1, <2>2 DEF RingInv, j
  <2>4. posted[j] <= i /\ i < posted[j] + NParas
    BY <1>1, <2>1, <2>2, <2>3
  <2>5. posted[j] = i
    BY <1>1, <2>3, <2>4, RingDistinct
  <2> QED
    BY <1>1, <2>3, <2>5
<1>5. ASSUME pc \in {"copy", "post"} PROVE dma[j] = "none"
  <2>1. Due = Low /\ Low \in Nat
    BY <1>5, Window
  <2>2. ~(posted[j] >= Due)
    BY <1>1, <1>4, <1>5, <2>1
  <2> QED
    BY <1>1, <2>2 DEF DmaInv
<1> QED
  BY <1>2, <1>3, <1>4, <1>5

\* The draining loop meets the chunks in their order.
LEMMA DrainOrder ==
    ASSUME TypeOK, LoopInv, RingInv, pc \in {"drain", "drain_write"}, k < NParas
    PROVE  /\ DrainBuf \in Buf
           /\ posted[DrainBuf] # NotPosted => posted[DrainBuf] = Cur /\ Cur < Hi
           /\ posted[DrainBuf] = NotPosted => \A b \in Buf : posted[b] # Cur
<1>1. /\ NParas \in Nat \ {0} /\ i \in Nat
      /\ \A b \in Buf : posted[b] \in Int /\ posted[b] >= -1
  BY Basics
<1>2. k \in 0 .. NParas - 1 /\ min_k \in Buf /\ min_k \in Int
  BY <1>1 DEF TypeOK, Buf
<1>3. /\ Low \in Nat /\ Hi \in Nat /\ Hi <= Low + NParas /\ Cur = Low + k
  BY Window
<1>4. DrainBuf \in Buf
  BY <1>1, <1>2 DEF DrainBuf, Buf
<1>5. ASSUME Low < Hi PROVE DrainBuf = Cur % NParas
  <2>1. min_k = Low % NParas
    BY <1>5 DEF RingInv
  <2>2. ((Low % NParas) + k) % NParas = (Low + k) % NParas
    <3>1. NParas \in Nat \ {0} /\ Low \in Int /\ k \in Int
      BY <1>1, <1>2, <1>3
    <3> QED
      BY <3>1, RingSum, Zenon
  <2> QED
    BY <1>3, <2>1, <2>2 DEF DrainBuf
<1>6. ASSUME NEW b \in Buf, posted[b] # NotPosted
      PROVE  posted[b] \in Low .. Hi - 1 /\ posted[b] % NParas = b
  BY <1>1, <1>3, <1>6 DEF RingInv
<1>7. ASSUME posted[DrainBuf] # NotPosted PROVE posted[DrainBuf] = Cur /\ Cur < Hi
  <2>1. PICK p \in Low .. Hi - 1 : p = posted[DrainBuf]
    BY <1>4, <1>6, <1>7
  <2>2. p % NParas = Cur % NParas
    BY <1>3, <1>4, <1>5, <1>6, <1>7, <2>1
  <2>3. p < Cur + NParas /\ Cur < p + NParas
    BY <1>1, <1>2, <1>3
  <2>4. p = Cur
    <3>1. NParas \in Nat \ {0} /\ p \in Int /\ Cur \in Int
      BY <1>1, <1>2, <1>3
    <3>2. CASE p <= Cur
      BY <2>2, <2>3, <3>1, <3>2, RingDistinct
    <3>3. CASE Cur <= p
      BY <2>2, <2>3, <3>1, <3>3, RingDistinct
    <3> QED
      BY <3>1, <3>2, <3>3
  <2> QED
    BY <1>3, <2>1, <2>4
<1>8. ASSUME posted[DrainBuf] = NotPosted, NEW b \in Buf PROVE posted[b] # Cur
  <2> SUFFICES ASSUME posted[b] = Cur PROVE FALSE
    OBVIOUS
  <2>1. Cur \in Low .. Hi - 1
    BY <1>2, <1>3, <1>6 DEF NotPosted
  <2>2. posted[Cur % NParas] = Cur /\ DrainBuf = Cur % NParas
    BY <1>3, <1>5, <2>1 DEF RingInv
  <2> QED
    BY <1>2, <1>3, <1>8, <2>2 DEF NotPosted
<1> QED
  BY <1>4, <1>7, <1>8

-----------------------------------------------------------------------------
(* One lemma per step or group of steps: it preserves the invariant.  What *)
(* concerns the types is proved apart.                                     *)

Core == LoopInv /\ RingInv /\ DmaInv /\ DataInv /\ PositionInv /\ ResultInv

\* The sizes of the chunks that are posted, and of the one at hand.
LEMMA ChunkOf ==
    ASSUME TypeOK, LoopInv, NEW c \in Nat,
           c < Hi \/ (c = i /\ pc \in {"wait", "write", "copy", "post"})
    PROVE  /\ c <= i /\ i < Chunks(count)
           /\ ChunkSize(count, c) \in 1 .. Paras
           /\ Paras * c + ChunkSize(count, c) <= count
           /\ c < i => ChunkSize(count, c) = Paras
<1>1. /\ NParas \in Nat \ {0} /\ Paras \in Nat \ {0} /\ i \in Nat /\ count \in Nat
  BY Basics
<1>2. Hi \in Nat /\ (Hi = i \/ Hi = i + 1) /\ (Hi = i + 1 <=> posted[j] = i)
  BY Window
<1>3. c <= i
  BY <1>1, <1>2
<1>4. i < Chunks(count)
  BY <1>1, <1>2 DEF LoopInv
<1>5. Chunks(count) \in Nat
  BY <1>1, <1>4, ChunkSizes
<1>6. c < Chunks(count)
  BY <1>1, <1>3, <1>4, <1>5
<1>7. c < i => c + 1 < Chunks(count)
  BY <1>1, <1>4, <1>5
<1> QED
  BY <1>1, <1>3, <1>4, <1>6, <1>7, ChunkSizes

\* Before the pipeline is entered.
LEMMA Idle ==
    ASSUME TypeOK, Core, pc \in {"call", "plain"}
    PROVE  /\ i = 0 /\ Low = 0 /\ Hi = 0 /\ Cur = 0 /\ Got = 0
           /\ \A b \in Buf : posted[b] = -1 /\ dma[b] = "none"
           /\ fpos = 0 /\ ofs = 0 /\ exit_result = 0 /\ contents = Prefix(0) /\ ~data_err
<1>1. i = 0 /\ \A b \in Buf : posted[b] = -1
  BY DEF Core, LoopInv, NotPosted
<1>2. NParas \in Nat \ {0} /\ Paras \in Nat \ {0} /\ j \in Buf
  BY Basics
<1>3. Low = 0 /\ Hi = 0 /\ Cur = 0 /\ Due = 0
  BY <1>1, <1>2, Window DEF Core
<1>4. Got = 0
  BY <1>1, <1>2, <1>3 DEF Got
<1>5. \A b \in Buf : dma[b] = "none"
  BY <1>1, <1>3 DEF Core, DmaInv
<1>6. fpos = 0 /\ ofs = 0 /\ exit_result = 0 /\ contents = Prefix(0) /\ ~data_err
  BY <1>4 DEF Core, ResultInv
<1> QED
  BY <1>1, <1>3, <1>4, <1>5, <1>6

\* The entry, up to the pipeline or to the plain system call.
LEMMA EntryStep ==
    ASSUME TypeOK, Core, Entry
    PROVE  Core'
<1>1. pc \in {"call", "plain"}
  BY DEF Entry, NullBuffer, Pre, PreZero, PlainWrite, PlainFail
<1>2. /\ i = 0 /\ Low = 0 /\ Hi = 0 /\ Cur = 0 /\ Got = 0
      /\ \A b \in Buf : posted[b] = -1 /\ dma[b] = "none"
      /\ fpos = 0 /\ ofs = 0 /\ exit_result = 0 /\ contents = Prefix(0) /\ ~data_err
  BY <1>1, Idle
<1>3. /\ NParas \in Nat \ {0} /\ Paras \in Nat \ {0} /\ j \in Buf /\ count \in Nat
  BY Basics
<1>4. /\ call' = call /\ i' = i /\ ofs' = ofs /\ posted' = posted
      /\ dma' = dma /\ data_err' = data_err /\ next_iov' = next_iov
      /\ ve_buff_size_less' = ve_buff_size_less
      /\ need_write_in_size' = need_write_in_size /\ vh' = vh /\ ve' = ve
  BY DEF Entry, NullBuffer, Pre, PreZero, PlainWrite, PlainFail, file, loop, memory, result,
         requests, buffers
<1>5. j' = j /\ count' = count /\ ByArgument' = ByArgument
  BY <1>4 DEF j, count, ByArgument
<1>6. \/ pc' = "done"
      \/ /\ pc' = "plain" \/ (pc' = "copy" /\ count # 0) \/ pc' = "last"
         /\ UNCHANGED <<fpos, contents, exit_result, errno_bak>>
  BY DEF Entry, NullBuffer, Pre, PreZero, PlainWrite, PlainFail, file, loop, memory, result,
         requests, buffers
<1>7. /\ Low' = 0 /\ Hi' = 0 /\ (pc' # "done" => Cur' = 0) /\ Cur' \in Nat /\ Due' = Cur'
      /\ pc' \notin {"wait", "write", "post", "drain", "drain_write"}
  <2>1. pc' \notin {"wait", "write", "post", "drain", "drain_write"}
    BY <1>6
  <2>2. Low' = 0
    BY <1>2, <1>3, <1>4, <2>1 DEF Low
  <2>3. Hi' = 0
    BY <1>2, <1>3, <1>4, <1>5 DEF Hi
  <2> QED
    BY <1>3, <2>1, <2>2, <2>3 DEF Cur, Due
<1>8. pc' # "done" => Got' = 0
  BY <1>2, <1>3, <1>4, <1>7 DEF Got
<1>9. LoopInv'
  <2>1. pc' = "copy" => i < Chunks(count)
    BY <1>2, <1>3, <1>6, SomeChunks
  <2>2. posted[j] # i
    BY <1>2, <1>3
  <2> QED
    BY <1>2, <1>4, <1>5, <1>7, <2>1, <2>2 DEF LoopInv, NotPosted
<1>10. RingInv' /\ DmaInv' /\ DataInv'
  <2>1. \A b \in Buf : /\ posted'[b] = NotPosted /\ dma'[b] = "none"
                       /\ ~(posted'[b] >= Low') /\ ~(posted'[b] >= Cur') /\ ~(posted'[b] >= Due')
    BY <1>2, <1>4, <1>7 DEF NotPosted
  <2>2. \A c \in Low' .. Hi' - 1 : FALSE
    BY <1>7
  <2>3. RingInv'
    BY <1>7, <2>1, <2>2 DEF RingInv
  <2>4. DmaInv' /\ DataInv'
    BY <1>7, <2>1 DEF DmaInv, DataInv
  <2> QED
    BY <2>3, <2>4
<1>11. PositionInv'
  BY <1>1, <1>4, <1>7 DEF Core, PositionInv
<1>12. ResultInv'
  <2>1. CASE PlainWrite
    <3>1. PICK n \in 0 .. count : contents' = Prefix(n) /\ Advance(n) /\ exit_result' = n
      BY <2>1 DEF PlainWrite
    <3>2. pc' = "done"
      BY <2>1 DEF PlainWrite
    <3>3. (ByArgument => fpos' = 0) /\ (~ByArgument => fpos' = n)
      BY <1>2, <1>3, <3>1 DEF Advance
    <3>4. Prefix(n)' = Prefix(n) /\ n # -1 /\ n <= count
      BY <1>3, <3>1 DEF Prefix
    <3>5. Written'
      BY <1>5, <3>1 DEF Written, Prefix
    <3>6. (contents = Prefix(exit_result))'
      BY <3>1 DEF Prefix
    <3> QED
      BY <1>2, <1>4, <1>5, <3>1, <3>2, <3>3, <3>4, <3>5, <3>6 DEF ResultInv
  <2>2. CASE NullBuffer \/ PlainFail
    <3>1. /\ exit_result' = -1 /\ errno_bak' \in {"EFAULT", "sys"} /\ pc' = "done"
          /\ fpos' = fpos /\ contents' = contents
      BY <2>2 DEF NullBuffer, PlainFail, file
    <3>2. Written' /\ (contents = Prefix(0))'
      BY <1>2, <1>5, <3>1 DEF Core, ResultInv, Written, Prefix
    <3> QED
      BY <1>2, <1>4, <1>5, <3>1, <3>2 DEF ResultInv
  <2>3. CASE Pre \/ PreZero
    <3>1. fpos' = fpos /\ contents' = contents /\ exit_result' = exit_result /\ pc' # "done"
      BY <2>3 DEF Pre, PreZero, file, result
    <3>2. Written' /\ (contents = Prefix(exit_result))'
      BY <1>2, <1>5, <3>1 DEF Core, ResultInv, Written, Prefix
    <3> QED
      BY <1>2, <1>3, <1>4, <1>5, <1>8, <3>1, <3>2 DEF ResultInv
  <2> QED
    BY <2>1, <2>2, <2>3 DEF Entry
<1> QED
  BY <1>9, <1>10, <1>11, <1>12 DEF Core

\* The engine completes a DMA: the thread sees nothing of it but the data.
LEMMA CompleteStep ==
    ASSUME TypeOK, Core, NEW b \in Buf, Complete(b)
    PROVE  Core'
<1>1. /\ call' = call /\ fpos' = fpos /\ contents' = contents
      /\ pc' = pc /\ i' = i /\ k' = k /\ min_k' = min_k /\ posted' = posted
      /\ need_write_in_size' = need_write_in_size /\ ofs' = ofs /\ next_iov' = next_iov
      /\ ve_buff_size_less' = ve_buff_size_less
      /\ exit_result' = exit_result /\ errno_bak' = errno_bak /\ data_err' = data_err
      /\ ve' = ve
  BY DEF Complete, file, loop, memory, result
<1>2. /\ j' = j /\ count' = count /\ ByArgument' = ByArgument /\ Low' = Low /\ Hi' = Hi
      /\ Cur' = Cur /\ Due' = Due /\ transfer_size' = transfer_size /\ Got' = Got
      /\ DrainBuf' = DrainBuf
  BY <1>1 DEF j, count, ByArgument, Low, Hi, Cur, Due, Got, transfer_size, DrainBuf
<1>3. LoopInv' /\ RingInv' /\ PositionInv'
  BY <1>1, <1>2 DEF Core, LoopInv, RingInv, PositionInv
<1>4. ResultInv'
  BY <1>1, <1>2 DEF Core, ResultInv, Written, Prefix
<1>5. DmaInv'
  <2>1. \A c \in Buf : dma'[c] # "none" <=> dma[c] # "none"
    BY DEF Complete, TypeOK
  <2> QED
    BY <1>1, <1>2, <2>1 DEF Core, DmaInv
<1>6. DataInv'
  <2>1. ASSUME NEW c \in Buf, posted[c] >= Cur
        PROVE  Holds(ve, c)' /\ (dma'[c] \in {"ok", "none"} => Holds(vh, c)')
    <3>1. Holds(ve, c) /\ (dma[c] \in {"ok", "none"} => Holds(vh, c))
      BY <2>1 DEF Core, DataInv
    <3>2. Holds(ve, c)'
      BY <1>1, <3>1 DEF Holds
    <3>3. ASSUME dma'[c] \in {"ok", "none"} PROVE Holds(vh, c)'
      <4>1. CASE c = b
        <5>1. vh'[b] = ve[b]
          BY <3>3, <4>1 DEF Complete, TypeOK
        <5> QED
          BY <1>1, <3>1, <4>1, <5>1 DEF Holds
      <4>2. CASE c # b
        <5>1. dma'[c] = dma[c] /\ vh'[c] = vh[c]
          BY <4>2 DEF Complete, TypeOK
        <5> QED
          BY <1>1, <3>1, <3>3, <5>1 DEF Holds
      <4> QED
        BY <4>1, <4>2
    <3> QED
      BY <3>2, <3>3
  <2> QED
    BY <1>1, <1>2, <2>1 DEF Core, DataInv
<1> QED
  BY <1>3, <1>4, <1>5, <1>6 DEF Core

\* The buffer at hand is given up, or free to be filled: the others are as
\* before.
LEMMA OthersKept ==
    ASSUME TypeOK, Core, pc \in {"wait", "write", "post"},
           pc' = "last" \/ (pc' = "copy" /\ pc # "post"),
           call' = call, i' = i, need_write_in_size' = need_write_in_size,
           next_iov' = next_iov, ve_buff_size_less' = ve_buff_size_less, vh' = vh, ve' = ve,
           posted'[j] = NotPosted \/ (posted' = posted /\ pc' = "copy"), dma'[j] = "none",
           \A b \in Buf : b # j => posted'[b] = posted[b] /\ dma'[b] = dma[b]
    PROVE  /\ LoopInv' /\ RingInv' /\ DmaInv' /\ DataInv' /\ PositionInv'
           /\ Hi' = i /\ Cur' = Low' /\ j' = j /\ count' = count /\ ByArgument' = ByArgument
           /\ Low' = IF pc = "post" THEN Low ELSE Low + 1
           /\ Low' <= i
<1>1. /\ NParas \in Nat \ {0} /\ Paras \in Nat \ {0} /\ j \in Buf /\ i \in Nat
      /\ count \in Nat /\ Low \in Nat /\ Hi = i /\ Low <= i /\ Cur = Low
      /\ \A b \in Buf : posted[b] \in Int
  BY Basics, Window DEF Core
<1>2. j' = j /\ count' = count /\ transfer_size' = transfer_size /\ ByArgument' = ByArgument
  BY DEF j, count, transfer_size, ByArgument
<1>3. Low' = (IF pc = "post" THEN Low ELSE Low + 1) /\ Low' \in Nat /\ Low' <= i
  <2>1. pc' \notin {"wait", "write"}
    OBVIOUS
  <2>2. CASE pc = "post"
    <3>1. Low' = Low
      BY <2>1, <2>2 DEF Low
    <3> QED
      BY <1>1, <2>2, <3>1
  <2>3. CASE pc # "post"
    <3>1. Low = i - NParas /\ i >= NParas
      BY <2>3, Window DEF Core
    <3>2. Low' = i - NParas + 1
      BY <1>1, <2>1, <3>1 DEF Low
    <3> QED
      BY <1>1, <2>3, <3>1, <3>2
  <2> QED
    BY <2>2, <2>3
<1>4. posted'[j] < Low' /\ posted'[j] # i /\ posted'[j] \in Int
  <2>1. CASE posted'[j] = NotPosted
    BY <1>1, <1>3, <2>1 DEF NotPosted
  <2>2. CASE posted' = posted /\ pc' = "copy"
    <3>1. posted[j] = Low
      BY <2>2, AtHand DEF Core
    <3> QED
      BY <1>1, <1>3, <2>2, <3>1
  <2> QED
    BY <2>1, <2>2
<1>5. Hi' = i /\ Cur' = Low' /\ Due' = Low'
  BY <1>2, <1>4 DEF Hi, Cur, Due
<1>6. ASSUME NEW b \in Buf, b # j, posted[b] >= Low PROVE posted[b] >= Low'
  <2>1. CASE pc = "post"
    BY <1>3, <1>6, <2>1
  <2>2. CASE pc # "post"
    <3>1. posted[j] = Low
      BY <2>2, AtHand DEF Core
    <3>2. posted[b] % NParas = b /\ posted[j] % NParas = j
      BY <1>1, <1>6, <3>1 DEF Core, RingInv
    <3>3. posted[b] # Low
      BY <1>6, <3>1, <3>2
    <3> QED
      BY <1>1, <1>3, <1>6, <2>2, <3>3
  <2> QED
    BY <2>1, <2>2
<1>7. ASSUME NEW b \in Buf, posted'[b] >= Low'
      PROVE  b # j /\ posted'[b] = posted[b] /\ posted[b] >= Low
  BY <1>1, <1>3, <1>4, <1>7
<1>8. RingInv'
  <2>1. ASSUME NEW c \in Low' .. Hi' - 1 PROVE posted'[c % NParas] = c
    <3>1. c \in Low .. Hi - 1 /\ c >= Low'
      BY <1>1, <1>3, <1>5
    <3>2. PICK b \in Buf : b = c % NParas
      BY <1>1, <1>3, <3>1 DEF Buf
    <3>3. posted[b] = c
      BY <3>1, <3>2 DEF Core, RingInv
\* Chunk c would have been in the buffer at hand.
    <3>4. b # j
      <4>1. CASE pc = "post"
        <5>1. posted[j] < Low
          BY <4>1, AtHand DEF Core
        <5> QED
          BY <1>1, <3>1, <3>3, <5>1
      <4>2. CASE pc # "post"
        <5>1. posted[j] = Low
          BY <4>2, AtHand DEF Core
        <5> QED
          BY <1>1, <1>3, <3>1, <3>3, <4>2, <5>1
      <4> QED
        BY <4>1, <4>2
    <3> QED
      BY <3>2, <3>3, <3>4
  <2>2. ASSUME NEW b \in Buf, posted'[b] >= Low' PROVE posted'[b] < Hi' /\ posted'[b] % NParas = b
    BY <1>1, <1>5, <1>7, <2>2 DEF Core, RingInv
  <2>3. ASSUME NEW b \in Buf, posted'[b] < Low'
        PROVE  posted'[b] = NotPosted \/ (pc' \in {"copy", "post"} /\ b = j)
    <3>1. CASE b = j
      BY <3>1
    <3>2. CASE b # j
      <4>1. posted'[b] = posted[b] /\ ~(posted[b] >= Low)
        BY <1>1, <1>3, <1>6, <2>3, <3>2
      <4> QED
        BY <1>1, <3>2, <4>1 DEF Core, RingInv
    <3> QED
      BY <3>1, <3>2
  <2> QED
    BY <1>2, <2>1, <2>2, <2>3 DEF RingInv
<1>9. DmaInv'
  <2>1. ASSUME NEW b \in Buf PROVE dma'[b] # "none" <=> posted'[b] >= Due'
    <3>1. CASE b = j
      BY <1>3, <1>4, <1>5, <3>1
    <3>2. CASE b # j
      <4>1. dma[b] # "none" <=> posted[b] >= Due
        BY DEF Core, DmaInv
      <4>2. Due = Low \/ Due = Low'
        <5>1. CASE pc = "write"
          BY <1>1, <1>3, <5>1, Window DEF Core
        <5>2. CASE pc # "write"
          BY <1>1, <5>2, Window DEF Core
        <5> QED
          BY <5>1, <5>2
      <4>3. posted[b] >= Low <=> posted[b] >= Low'
        BY <1>1, <1>3, <1>6, <3>2
      <4> QED
        BY <1>5, <3>2, <4>1, <4>2, <4>3
    <3> QED
      BY <3>1, <3>2
  <2> QED
    BY <2>1 DEF DmaInv
<1>10. DataInv'
  <2>1. ASSUME NEW b \in Buf, posted'[b] >= Low'
        PROVE  /\ need_write_in_size'[b] = ChunkSize(count, posted[b])'
               /\ Holds(ve, b)' /\ (dma'[b] \in {"ok", "none"} => Holds(vh, b)')
    <3>1. b # j /\ posted'[b] = posted[b] /\ dma'[b] = dma[b] /\ posted[b] >= Low
      BY <1>7, <2>1
    <3>2. /\ need_write_in_size[b] = ChunkSize(count, posted[b])
          /\ Holds(ve, b) /\ (dma[b] \in {"ok", "none"} => Holds(vh, b))
      BY <1>1, <3>1 DEF Core, DataInv
    <3> QED
      BY <1>2, <3>1, <3>2 DEF Holds, ChunkSize
  <2>2. pc' # "post"
    OBVIOUS
  <2> QED
    BY <1>5, <2>1, <2>2 DEF DataInv
<1>11. LoopInv'
  BY <1>2, <1>4 DEF Core, LoopInv
<1>12. PositionInv'
  BY <1>2 DEF Core, PositionInv
<1> QED
  BY <1>2, <1>3, <1>5, <1>8, <1>9, <1>10, <1>11, <1>12

\* Once something went wrong the file and its offset stay as they are.
LEMMA ResultOnError ==
    ASSUME Core, call' = call, pc' \in {"last", "drain"}, data_err',
           fpos' = fpos, contents' = contents,
           \/ exit_result' = -1 /\ errno_bak' = "EIO"
           \/ exit_result' = -1 /\ errno_bak' = "sys" /\ exit_result = 0
           \/ exit_result' = exit_result /\ errno_bak' = errno_bak
    PROVE  ResultInv'
<1>1. count' = count /\ ByArgument' = ByArgument
  BY DEF count, ByArgument
<1>2. Written' /\ \A n : Prefix(n)' = Prefix(n)
  BY <1>1 DEF Core, ResultInv, Written, Prefix
<1>3. exit_result = 0 => contents = Prefix(0) /\ fpos = 0
  BY DEF Core, ResultInv
<1>4. (contents = Prefix(exit_result))' <=> contents = Prefix(exit_result')
  BY DEF Prefix
<1> QED
  BY <1>1, <1>2, <1>3, <1>4 DEF Core, ResultInv

\* To store units of the oldest chunk is to append the next units.
LEMMA StoreNext ==
    ASSUME TypeOK, Core, pc \in {"write", "drain_write"}, call' = call,
           NEW b \in Buf, posted[b] = Cur, dma[b] = "none",
           NEW n \in 0 .. need_write_in_size[b], Wrote(b, n)
    PROVE  /\ Cur <= i /\ Got = Paras * Cur /\ Got \in Nat /\ Got + n <= count
           /\ need_write_in_size[b] \in 1 .. Paras
           /\ need_write_in_size[b] = ChunkSize(count, Cur)
           /\ Cur < i => need_write_in_size[b] = Paras
           /\ exit_result' = Got + n /\ ofs' = Got + n
           /\ contents' = Prefix(Got + n)
           /\ ByArgument => fpos' = 0
           /\ ~ByArgument => fpos' = Got + n
<1>1. /\ NParas \in Nat \ {0} /\ Paras \in Nat \ {0} /\ i \in Nat /\ count \in Nat
      /\ MaxCount \in Nat
  BY Basics
<1>2. /\ Low \in Nat /\ Hi \in Nat /\ Cur \in Nat /\ Low <= Cur
  BY Window DEF Core
<1>3. Cur < Hi
  BY <1>1, <1>2 DEF Core, RingInv
<1>4. /\ Cur <= i
      /\ ChunkSize(count, Cur) \in 1 .. Paras
      /\ Paras * Cur + ChunkSize(count, Cur) <= count
      /\ Cur < i => ChunkSize(count, Cur) = Paras
  BY <1>2, <1>3, ChunkOf DEF Core
<1>5. PICK d \in Nat : d = Paras * Cur
  BY <1>1, <1>2
<1>6. Got = d
  <2>1. ~(Cur > i)
    BY <1>1, <1>2, <1>4
  <2> QED
    BY <1>5, <2>1 DEF Got
<1>7. PICK s \in 1 .. Paras : s = need_write_in_size[b] /\ s = ChunkSize(count, Cur)
  BY <1>2, <1>4 DEF Core, DataInv
<1>8. n \in Nat /\ n <= s /\ d + n <= count
  BY <1>1, <1>4, <1>5, <1>7
<1>9. exit_result = d /\ ofs = d /\ contents = Prefix(d) /\ FilePosition = d
  <2>1. ~data_err /\ pc # "done"
    BY DEF Core, ResultInv
  <2>2. exit_result = d /\ ofs = d
    BY <1>6, <2>1 DEF Core, ResultInv
  <2>3. exit_result # -1
    BY <2>2
  <2>4. contents = Prefix(d) /\ (~ByArgument => fpos = d)
    BY <2>2, <2>3 DEF Core, ResultInv
  <2> QED
    BY <2>2, <2>4 DEF FilePosition
<1>10. exit_result' = d + n /\ ofs' = d + n
  BY <1>9 DEF Wrote
<1>11. (ByArgument => fpos' = 0) /\ (~ByArgument => fpos' = d + n)
  BY <1>9 DEF Wrote, Store, Advance, FilePosition, Core, ResultInv
<1>12. contents' = Prefix(d + n)
  <2>1. \A u \in 1 .. n : vh[b][u] = d + u - 1
    BY <1>1, <1>2, <1>5, <1>7, <1>8 DEF Core, DataInv, Holds
  <2>2. contents' = [o \in Offset |-> IF o \in d .. d + n - 1
                                     THEN vh[b][o - d + 1] ELSE Prefix(d)[o]]
    BY <1>9, Zenon DEF Wrote, Store
  <2>3. ASSUME NEW o \in Offset
        PROVE  (IF o \in d .. d + n - 1 THEN vh[b][o - d + 1] ELSE Prefix(d)[o])
               = IF o < d + n THEN o ELSE Untouched
    <3>1. o \in Nat
      BY <1>1 DEF Offset
    <3>2. CASE o \in d .. d + n - 1
      <4>1. PICK u \in 1 .. n : u = o - d + 1
        BY <1>8, <3>1, <3>2
      <4>2. d + u - 1 = o /\ o < d + n
        BY <1>8, <3>1, <3>2, <4>1
      <4>3. vh[b][u] = o
        BY <2>1, <4>2
      <4> QED
        BY <3>2, <4>1, <4>2, <4>3, Zenon
    <3>3. CASE o \notin d .. d + n - 1
      <4>1. Prefix(d)[o] = IF o < d THEN o ELSE Untouched
        BY DEF Prefix
      <4>2. o < d <=> o < d + n
        BY <1>8, <3>1, <3>3
      <4> QED
        BY <3>3, <4>1, <4>2
    <3> QED
      BY <3>2, <3>3
  <2> QED
    BY <2>2, <2>3, Zenon DEF Prefix
<1> QED
  BY <1>4, <1>5, <1>6, <1>7, <1>8, <1>10, <1>11, <1>12

\* What StoreNext says of the result is the invariant's part of it.
LEMMA ResultOnStore ==
    ASSUME TypeOK, call' = call, NEW n \in Nat, n <= count,
           exit_result' = n, ofs' = n, contents' = Prefix(n),
           ByArgument => fpos' = 0, ~ByArgument => fpos' = n,
           pc' # "done", data_err' => pc' \in {"last", "drain"}, ~data_err' => Got' = n
    PROVE  ResultInv'
<1>1. count' = count /\ ByArgument' = ByArgument
  BY DEF count, ByArgument
<1>2. (contents = Prefix(exit_result))' /\ n # -1
  BY DEF Prefix
<1>3. Written'
  <2>1. n \in 0 .. count
    BY Basics
  <2> QED
    BY <1>1, <2>1 DEF Written, Prefix
<1> QED
  BY <1>1, <1>2, <1>3 DEF ResultInv

\* The loop waits for the buffer it needs again.
LEMMA WaitStep ==
    ASSUME TypeOK, Core, WaitOk \/ WaitErr
    PROVE  Core'
<1>1. /\ pc = "wait"
      /\ call' = call /\ fpos' = fpos /\ contents' = contents /\ i' = i /\ k' = k
      /\ min_k' = min_k /\ ofs' = ofs /\ need_write_in_size' = need_write_in_size
      /\ next_iov' = next_iov /\ ve_buff_size_less' = ve_buff_size_less
      /\ vh' = vh /\ ve' = ve /\ dma' = [dma EXCEPT ![j] = "none"]
  BY DEF WaitOk, WaitErr, Waited, file, loop, memory, buffers
<1>2. /\ NParas \in Nat \ {0} /\ Paras \in Nat \ {0} /\ j \in Buf /\ i \in Nat
      /\ count \in Nat /\ \A b \in Buf : posted[b] \in Int
  BY Basics
<1>3. /\ posted[j] = Low /\ Low \in Nat /\ Low = i - NParas /\ i >= NParas /\ Hi = i
      /\ Cur = Low /\ Due = Low
  BY <1>1, AtHand, Window DEF Core
<1>4. dma'[j] = "none" /\ \A b \in Buf : b # j => dma'[b] = dma[b]
  BY <1>1, <1>2 DEF TypeOK
<1>5. CASE WaitErr
  <2>1. /\ pc' = "last" /\ data_err' /\ exit_result' = -1 /\ errno_bak' = "EIO"
        /\ posted' = [posted EXCEPT ![j] = NotPosted]
    BY <1>5 DEF WaitErr, Fail
  <2>2. posted'[j] = NotPosted /\ \A b \in Buf : b # j => posted'[b] = posted[b]
    BY <1>2, <2>1 DEF TypeOK
  <2>3. LoopInv' /\ RingInv' /\ DmaInv' /\ DataInv' /\ PositionInv'
    BY <1>1, <1>4, <2>1, <2>2, OthersKept
  <2>4. ResultInv'
    BY <1>1, <2>1, ResultOnError
  <2> QED
    BY <2>3, <2>4 DEF Core
<1>6. CASE WaitOk
  <2>1. /\ pc' = "write" /\ data_err' = data_err /\ posted' = posted
        /\ exit_result' = exit_result /\ errno_bak' = errno_bak /\ dma[j] = "ok"
    BY <1>6 DEF WaitOk, Waited, result
  <2>2. /\ j' = j /\ count' = count /\ ByArgument' = ByArgument
        /\ transfer_size' = transfer_size /\ Low' = Low /\ Hi' = Hi
    BY <1>1, <2>1 DEF j, count, ByArgument, transfer_size, Low, Hi
  <2>3. Cur' = Cur /\ Due' = Cur + 1
    BY <1>3, <2>1, <2>2 DEF Cur, Due
  <2>4. Got' = Got
    BY <1>1, <2>1, <2>2, <2>3 DEF Got
  <2>5. LoopInv' /\ RingInv' /\ PositionInv'
    BY <1>1, <1>3, <2>1, <2>2 DEF Core, LoopInv, RingInv, PositionInv
  <2>6. DmaInv'
    <3>1. ASSUME NEW b \in Buf PROVE dma'[b] # "none" <=> posted[b] >= Cur + 1
      <4>1. CASE b = j
        BY <1>3, <1>4, <4>1
      <4>2. CASE b # j
        <5>1. dma[b] # "none" <=> posted[b] >= Low
          BY <1>3 DEF Core, DmaInv
        <5>2. posted[b] >= Low => posted[b] % NParas = b
          BY DEF Core, RingInv
        <5>3. Low % NParas = j
          BY <1>2, <1>3 DEF Core, RingInv
        <5>4. posted[b] # Low
          BY <1>3, <4>2, <5>2, <5>3
        <5> QED
          BY <1>2, <1>3, <1>4, <4>2, <5>1, <5>4
      <4> QED
        BY <4>1, <4>2
    <3> QED
      BY <2>1, <2>3, <3>1 DEF DmaInv
  <2>7. DataInv'
    <3>1. ASSUME NEW b \in Buf, posted[b] >= Cur
          PROVE  Holds(ve, b)' /\ (dma'[b] \in {"ok", "none"} => Holds(vh, b)')
      <4>1. Holds(ve, b) /\ (dma[b] \in {"ok", "none"} => Holds(vh, b))
        BY <3>1 DEF Core, DataInv
      <4>2. dma'[b] \in {"ok", "none"} => Holds(vh, b)
        BY <1>4, <2>1, <4>1
      <4> QED
        BY <1>1, <2>1, <4>1, <4>2 DEF Holds
    <3> QED
      BY <1>1, <2>1, <2>2, <2>3, <3>1 DEF Core, DataInv, ChunkSize
  <2>8. ResultInv'
    BY <1>1, <2>1, <2>2, <2>4 DEF Core, ResultInv, Written, Prefix
  <2> QED
    BY <2>5, <2>6, <2>7, <2>8 DEF Core
<1> QED
  BY <1>5, <1>6

\* The chunk the buffer at hand still held is written.
LEMMA WriteStep ==
    ASSUME TypeOK, Core, WriteFull \/ WriteShort \/ WriteFail
    PROVE  Core'
<1>1. /\ pc = "write" /\ call' = call /\ i' = i /\ need_write_in_size' = need_write_in_size
      /\ next_iov' = next_iov /\ ve_buff_size_less' = ve_buff_size_less
      /\ vh' = vh /\ ve' = ve /\ dma' = dma
  BY DEF WriteFull, WriteShort, WriteFail, loop, memory, requests, buffers
<1>2. /\ NParas \in Nat \ {0} /\ Paras \in Nat \ {0} /\ j \in Buf /\ i \in Nat
      /\ count \in Nat /\ \A b \in Buf : posted[b] \in Int
  BY Basics
<1>3. /\ posted[j] = Low /\ Low \in Nat /\ Low = i - NParas /\ i >= NParas
      /\ Cur = Low /\ dma[j] = "none"
  BY <1>1, AtHand, Window DEF Core
<1>4. Cur < i /\ posted[j] = Cur
  BY <1>2, <1>3
<1>5. need_write_in_size[j] = Paras
  <2>1. ChunkSize(count, Low) = Paras
    BY <1>1, <1>2, <1>3, <1>4, Window, ChunkOf DEF Core
  <2> QED
    BY <1>2, <1>3, <2>1 DEF Core, DataInv
<1>6. CASE WriteFull
  <2>1. pc' = "copy" /\ posted' = posted /\ data_err' = data_err /\ Wrote(j, Paras)
    BY <1>6 DEF WriteFull
  <2>2. /\ LoopInv' /\ RingInv' /\ DmaInv' /\ DataInv' /\ PositionInv'
        /\ Cur' = Low' /\ Low' = Low + 1 /\ Low' <= i
    BY <1>1, <1>3, <2>1, OthersKept
  <2>3. Paras \in 0 .. need_write_in_size[j]
    BY <1>2, <1>5
  <2>4. /\ Got = Paras * Cur /\ Got \in Nat /\ Got + Paras <= count
        /\ exit_result' = Got + Paras /\ ofs' = Got + Paras
        /\ contents' = Prefix(Got + Paras)
        /\ ByArgument => fpos' = 0
        /\ ~ByArgument => fpos' = Got + Paras
    BY <1>1, <1>2, <1>3, <1>4, <2>1, <2>3, StoreNext
  <2>5. Got' = Got + Paras
    <3>1. ~(Cur' > i')
      BY <1>1, <1>2, <1>3, <2>2
    <3>2. Got' = Paras * (Low + 1)
      BY <2>2, <3>1 DEF Got
    <3> QED
      BY <1>2, <1>3, <2>4, <3>2
  <2>6. Got + Paras \in Nat
    BY <1>2, <2>4
  <2>7. ResultInv'
    <3>1. ~data_err /\ pc' # "done"
      BY <1>1, <2>1 DEF Core, ResultInv
    <3> QED
      BY <1>1, <2>1, <2>4, <2>5, <2>6, <3>1, ResultOnStore
  <2> QED
    BY <2>2, <2>7 DEF Core
<1>7. CASE WriteShort \/ WriteFail
  <2>1. pc' = "last" /\ data_err' /\ posted' = [posted EXCEPT ![j] = NotPosted]
    BY <1>7 DEF WriteShort, WriteFail
  <2>2. posted'[j] = NotPosted /\ \A b \in Buf : b # j => posted'[b] = posted[b]
    BY <1>2, <2>1 DEF TypeOK
  <2>3. LoopInv' /\ RingInv' /\ DmaInv' /\ DataInv' /\ PositionInv'
    BY <1>1, <1>3, <2>1, <2>2, OthersKept
  <2>4. CASE WriteShort
    <3>1. PICK n \in 0 .. Paras - 1 : Wrote(j, n)
      BY <2>4 DEF WriteShort
    <3>2. n \in 0 .. need_write_in_size[j]
      BY <1>2, <1>5
    <3>3. /\ Got \in Nat /\ Got + n <= count
          /\ exit_result' = Got + n /\ ofs' = Got + n
          /\ contents' = Prefix(Got + n)
          /\ ByArgument => fpos' = 0
          /\ ~ByArgument => fpos' = Got + n
      BY <1>1, <1>2, <1>3, <1>4, <3>1, <3>2, StoreNext
    <3>4. Got + n \in Nat
      BY <1>2, <3>3
    <3>5. ResultInv'
      BY <1>1, <2>1, <3>3, <3>4, ResultOnStore
    <3> QED
      BY <2>3, <3>5 DEF Core
  <2>5. CASE WriteFail
    <3>1. /\ fpos' = fpos /\ contents' = contents
          /\ IF posted[j] = 0 THEN exit_result' = -1 /\ errno_bak' = "sys"
             ELSE exit_result' = exit_result /\ errno_bak' = errno_bak
      BY <2>5 DEF WriteFail, file, result
    <3>2. posted[j] = 0 => exit_result = 0
      <4> SUFFICES ASSUME posted[j] = 0 PROVE exit_result = 0
        OBVIOUS
      <4>1. Got = 0
        BY <1>2, <1>4 DEF Got
      <4> QED
        BY <1>1, <4>1 DEF Core, ResultInv
    <3>3. ResultInv'
      BY <1>1, <2>1, <3>1, <3>2, ResultOnError
    <3> QED
      BY <2>3, <3>3 DEF Core
  <2> QED
    BY <1>7, <2>4, <2>5
<1> QED
  BY <1>6, <1>7

\* The next chunk is copied into the buffer at hand.
LEMMA CopyStep ==
    ASSUME TypeOK, Core, Copy
    PROVE  Core'
<1>1. /\ pc = "copy" /\ pc' = "post"
      /\ call' = call /\ fpos' = fpos /\ contents' = contents /\ i' = i /\ k' = k
      /\ min_k' = min_k /\ posted' = posted /\ need_write_in_size' = need_write_in_size
      /\ ofs' = ofs /\ exit_result' = exit_result /\ errno_bak' = errno_bak
      /\ data_err' = data_err /\ dma' = dma /\ vh' = vh
      /\ ve' = [ve EXCEPT ![j] = Gathered(ve[j])]
      /\ next_iov' = NextPosition(call.iov, next_iov, transfer_size)
  BY DEF Copy, file, loop, result, requests
<1>2. /\ NParas \in Nat \ {0} /\ Paras \in Nat \ {0} /\ j \in Buf /\ i \in Nat
      /\ count \in Nat /\ call.iov \in Vectors /\ \A b \in Buf : posted[b] \in Int
  BY Basics
<1>3. /\ posted[j] < Low /\ Low \in Nat /\ Low <= i /\ Hi = i /\ Cur = Low /\ Due = Low
  BY <1>1, AtHand, Window DEF Core
<1>4. PICK d \in Nat : d = Paras * i
  BY <1>2
<1>5. PICK t \in 1 .. Paras : t = transfer_size /\ d + t <= count
  BY <1>1, <1>2, <1>4, ChunkOf DEF Core, transfer_size
<1>6. /\ next_iov \in Positions(call.iov) /\ d = Place(call.iov, next_iov)
      /\ d + t <= Total(call.iov) /\ t \in 0 .. Paras /\ t \in Nat
  BY <1>1, <1>2, <1>4, <1>5 DEF Core, PositionInv, count
<1>7. /\ j' = j /\ count' = count /\ ByArgument' = ByArgument /\ Low' = Low /\ Hi' = Hi
      /\ transfer_size' = transfer_size
  BY <1>1 DEF j, count, ByArgument, transfer_size, Low, Hi
<1>8. Cur' = Cur /\ Due' = Due
  BY <1>1, <1>7 DEF Cur, Due
<1>9. Got' = Got
  BY <1>1, <1>7, <1>8 DEF Got
<1>10. PositionInv'
  <2>1. /\ NextPosition(call.iov, next_iov, t) \in Positions(call.iov)
        /\ Place(call.iov, NextPosition(call.iov, next_iov, t)) = d + t
    BY <1>2, <1>6, NextPositionSpec
  <2>2. ve_buff_size_less' = 0
    <3>1. Place(call.iov, next_iov) + t <= Total(call.iov)
      BY <1>6
    <3>2. VeBuffSizeLess(call.iov, next_iov, t)[Len(call.iov) + 1] = 0
      BY <1>2, <1>6, <3>1, NothingLeft
    <3> QED
      BY <1>5, <3>2, Zenon DEF Copy
  <2> QED
    BY <1>1, <1>4, <1>5, <1>7, <2>1, <2>2 DEF PositionInv
<1>11. /\ \A u \in 1 .. t : ve'[j][u] = d + u - 1
       /\ \A b \in Buf : b # j => ve'[b] = ve[b]
  <2>1. ve \in [Buf -> Buffer]
    BY DEF TypeOK
  <2>2. ve[j] \in Buffer /\ ve'[j] = Gathered(ve[j]) /\ \A b \in Buf : b # j => ve'[b] = ve[b]
    BY <1>1, <1>2, <2>1
  <2>3. Gathered(ve[j]) = GatheredFrom(ve[j], call.iov, next_iov, t)
    BY <1>5, Zenon DEF Gathered, GatheredFrom
  <2>4. \A u \in 1 .. t : GatheredFrom(ve[j], call.iov, next_iov, t)[u] = d + u - 1
    BY <1>2, <1>6, <2>2, Gather
  <2> QED
    BY <2>2, <2>3, <2>4
<1>12. DataInv'
  <2>1. ASSUME NEW b \in Buf, posted[b] >= Cur
        PROVE  Holds(ve, b)' /\ (dma[b] \in {"ok", "none"} => Holds(vh, b)')
    <3>1. Holds(ve, b) /\ (dma[b] \in {"ok", "none"} => Holds(vh, b))
      BY <2>1 DEF Core, DataInv
    <3>2. ve'[b] = ve[b]
      BY <1>2, <1>3, <1>11, <2>1
    <3> QED
      BY <1>1, <3>1, <3>2 DEF Holds
  <2>2. \A u \in 1 .. transfer_size' : ve'[j'][u] = Paras * i' + u - 1
    BY <1>1, <1>4, <1>5, <1>7, <1>11
  <2> QED
    BY <1>1, <1>7, <1>8, <2>1, <2>2 DEF Core, DataInv, ChunkSize
<1>13. LoopInv' /\ RingInv' /\ DmaInv'
  BY <1>1, <1>3, <1>7, <1>8 DEF Core, LoopInv, RingInv, DmaInv
<1>14. ResultInv'
  BY <1>1, <1>7, <1>9 DEF Core, ResultInv, Written, Prefix
<1> QED
  BY <1>10, <1>12, <1>13, <1>14 DEF Core

\* The DMA is not posted: the request ends, the chunks before are drained.
LEMMA PostAgainStep ==
    ASSUME TypeOK, Core, PostAgain
    PROVE  Core'
<1>1. /\ pc = "post" /\ pc' = "last" /\ call' = call /\ i' = i
      /\ fpos' = fpos /\ contents' = contents
      /\ need_write_in_size' = need_write_in_size /\ next_iov' = next_iov
      /\ ve_buff_size_less' = ve_buff_size_less /\ vh' = vh /\ ve' = ve /\ dma' = dma
      /\ posted' = [posted EXCEPT ![j] = NotPosted]
      /\ data_err' /\ exit_result' = -1 /\ errno_bak' = "EIO"
  BY DEF PostAgain, Fail, file, loop, memory, requests, buffers
<1>2. j \in Buf /\ dma[j] = "none"
  BY <1>1, Basics, AtHand DEF Core
<1>3. posted'[j] = NotPosted /\ \A b \in Buf : b # j => posted'[b] = posted[b]
  BY <1>1, <1>2 DEF TypeOK
<1>4. LoopInv' /\ RingInv' /\ DmaInv' /\ DataInv' /\ PositionInv'
  BY <1>1, <1>2, <1>3, OthersKept
<1>5. ResultInv'
  BY <1>1, ResultOnError
<1> QED
  BY <1>4, <1>5 DEF Core

\* The buffer at hand is posted, and the loop goes on or is over.
LEMMA PostStep ==
    ASSUME TypeOK, Core, PostOk
    PROVE  Core'
<1>1. /\ pc = "post" /\ call' = call /\ fpos' = fpos /\ contents' = contents
      /\ ofs' = ofs /\ next_iov' = next_iov /\ ve_buff_size_less' = ve_buff_size_less
      /\ exit_result' = exit_result /\ errno_bak' = errno_bak /\ data_err' = data_err
      /\ vh' = vh /\ ve' = ve
      /\ dma' = [dma EXCEPT ![j] = "run"] /\ posted' = [posted EXCEPT ![j] = i]
  BY DEF PostOk, file, memory, result, buffers
<1>2. /\ NParas \in Nat \ {0} /\ Paras \in Nat \ {0} /\ j \in Buf /\ i \in Nat
      /\ count \in Nat /\ Paras * i \in Nat
      /\ \A b \in Buf : posted[b] \in Int
  BY Basics
<1>3. /\ posted[j] < Low /\ dma[j] = "none" /\ Low \in Nat /\ Low <= i /\ Hi = i /\ Cur = Low
      /\ Due = Low
      /\ i < NParas => Low = 0
      /\ i >= NParas => Low = i - NParas + 1
  BY <1>1, AtHand, Window DEF Core
<1>4. i < Chunks(count) /\ ~data_err /\ exit_result = Got /\ ofs = Got /\ exit_result # -1
  <2>1. i < Chunks(count) /\ ~data_err /\ exit_result = Got /\ ofs = Got
    BY <1>1 DEF Core, LoopInv, ResultInv
  <2>2. Got \in Nat
    BY <1>2, <1>3 DEF Got
  <2> QED
    BY <2>1, <2>2
<1>5. PICK t \in 1 .. Paras :
          t = transfer_size /\ (i + 1 < Chunks(count) => t = Paras)
  BY <1>2, <1>4, ChunkSizes DEF transfer_size
<1>6. need_write_in_size' = [need_write_in_size EXCEPT ![j] = t]
  <2>1. ve_buff_size_less = 0
    BY DEF Core, PositionInv
  <2>2. need_write_in_size' = [need_write_in_size EXCEPT ![j] = t - 0]
    BY <1>5, <2>1 DEF PostOk
  <2> QED
    BY <1>5, <2>2
<1>7. \/ /\ i' = i + 1 /\ i + 1 < Chunks(count) /\ t = Paras
         /\ pc' = IF i + 1 >= NParas THEN "wait" ELSE "copy"
      \/ i' = i /\ pc' = "last"
  <2>1. PostOk => NextChunk
    BY DEF PostOk
  <2> QED
    BY <1>2, <1>5, <2>1 DEF NextChunk
<1>8. /\ posted'[j] = i /\ dma'[j] = "run" /\ need_write_in_size'[j] = t
      /\ \A b \in Buf : b # j => /\ posted'[b] = posted[b] /\ dma'[b] = dma[b]
                                 /\ need_write_in_size'[b] = need_write_in_size[b]
  BY <1>1, <1>2, <1>6 DEF TypeOK
<1>9. \A b \in Buf : b # j => posted'[b] < i
  BY <1>2, <1>3, <1>8 DEF Core, RingInv
<1>10. count' = count /\ ByArgument' = ByArgument /\ j' \in Buf
  <2>1. j' \in Buf
    BY <1>2, <1>7 DEF j, Buf
  <2> QED
    BY <1>1, <2>1 DEF count, ByArgument
<1>11. Low' = Low /\ pc' \in {"wait", "copy", "last"} /\ i' \in Nat
  BY <1>2, <1>3, <1>7 DEF Low
<1>12. /\ i' = i + 1 => posted'[j'] # i'
       /\ i' = i => j' = j /\ posted'[j'] = i'
       /\ i' = i + 1 \/ i' = i
       /\ Hi' = i + 1
  <2>1. i' = i => j' = j
    BY DEF j
  <2>2. i' = i + 1 => posted'[j'] # i'
    BY <1>2, <1>8, <1>9, <1>10
  <2>3. i' = i => posted'[j'] = i'
    BY <1>8, <2>1
  <2>4. i' = i + 1 \/ i' = i
    BY <1>7
  <2>5. Hi' = i + 1
    BY <1>2, <2>2, <2>3, <2>4 DEF Hi
  <2> QED
    BY <2>1, <2>2, <2>3, <2>4, <2>5
<1>13. Cur' = Low /\ Due' = Low
  BY <1>11 DEF Cur, Due
<1>14. LoopInv'
  BY <1>2, <1>4, <1>7, <1>10, <1>12 DEF LoopInv
<1>15. RingInv'
  <2>1. ASSUME NEW c \in Low' .. Hi' - 1 PROVE posted'[c % NParas] = c
    <3>1. c \in Int /\ Low <= c /\ c <= i
      BY <1>2, <1>3, <1>11, <1>12
    <3>2. CASE c = i
      BY <1>8, <3>2 DEF j
    <3>3. CASE c # i
      <4>1. c \in Low .. Hi - 1
        BY <1>2, <1>3, <3>1, <3>3
      <4>2. posted[c % NParas] = c
        BY <4>1 DEF Core, RingInv
      <4>3. c % NParas \in Buf
        BY <1>2, <3>1 DEF Buf
      <4>4. c % NParas # j
        BY <1>2, <1>3, <3>1, <4>2
      <4> QED
        BY <1>8, <4>2, <4>3, <4>4
    <3> QED
      BY <3>2, <3>3
  <2>2. ASSUME NEW b \in Buf
        PROVE  /\ posted'[b] >= Low' => posted'[b] < Hi' /\ posted'[b] % NParas = b
               /\ posted'[b] < Low' => posted'[b] = NotPosted
    <3>1. CASE b = j
      <4>1. posted'[b] = i /\ i % NParas = b
        BY <1>8, <3>1 DEF j
      <4> QED
        BY <1>2, <1>3, <1>11, <1>12, <4>1
    <3>2. CASE b # j
      <4>1. posted'[b] = posted[b]
        BY <1>8, <3>2
      <4>2. /\ posted[b] >= Low => posted[b] < i /\ posted[b] % NParas = b
            /\ posted[b] < Low => posted[b] = NotPosted
        BY <1>3, <3>2 DEF Core, RingInv
      <4> QED
        BY <1>2, <1>11, <1>12, <4>1, <4>2
    <3> QED
      BY <3>1, <3>2
  <2>3. pc' \notin {"drain", "drain_write"}
    BY <1>11
  <2> QED
    BY <2>1, <2>2, <2>3 DEF RingInv
<1>16. DmaInv'
  <2>1. ASSUME NEW b \in Buf PROVE dma'[b] # "none" <=> posted'[b] >= Due'
    <3>1. CASE b = j
      BY <1>2, <1>3, <1>8, <1>13, <3>1
    <3>2. CASE b # j
      BY <1>3, <1>8, <1>13, <3>2 DEF Core, DmaInv
    <3> QED
      BY <3>1, <3>2
  <2> QED
    BY <2>1 DEF DmaInv
<1>17. DataInv'
  <2>1. ASSUME NEW b \in Buf, posted'[b] >= Low
        PROVE  /\ need_write_in_size'[b] = ChunkSize(count, posted[b])'
               /\ Holds(ve, b)' /\ (dma'[b] \in {"ok", "none"} => Holds(vh, b)')
    <3>1. CASE b = j
      <4>1. \A u \in 1 .. t : ve[j][u] = Paras * i + u - 1
        BY <1>1, <1>5 DEF Core, DataInv
      <4>2. Holds(ve, b)'
        BY <1>1, <1>8, <3>1, <4>1 DEF Holds
      <4>3. need_write_in_size'[b] = ChunkSize(count, posted[b])'
        BY <1>5, <1>8, <1>10, <3>1 DEF transfer_size, ChunkSize
      <4> QED
        BY <1>8, <3>1, <4>2, <4>3
    <3>2. CASE b # j
      <4>1. /\ posted'[b] = posted[b] /\ dma'[b] = dma[b] /\ posted[b] >= Low
            /\ need_write_in_size'[b] = need_write_in_size[b]
        BY <1>8, <2>1, <3>2
      <4>2. /\ need_write_in_size[b] = ChunkSize(count, posted[b])
            /\ Holds(ve, b) /\ (dma[b] \in {"ok", "none"} => Holds(vh, b))
        BY <1>3, <4>1 DEF Core, DataInv
      <4> QED
        BY <1>1, <1>10, <4>1, <4>2 DEF Holds, ChunkSize
    <3> QED
      BY <3>1, <3>2
  <2>2. pc' # "post"
    BY <1>11
  <2> QED
    BY <1>11, <1>13, <2>1, <2>2 DEF DataInv
<1>18. PositionInv'
  <2>1. pc' \in {"wait", "copy"} => i' = i + 1 /\ t = Paras
    BY <1>7
  <2>2. Place(call.iov, next_iov) = Paras * i + t
    BY <1>1, <1>5 DEF Core, PositionInv
  <2>3. Paras * (i + 1) = Paras * i + Paras
    BY <1>2
  <2>4. pc' \in {"wait", "copy"} => Place(call.iov, next_iov)' = Paras * i'
    BY <1>1, <2>1, <2>2, <2>3
  <2> QED
    BY <1>1, <1>11, <2>4 DEF Core, PositionInv
<1>19. ResultInv'
  <2>1. Got' = Got
    <3>1. ~(Cur > i) /\ ~(Cur' > i')
      BY <1>2, <1>3, <1>12, <1>13
    <3> QED
      BY <1>3, <1>13, <3>1 DEF Got
  <2>2. Written' /\ (contents = Prefix(exit_result))'
    BY <1>1, <1>4, <1>10 DEF Core, ResultInv, Written, Prefix
  <2> QED
    BY <1>1, <1>4, <1>10, <2>1, <2>2 DEF Core, ResultInv
<1> QED
  BY <1>14, <1>15, <1>16, <1>17, <1>18, <1>19 DEF Core

\* Draining begins with the buffer of the oldest chunk.
LEMMA LastStep ==
    ASSUME TypeOK, Core, Last
    PROVE  Core'
<1>1. /\ pc = "last" /\ pc' = "drain" /\ k' = 0 /\ min_k' = FindMinPosted(posted)
      /\ call' = call /\ fpos' = fpos /\ contents' = contents
      /\ i' = i /\ next_iov' = next_iov /\ need_write_in_size' = need_write_in_size
      /\ ve_buff_size_less' = ve_buff_size_less /\ ofs' = ofs
      /\ exit_result' = exit_result /\ errno_bak' = errno_bak /\ data_err' = data_err
      /\ vh' = vh /\ ve' = ve /\ dma' = dma /\ posted' = posted
  BY DEF Last, file, memory, result, requests, buffers
<1>2. /\ NParas \in Nat \ {0} /\ i \in Nat
      /\ \A b \in Buf : posted[b] \in Int
  BY Basics
<1>3. Low \in Nat /\ Hi \in Nat /\ Cur = Low /\ Due = Low
  BY <1>1, Window DEF Core
<1>4. /\ j' = j /\ count' = count /\ ByArgument' = ByArgument /\ Low' = Low /\ Hi' = Hi
      /\ transfer_size' = transfer_size
  BY <1>1 DEF j, count, ByArgument, Low, Hi, transfer_size
<1>5. Cur' = Cur /\ Due' = Due
  BY <1>1, <1>3, <1>4 DEF Cur, Due
<1>6. Got' = Got
  BY <1>1, <1>4, <1>5 DEF Got
<1>7. ASSUME Low < Hi PROVE min_k' = Low % NParas
  <2>1. posted[Low % NParas] = Low
    BY <1>3, <1>7 DEF Core, RingInv
  <2>2. Low % NParas \in Buf
    BY <1>2, <1>3 DEF Buf
  <2>3. posted[Low % NParas] # NotPosted
    BY <1>3, <2>1 DEF NotPosted
  <2>4. PICK m \in Buf : m = min_k' /\ posted[m] # NotPosted /\ posted[m] <= Low
    BY <1>1, <2>1, <2>2, <2>3, FindMinSpec DEF TypeOK
  <2>5. posted[m] >= Low => posted[m] % NParas = m
    BY DEF Core, RingInv
  <2>6. posted[m] >= Low
    BY <1>1, <1>2, <1>3, <2>4 DEF Core, RingInv
  <2> QED
    BY <1>2, <1>3, <2>4, <2>5, <2>6
<1>8. LoopInv' /\ DmaInv' /\ PositionInv'
  BY <1>1, <1>4, <1>5 DEF Core, LoopInv, DmaInv, PositionInv
<1>9. RingInv'
  BY <1>1, <1>4, <1>7 DEF Core, RingInv
<1>10. DataInv'
  BY <1>1, <1>4, <1>5 DEF Core, DataInv, Holds, ChunkSize
<1>11. ResultInv'
  BY <1>1, <1>4, <1>6 DEF Core, ResultInv, Written, Prefix
<1> QED
  BY <1>8, <1>9, <1>10, <1>11 DEF Core

\* The buffer to drain is the only one with the chunk that is due.
LEMMA OnlyOneDue ==
    ASSUME TypeOK, Core, pc \in {"drain", "drain_write"}, k < NParas,
           posted[DrainBuf] # NotPosted
    PROVE  /\ DrainBuf \in Buf /\ posted[DrainBuf] = Cur /\ Cur < Hi
           /\ \A b \in Buf : b # DrainBuf => posted[b] # Cur
<1>1. DrainBuf \in Buf /\ posted[DrainBuf] = Cur /\ Cur < Hi
  BY DrainOrder DEF Core
<1>2. Low <= Cur /\ Low \in Nat /\ Cur \in Nat
  BY Window DEF Core
<1>3. ASSUME NEW b \in Buf, posted[b] = Cur PROVE Cur % NParas = b
  BY <1>2, <1>3 DEF Core, RingInv
<1> QED
  BY <1>1, <1>3

\* The draining loop goes on to the next buffer, having waited for this one.
LEMMA DrainOn ==
    ASSUME TypeOK, Core, pc \in {"drain", "drain_write"}, k < NParas, pc' = "drain", k' = k + 1,
           call' = call, i' = i, min_k' = min_k, posted' = posted,
           need_write_in_size' = need_write_in_size, next_iov' = next_iov,
           ve_buff_size_less' = ve_buff_size_less, vh' = vh, ve' = ve,
           \A b \in Buf : /\ posted[b] # Cur => dma'[b] = dma[b]
                          /\ posted[b] = Cur => dma'[b] = "none"
    PROVE  /\ LoopInv' /\ RingInv' /\ DmaInv' /\ DataInv' /\ PositionInv'
           /\ Low' = Low /\ Hi' = Hi /\ Cur' = Cur + 1 /\ transfer_size' = transfer_size
           /\ j' = j /\ count' = count /\ ByArgument' = ByArgument
<1>1. /\ NParas \in Nat \ {0} /\ i \in Nat /\ k \in Nat
      /\ \A b \in Buf : posted[b] \in Int
  BY Basics DEF TypeOK
<1>2. /\ Low \in Nat /\ Hi \in Nat /\ Cur \in Nat /\ Low <= Cur /\ Cur = Low + k
      /\ Due = Cur \/ Due = Cur + 1
  BY Window DEF Core
<1>3. /\ j' = j /\ count' = count /\ ByArgument' = ByArgument
      /\ transfer_size' = transfer_size
  BY DEF j, count, ByArgument, transfer_size
<1>4. Low' = Low /\ Hi' = Hi
  BY <1>3 DEF Low, Hi
<1>5. Cur' = Cur + 1 /\ Due' = Cur + 1
  <2>1. Cur' = Low + (k + 1)
    BY <1>4 DEF Cur
  <2>2. Due' = Cur'
    BY DEF Due
  <2> QED
    BY <1>1, <1>2, <2>1, <2>2
<1>6. LoopInv' /\ RingInv' /\ PositionInv'
  BY <1>3, <1>4 DEF Core, LoopInv, RingInv, PositionInv
<1>7. DmaInv'
  <2>1. ASSUME NEW b \in Buf PROVE dma'[b] # "none" <=> posted[b] >= Cur + 1
    <3>1. dma[b] # "none" <=> posted[b] >= Due
      BY DEF Core, DmaInv
    <3>2. CASE posted[b] = Cur
      BY <1>2, <3>2
    <3>3. CASE posted[b] # Cur
      BY <1>1, <1>2, <3>1, <3>3
    <3> QED
      BY <3>2, <3>3
  <2> QED
    BY <1>5, <2>1 DEF DmaInv
<1>8. DataInv'
  <2>1. ASSUME NEW b \in Buf, posted[b] >= Cur + 1
        PROVE  Holds(ve, b)' /\ (dma'[b] \in {"ok", "none"} => Holds(vh, b)')
    <3>1. posted[b] >= Cur /\ dma'[b] = dma[b]
      BY <1>1, <1>2, <2>1
    <3>2. Holds(ve, b) /\ (dma[b] \in {"ok", "none"} => Holds(vh, b))
      BY <3>1 DEF Core, DataInv
    <3> QED
      BY <3>1, <3>2 DEF Holds
  <2> QED
    BY <1>3, <1>4, <1>5, <2>1 DEF Core, DataInv, ChunkSize
<1> QED
  BY <1>3, <1>4, <1>5, <1>6, <1>7, <1>8

\* What has been written counts as much after a buffer without a chunk.
LEMMA GotOn ==
    ASSUME TypeOK, Core, Cur >= Hi, Cur' = Cur + 1, i' = i, posted' = posted, j' = j,
           transfer_size' = transfer_size
    PROVE  Got' = Got
<1>1. /\ NParas \in Nat \ {0} /\ Paras \in Nat \ {0} /\ i \in Nat /\ Paras * i \in Nat
  BY Basics
<1>2. /\ Cur \in Nat /\ (Hi = i \/ Hi = i + 1) /\ (Hi = i + 1 <=> posted[j] = i)
  BY Window DEF Core
<1>3. PICK g : g = Paras * i + (IF posted[j] = i THEN transfer_size ELSE 0)
  OBVIOUS
<1>4. Got' = g
  <2>1. Cur + 1 > i
    BY <1>1, <1>2
  <2> QED
    BY <1>3, <2>1, Zenon DEF Got
<1>5. CASE Cur > i
  <2>1. Got = g
    BY <1>3, <1>5, Zenon DEF Got
  <2> QED
    BY <1>4, <2>1
<1>6. CASE Cur = i
  <2>1. posted[j] # i /\ ~(Cur > i)
    BY <1>1, <1>2, <1>6
  <2>2. g = Paras * i
    BY <1>1, <1>3, <2>1
  <2> QED
    BY <1>4, <1>6, <2>1, <2>2 DEF Got
<1> QED
  BY <1>1, <1>2, <1>5, <1>6

\* One buffer drained that needs no system call.
LEMMA DrainStep ==
    ASSUME TypeOK, Core, DrainSkip \/ DrainErr \/ (DrainOk /\ data_err)
    PROVE  Core'
<1>1. /\ pc = "drain" /\ k < NParas /\ pc' = "drain" /\ k' = k + 1
      /\ call' = call /\ fpos' = fpos /\ contents' = contents /\ i' = i /\ min_k' = min_k
      /\ posted' = posted /\ need_write_in_size' = need_write_in_size /\ ofs' = ofs
      /\ next_iov' = next_iov /\ ve_buff_size_less' = ve_buff_size_less /\ vh' = vh /\ ve' = ve
  BY DEF DrainSkip, DrainOk, DrainErr, Draining, Waited, file, memory, buffers
<1>2. \A b \in Buf : /\ posted[b] # Cur => dma'[b] = dma[b]
                     /\ posted[b] = Cur => dma'[b] = "none"
  <2>1. CASE posted[DrainBuf] = NotPosted
    <3>1. dma' = dma
      BY <2>1 DEF DrainSkip, DrainOk, DrainErr, requests
    <3>2. \A b \in Buf : posted[b] # Cur
      BY <1>1, <2>1, DrainOrder DEF Core
    <3> QED
      BY <3>1, <3>2
  <2>2. CASE posted[DrainBuf] # NotPosted
    <3>1. dma' = [dma EXCEPT ![DrainBuf] = "none"]
      BY <2>2 DEF DrainSkip, DrainOk, DrainErr, Waited
    <3>2. /\ DrainBuf \in Buf /\ posted[DrainBuf] = Cur
          /\ \A b \in Buf : b # DrainBuf => posted[b] # Cur
      BY <1>1, <2>2, OnlyOneDue
    <3>3. dma'[DrainBuf] = "none" /\ \A b \in Buf : b # DrainBuf => dma'[b] = dma[b]
      BY <3>1, <3>2 DEF TypeOK
    <3> QED
      BY <3>2, <3>3
  <2> QED
    BY <2>1, <2>2
<1>3. /\ LoopInv' /\ RingInv' /\ DmaInv' /\ DataInv' /\ PositionInv'
      /\ Low' = Low /\ Hi' = Hi /\ Cur' = Cur + 1 /\ transfer_size' = transfer_size
      /\ j' = j /\ count' = count /\ ByArgument' = ByArgument
  BY <1>1, <1>2, DrainOn
<1>4. CASE DrainErr \/ (DrainOk /\ data_err)
  <2>1. /\ data_err'
        /\ \/ exit_result' = -1 /\ errno_bak' = "EIO"
           \/ exit_result' = exit_result /\ errno_bak' = errno_bak
    BY <1>4 DEF DrainErr, DrainOk, Fail, result
  <2>2. ResultInv'
    BY <1>1, <2>1, ResultOnError
  <2> QED
    BY <1>3, <2>2 DEF Core
<1>5. CASE DrainSkip
  <2>1. /\ exit_result' = exit_result /\ errno_bak' = errno_bak /\ data_err' = data_err
        /\ posted[DrainBuf] = NotPosted
    BY <1>5 DEF DrainSkip, result
  <2>2. Cur >= Hi
    <3>1. Cur \in Nat /\ Hi \in Nat /\ Low <= Cur /\ Low \in Nat /\ NParas \in Nat \ {0}
      BY Basics, Window DEF Core
    <3> SUFFICES ASSUME Cur < Hi PROVE FALSE
      BY <3>1
    <3>2. posted[Cur % NParas] = Cur
      BY <3>1 DEF Core, RingInv
    <3>3. Cur % NParas \in Buf
      BY <3>1 DEF Buf
    <3>4. \A b \in Buf : posted[b] # Cur
      BY <1>1, <2>1, DrainOrder DEF Core
    <3> QED
      BY <3>2, <3>3, <3>4
  <2>3. Got' = Got
    BY <1>1, <1>3, <2>2, GotOn
  <2>4. ResultInv'
    BY <1>1, <1>3, <2>1, <2>3 DEF Core, ResultInv, Written, Prefix
  <2> QED
    BY <1>3, <2>4 DEF Core
<1> QED
  BY <1>4, <1>5

\* The DMA of the buffer to drain is done, and its chunk is to be written.
LEMMA DrainOkStep ==
    ASSUME TypeOK, Core, DrainOk, ~data_err
    PROVE  Core'
<1>1. /\ pc = "drain" /\ k < NParas /\ pc' = "drain_write" /\ k' = k
      /\ call' = call /\ fpos' = fpos /\ contents' = contents /\ i' = i /\ min_k' = min_k
      /\ posted' = posted /\ need_write_in_size' = need_write_in_size /\ ofs' = ofs
      /\ exit_result' = exit_result /\ errno_bak' = errno_bak /\ data_err' = data_err
      /\ next_iov' = next_iov /\ ve_buff_size_less' = ve_buff_size_less /\ vh' = vh /\ ve' = ve
      /\ posted[DrainBuf] # NotPosted /\ dma[DrainBuf] = "ok"
      /\ dma' = [dma EXCEPT ![DrainBuf] = "none"]
  BY DEF DrainOk, Draining, Waited, file, memory, result, buffers
<1>2. /\ DrainBuf \in Buf /\ posted[DrainBuf] = Cur
      /\ \A b \in Buf : b # DrainBuf => posted[b] # Cur
  BY <1>1, OnlyOneDue
<1>3. dma'[DrainBuf] = "none" /\ \A b \in Buf : b # DrainBuf => dma'[b] = dma[b]
  BY <1>1, <1>2 DEF TypeOK
<1>4. /\ Cur \in Nat /\ Cur = Low + k /\ Due = Cur /\ \A b \in Buf : posted[b] \in Int
  BY <1>1, Basics, Window DEF Core
<1>5. /\ j' = j /\ count' = count /\ ByArgument' = ByArgument
      /\ transfer_size' = transfer_size /\ DrainBuf' = DrainBuf
  BY <1>1 DEF j, count, ByArgument, transfer_size, DrainBuf
<1>6. Low' = Low /\ Hi' = Hi
  BY <1>1, <1>5 DEF Low, Hi
<1>7. Cur' = Cur /\ Due' = Cur + 1
  BY <1>1, <1>4, <1>6 DEF Cur, Due
<1>8. Got' = Got
  BY <1>1, <1>5, <1>7 DEF Got
<1>9. LoopInv' /\ PositionInv' /\ RingInv'
  BY <1>1, <1>5, <1>6 DEF Core, LoopInv, PositionInv, RingInv
<1>10. DmaInv'
  <2>1. ASSUME NEW b \in Buf PROVE dma'[b] # "none" <=> posted[b] >= Cur + 1
    <3>1. CASE b = DrainBuf
      BY <1>2, <1>3, <1>4, <3>1
    <3>2. CASE b # DrainBuf
      <4>1. dma[b] # "none" <=> posted[b] >= Cur
        BY <1>4 DEF Core, DmaInv
      <4> QED
        BY <1>2, <1>3, <1>4, <3>2, <4>1
    <3> QED
      BY <3>1, <3>2
  <2> QED
    BY <1>1, <1>7, <2>1 DEF DmaInv
<1>11. DataInv'
  <2>1. ASSUME NEW b \in Buf, posted[b] >= Cur
        PROVE  Holds(ve, b)' /\ (dma'[b] \in {"ok", "none"} => Holds(vh, b)')
    <3>1. Holds(ve, b) /\ (dma[b] \in {"ok", "none"} => Holds(vh, b))
      BY <2>1 DEF Core, DataInv
    <3>2. dma'[b] \in {"ok", "none"} => Holds(vh, b)
      BY <1>1, <1>3, <3>1
    <3> QED
      BY <1>1, <3>1, <3>2 DEF Holds
  <2> QED
    BY <1>1, <1>5, <1>6, <1>7, <2>1 DEF Core, DataInv, ChunkSize
<1>12. ResultInv'
  BY <1>1, <1>5, <1>8 DEF Core, ResultInv, Written, Prefix
<1> QED
  BY <1>9, <1>10, <1>11, <1>12 DEF Core

\* The chunk of the buffer to drain is written.
LEMMA DrainWriteStep ==
    ASSUME TypeOK, Core, DrainWrite \/ DrainFail
    PROVE  Core'
<1>1. /\ pc = "drain_write" /\ pc' = "drain" /\ k' = k + 1 /\ call' = call /\ i' = i
      /\ min_k' = min_k /\ posted' = posted /\ need_write_in_size' = need_write_in_size
      /\ next_iov' = next_iov /\ ve_buff_size_less' = ve_buff_size_less
      /\ vh' = vh /\ ve' = ve /\ dma' = dma
  BY DEF DrainWrite, DrainFail, memory, requests, buffers
<1>2. k < NParas /\ posted[DrainBuf] # NotPosted /\ ~data_err
  BY <1>1 DEF Core, LoopInv, ResultInv
<1>3. /\ DrainBuf \in Buf /\ posted[DrainBuf] = Cur /\ Cur < Hi
      /\ \A b \in Buf : b # DrainBuf => posted[b] # Cur
  BY <1>1, <1>2, OnlyOneDue
<1>4. /\ Cur \in Nat /\ Hi \in Nat /\ Due = Cur + 1 /\ (Hi = i \/ Hi = i + 1)
      /\ Hi = i + 1 <=> posted[j] = i
  BY <1>1, Window DEF Core
<1>5. /\ NParas \in Nat \ {0} /\ Paras \in Nat \ {0} /\ i \in Nat /\ j \in Buf
      /\ \A b \in Buf : posted[b] \in Int
  BY Basics
<1>6. dma[DrainBuf] = "none"
  <2>1. ~(posted[DrainBuf] >= Due)
    BY <1>3, <1>4
  <2> QED
    BY <1>3, <2>1 DEF Core, DmaInv
<1>7. /\ LoopInv' /\ RingInv' /\ DmaInv' /\ DataInv' /\ PositionInv'
      /\ Cur' = Cur + 1 /\ transfer_size' = transfer_size
      /\ j' = j /\ count' = count
  <2>1. \A b \in Buf : /\ posted[b] # Cur => dma'[b] = dma[b]
                       /\ posted[b] = Cur => dma'[b] = "none"
    BY <1>1, <1>3, <1>6
  <2> QED
    BY <1>1, <1>2, <2>1, DrainOn
<1>8. CASE DrainWrite
  <2>1. PICK n \in 0 .. need_write_in_size[DrainBuf] :
            Wrote(DrainBuf, n) /\ data_err' = (n < need_write_in_size[DrainBuf])
    BY <1>8 DEF DrainWrite
  <2>2. /\ Cur <= i /\ Got = Paras * Cur /\ Got \in Nat /\ Got + n <= count
        /\ need_write_in_size[DrainBuf] \in 1 .. Paras
        /\ need_write_in_size[DrainBuf] = ChunkSize(count, Cur)
        /\ Cur < i => need_write_in_size[DrainBuf] = Paras
        /\ exit_result' = Got + n /\ ofs' = Got + n
        /\ contents' = Prefix(Got + n)
        /\ ByArgument => fpos' = 0
        /\ ~ByArgument => fpos' = Got + n
    BY <1>1, <1>3, <1>6, <2>1, StoreNext
  <2>3. PICK s \in 1 .. Paras : s = need_write_in_size[DrainBuf]
    BY <2>2
  <2>4. n \in Nat /\ n <= s /\ (~data_err' => n = s) /\ Got + n \in Nat
    <3>1. n < s => data_err'
      BY <2>1, <2>3, Zenon
    <3>2. n \in Nat /\ n <= s /\ s \in Nat /\ Got + n \in Nat
      BY <1>5, <2>2, <2>3
    <3> QED
      BY <3>1, <3>2
  <2>5. Got' = Got + s
    <3>1. CASE Cur < i
      <4>1. ~(Cur' > i') /\ s = Paras
        BY <1>1, <1>4, <1>5, <1>7, <2>2, <2>3, <3>1
      <4>2. Got' = Paras * (Cur + 1)
        BY <1>7, <4>1 DEF Got
      <4> QED
        BY <1>4, <1>5, <2>2, <4>1, <4>2
    <3>2. CASE Cur = i
      <4>1. Cur' > i' /\ posted[j] = i
        BY <1>1, <1>3, <1>4, <1>5, <1>7, <3>2
      <4>2. s = transfer_size
        BY <2>2, <2>3, <3>2 DEF transfer_size
      <4> QED
        BY <1>1, <1>7, <2>2, <3>2, <4>1, <4>2 DEF Got
    <3> QED
      BY <1>4, <1>5, <2>2, <3>1, <3>2
  <2>6. ResultInv'
    <3>1. pc' # "done" /\ pc' \in {"last", "drain"} /\ (~data_err' => Got' = Got + n)
      BY <1>1, <2>4, <2>5
    <3> QED
      BY <1>1, <2>2, <2>4, <3>1, ResultOnStore
  <2> QED
    BY <1>7, <2>6 DEF Core
<1>9. CASE DrainFail
  <2>1. /\ fpos' = fpos /\ contents' = contents /\ data_err'
        /\ IF posted[DrainBuf] = 0 THEN exit_result' = -1 /\ errno_bak' = "sys"
           ELSE exit_result' = exit_result /\ errno_bak' = errno_bak
    BY <1>9 DEF DrainFail, file, result
  <2>2. posted[DrainBuf] = 0 => exit_result = 0
    <3> SUFFICES ASSUME posted[DrainBuf] = 0 PROVE exit_result = 0
      OBVIOUS
    <3>1. Got = 0
      BY <1>3, <1>4, <1>5 DEF Got
    <3> QED
      BY <1>1, <1>2, <3>1 DEF Core, ResultInv
  <2>3. ResultInv'
    BY <1>1, <2>1, <2>2, ResultOnError
  <2> QED
    BY <1>7, <2>3 DEF Core
<1> QED
  BY <1>8, <1>9

\* The request returns.
LEMMA ReturnStep ==
    ASSUME TypeOK, Core, ReturnResult
    PROVE  Core'
<1>1. /\ pc = "drain" /\ k = NParas /\ pc' = "done"
      /\ call' = call /\ fpos' = fpos /\ contents' = contents
      /\ i' = i /\ next_iov' = next_iov /\ need_write_in_size' = need_write_in_size
      /\ ve_buff_size_less' = ve_buff_size_less
      /\ exit_result' = exit_result /\ errno_bak' = errno_bak /\ data_err' = data_err
      /\ vh' = vh /\ ve' = ve /\ dma' = dma /\ posted' = posted
  BY DEF ReturnResult, file, loop, memory, result, requests, buffers
<1>2. Cur = Low + NParas /\ Due = Cur
  BY <1>1, Window DEF Core
<1>3. /\ j' = j /\ count' = count /\ ByArgument' = ByArgument /\ Low' = Low /\ Hi' = Hi
      /\ transfer_size' = transfer_size
  BY <1>1 DEF j, count, ByArgument, Low, Hi, transfer_size
<1>4. Cur' = Cur /\ Due' = Due
  BY <1>1, <1>2, <1>3 DEF Cur, Due
<1>5. LoopInv' /\ DmaInv' /\ PositionInv'
  BY <1>1, <1>3, <1>4 DEF Core, LoopInv, DmaInv, PositionInv
<1>6. RingInv'
  BY <1>1, <1>3 DEF Core, RingInv
<1>7. DataInv'
  BY <1>1, <1>3, <1>4 DEF Core, DataInv, Holds, ChunkSize
<1>8. ResultInv'
  BY <1>1, <1>3 DEF Core, ResultInv, Written, Prefix
<1> QED
  BY <1>5, <1>6, <1>7, <1>8 DEF Core

\* Every step.
LEMMA CoreStep ==
    ASSUME TypeOK, Core, [Next \/ Finished]_vars
    PROVE  Core'
<1>1. CASE Entry
  BY <1>1, EntryStep
<1>2. CASE WaitOk \/ WaitErr
  BY <1>2, WaitStep
<1>3. CASE WriteFull \/ WriteShort \/ WriteFail
  BY <1>3, WriteStep
<1>4. CASE Copy
  BY <1>4, CopyStep
<1>5. CASE PostOk
  BY <1>5, PostStep
<1>6. CASE PostAgain
  BY <1>6, PostAgainStep
<1>7. CASE Last
  BY <1>7, LastStep
<1>8. CASE DrainSkip \/ DrainErr \/ (DrainOk /\ data_err)
  BY <1>8, DrainStep
<1>9. CASE DrainOk /\ ~data_err
  BY <1>9, DrainOkStep
<1>10. CASE DrainWrite \/ DrainFail
  BY <1>10, DrainWriteStep
<1>11. CASE ReturnResult
  BY <1>11, ReturnStep
<1>12. CASE \E b \in Buf : Complete(b)
  BY <1>12, CompleteStep
<1>13. CASE UNCHANGED vars
  BY <1>13
     DEF vars, Core, LoopInv, RingInv, DmaInv, DataInv, PositionInv, ResultInv, j, count,
         ByArgument, Low, Hi, Cur, Due, Got, transfer_size, Holds, DrainBuf, Written, Prefix
<1> QED
  BY <1>1, <1>2, <1>3, <1>4, <1>5, <1>6, <1>7, <1>8, <1>9, <1>10, <1>11, <1>12, <1>13
     DEF Next, Step, Loop, Drain, Finished

-----------------------------------------------------------------------------
(* Types.                                                                  *)

\* What a file or a buffer may hold.
LEMMA Units ==
    ASSUME TypeOK
    PROVE  /\ Lost \in Buffer
           /\ \A n \in Int : Prefix(n) \in [Offset -> Unit]
<1>1. \A o \in Offset : o \in Unit
  BY DEF Offset, Unit
<1>2. Untouched \in Unit /\ Garbage \in Unit
  BY DEF Unit
<1>3. Lost \in Buffer
  BY <1>2 DEF Lost, Buffer
<1>4. ASSUME NEW n \in Int, NEW o \in Offset
      PROVE  (IF o < n THEN o ELSE Untouched) \in Unit
  BY <1>1, <1>2
<1> QED
  BY <1>3, <1>4 DEF Prefix

\* Every step keeps the types.  The file, its offset, the result and the
\* position in the vectors stay in range because the new state satisfies the
\* rest of the invariant.
LEMMA TypeStep ==
    ASSUME TypeOK, Core, [Next \/ Finished]_vars, Core'
    PROVE  TypeOK'
<1>1. /\ NParas \in Nat \ {0} /\ Paras \in Nat \ {0} /\ MaxCount \in Nat
      /\ i \in Nat /\ j \in Buf /\ k \in Nat /\ count \in Nat /\ count <= MaxCount
      /\ call.iov \in Vectors
  BY Basics DEF TypeOK
<1>2. call' = call
  BY DEF Next, Finished, Step, Entry, Loop, Drain, NullBuffer, Pre, PreZero, PlainWrite, PlainFail,
         WaitOk, WaitErr, WriteFull, WriteShort, WriteFail, Copy, PostOk, PostAgain, Last,
         DrainSkip, DrainOk, DrainErr, DrainWrite, DrainFail, ReturnResult, Complete, vars
<1>3. count' = count
  BY <1>2 DEF count
<1>4. next_iov' \in Position /\ ve_buff_size_less' \in 0 .. Paras
  BY <1>1 DEF Core, PositionInv, Positions
<1>5. contents' \in [Offset -> Unit]
  <2>1. PICK n \in 0 .. count' : contents' = Prefix(n)'
    BY DEF Core, ResultInv, Written
  <2>2. n \in Int /\ Prefix(n)' = Prefix(n)
    BY <1>1, <1>3, <2>1 DEF Prefix
  <2> QED
    BY <2>1, <2>2, Units
<1> DEFINE Rest == /\ pc' \in {"call", "plain", "wait", "write", "copy", "post", "last", "drain",
                               "drain_write", "done"}
                   /\ i' \in Nat /\ k' \in 0 .. NParas /\ min_k' \in Buf
                   /\ posted' \in [Buf -> Nat \cup {NotPosted}]
                   /\ need_write_in_size' \in [Buf -> 0 .. Paras]
                   /\ errno_bak' \in {"0", "EFAULT", "EIO", "sys"}
                   /\ data_err' \in BOOLEAN
                   /\ dma' \in [Buf -> {"none", "run", "ok", "err"}]
                   /\ dma_ret' \in {"none", "ok", "err"}
                   /\ ve' \in [Buf -> Buffer]
                   /\ vh' \in [Buf -> Buffer]
           Count == /\ exit_result' \in 0 .. MaxCount \cup {-1}
                    /\ ofs' \in 0 .. MaxCount
                    /\ fpos' \in 0 .. MaxCount
<1>6. Rest
  <2>1. CASE NullBuffer \/ Pre \/ PreZero \/ PlainFail \/ PlainWrite
    BY <1>1, <2>1 DEF NullBuffer, Pre, PreZero, PlainFail, PlainWrite, TypeOK, file, loop, memory,
                      result, requests, buffers
  <2>2. CASE WaitOk \/ WaitErr
    BY <1>1, <2>2 DEF WaitOk, WaitErr, Waited, Fail, TypeOK, loop, result, buffers
  <2>3. CASE WriteFull \/ WriteShort \/ WriteFail
    BY <1>1, <2>3 DEF WriteFull, WriteShort, WriteFail, TypeOK, loop, result, requests, buffers
  <2>4. CASE Copy
    <3>1. ve' = [ve EXCEPT ![j] = Gathered(ve[j])]
      BY <2>4 DEF Copy
    <3>2. Gathered(ve[j]) \in Buffer
      <4>1. pc = "copy"
        BY <2>4 DEF Copy
      <4>2. PICK d \in Nat : d = Paras * i
        BY <1>1
      <4>3. PICK t \in 0 .. Paras : t = transfer_size /\ d + t <= count
        BY <1>1, <4>1, <4>2, ChunkOf DEF Core, transfer_size
      <4>4. /\ next_iov \in Positions(call.iov) /\ d = Place(call.iov, next_iov)
            /\ d + t <= Total(call.iov)
        BY <4>1, <4>2, <4>3 DEF Core, PositionInv, count
      <4>5. ve[j] \in Buffer
        BY <1>1 DEF TypeOK
      <4>6. GatheredFrom(ve[j], call.iov, next_iov, t) \in Buffer
        BY <1>1, <4>4, <4>5, Gather
      <4> QED
        BY <4>3, <4>6, Zenon DEF Gathered, GatheredFrom
    <3>3. ve' \in [Buf -> Buffer]
      BY <1>1, <3>1, <3>2 DEF TypeOK
    <3> QED
      BY <1>1, <2>4, <3>3 DEF Copy, TypeOK, loop, result, requests
  <2>5. CASE PostOk
    <3>1. pc = "post" /\ ve_buff_size_less = 0
      BY <2>5 DEF PostOk, Core, PositionInv
    <3>2. transfer_size - 0 \in 0 .. Paras
      BY <1>1, <3>1, ChunkOf DEF Core, transfer_size
    <3>3. need_write_in_size' \in [Buf -> 0 .. Paras]
      <4>1. need_write_in_size' = [need_write_in_size EXCEPT ![j] = transfer_size - 0]
        BY <2>5, <3>1 DEF PostOk
      <4> QED
        BY <1>1, <3>2, <4>1 DEF TypeOK
    <3>4. i' \in Nat /\ pc' \in {"wait", "copy", "last"}
      BY <1>1, <2>5 DEF PostOk, NextChunk
    <3> QED
      BY <1>1, <2>5, <3>3, <3>4 DEF PostOk, TypeOK, result, buffers
  <2>6. CASE PostAgain
    BY <1>1, <2>6 DEF PostAgain, Fail, TypeOK, loop, requests, buffers
  <2>7. CASE Last
    <3>1. FindMinPosted(posted) \in Buf
      BY FindMinSpec DEF TypeOK
    <3> QED
      BY <1>1, <2>7, <3>1 DEF Last, TypeOK, result, requests, buffers
  <2>8. CASE DrainSkip \/ DrainOk \/ DrainErr
    <3>1. k + 1 \in 0 .. NParas
      BY <1>1, <2>8 DEF DrainSkip, DrainOk, DrainErr, Draining
    <3>2. CASE DrainSkip
      BY <1>1, <3>1, <3>2 DEF DrainSkip, TypeOK, result, requests, buffers
    <3>3. CASE DrainOk
      BY <1>1, <3>1, <3>3 DEF DrainOk, Waited, TypeOK, result, buffers
    <3>4. CASE DrainErr
      BY <1>1, <3>1, <3>4 DEF DrainErr, Waited, Fail, TypeOK, buffers
    <3> QED
      BY <2>8, <3>2, <3>3, <3>4
  <2>9. CASE DrainWrite \/ DrainFail
    <3>1. pc = "drain_write"
      BY <2>9 DEF DrainWrite, DrainFail
    <3>2. k + 1 \in 0 .. NParas
      BY <1>1, <3>1 DEF Core, LoopInv
    <3>3. CASE DrainWrite
      <4>1. data_err' \in BOOLEAN
        BY <3>3 DEF DrainWrite
      <4> QED
        BY <1>1, <3>2, <3>3, <4>1 DEF DrainWrite, TypeOK, requests, buffers
    <3>4. CASE DrainFail
      BY <1>1, <3>2, <3>4 DEF DrainFail, TypeOK, result, requests, buffers
    <3> QED
      BY <2>9, <3>3, <3>4
  <2>10. CASE ReturnResult
    BY <1>1, <2>10 DEF ReturnResult, TypeOK, loop, result, requests, buffers
  <2>11. ASSUME NEW b \in Buf, Complete(b) PROVE Rest
    <3>1. Lost \in Buffer
      BY Units
    <3>2. ve[b] \in Buffer
      BY DEF TypeOK
    <3> QED
      BY <1>1, <2>11, <3>1, <3>2 DEF Complete, TypeOK, loop, result
  <2>12. CASE UNCHANGED vars
    BY <1>1, <2>12 DEF vars, TypeOK
  <2> QED
    BY <2>1, <2>2, <2>3, <2>4, <2>5, <2>6, <2>7, <2>8, <2>9, <2>10, <2>11, <2>12
       DEF Next, Step, Entry, Loop, Drain, Finished
<1>7. Count
  <2>1. ASSUME UNCHANGED <<fpos, ofs>>, exit_result' \in {exit_result, -1} PROVE Count
    BY <2>1 DEF TypeOK
  <2>2. ASSUME NEW n \in 0 .. count, exit_result' = n, ofs' \in {ofs, n}, fpos' \in {0, n}
        PROVE  Count
    BY <1>1, <2>2 DEF TypeOK
  <2>3. CASE PlainWrite
    <3>1. PICK n \in 0 .. count : Advance(n) /\ exit_result' = n
      BY <2>3 DEF PlainWrite
    <3>2. fpos = 0
      BY <2>3, Idle DEF PlainWrite
    <3>3. fpos' \in {0, n}
      BY <1>1, <3>1, <3>2 DEF Advance
    <3>4. ofs' = ofs
      BY <2>3 DEF PlainWrite
    <3> QED
      BY <2>2, <3>1, <3>3, <3>4
  <2>4. ASSUME NEW b \in Buf, pc \in {"write", "drain_write"}, posted[b] = Cur, dma[b] = "none",
               NEW n \in 0 .. need_write_in_size[b], Wrote(b, n)
        PROVE  Count
    <3>1. /\ Got \in Nat /\ Got + n <= count /\ exit_result' = Got + n /\ ofs' = Got + n
          /\ ByArgument => fpos' = 0
          /\ ~ByArgument => fpos' = Got + n
          /\ need_write_in_size[b] \in 1 .. Paras
      BY <1>2, <2>4, StoreNext
    <3>2. PICK m \in 0 .. count : m = Got + n
      BY <1>1, <3>1
    <3>3. exit_result' = m /\ ofs' = m /\ fpos' \in {0, m}
      BY <3>1, <3>2
    <3> HIDE DEF Count
    <3> QED
      BY <2>2, <3>3
  <2>5. CASE WriteFull \/ WriteShort
    <3>1. pc = "write"
      BY <2>5 DEF WriteFull, WriteShort
    <3>2. posted[j] = Cur /\ dma[j] = "none"
      BY <3>1, AtHand, Window DEF Core
    <3>3. need_write_in_size[j] = Paras
      <4>1. Low = i - NParas /\ i >= NParas /\ Low \in Nat /\ Cur = Low
        BY <3>1, Window DEF Core
      <4>2. Low < i
        BY <1>1, <4>1
      <4>3. ChunkSize(count, Low) = Paras
        BY <3>1, <4>1, <4>2, Window, ChunkOf DEF Core
      <4> QED
        BY <1>1, <3>2, <4>1, <4>3 DEF Core, DataInv
    <3>4. PICK n \in 0 .. Paras : Wrote(j, n)
      BY <1>1, <2>5 DEF WriteFull, WriteShort
    <3> HIDE DEF Count
    <3> QED
      BY <1>1, <2>4, <3>1, <3>2, <3>3, <3>4
  <2>6. CASE DrainWrite
    <3>1. pc = "drain_write" /\ k < NParas /\ posted[DrainBuf] # NotPosted
      BY <2>6 DEF DrainWrite, Core, LoopInv
    <3>2. DrainBuf \in Buf /\ posted[DrainBuf] = Cur
      BY <3>1, OnlyOneDue
    <3>3. dma[DrainBuf] = "none"
      <4>1. Due = Cur + 1 /\ Cur \in Nat
        BY <3>1, Window DEF Core
      <4>2. ~(posted[DrainBuf] >= Due)
        BY <3>2, <4>1
      <4> QED
        BY <3>2, <4>2 DEF Core, DmaInv
    <3>4. PICK n \in 0 .. need_write_in_size[DrainBuf] : Wrote(DrainBuf, n)
      BY <2>6 DEF DrainWrite
    <3> HIDE DEF Count
    <3> QED
      BY <2>4, <3>1, <3>2, <3>3, <3>4
  <2>7. CASE UNCHANGED <<fpos, ofs>> /\ exit_result' \in {exit_result, -1}
    BY <2>1, <2>7
  <2> HIDE DEF Count
  <2> QED
    BY <2>3, <2>5, <2>6, <2>7
       DEF Next, Step, Entry, Loop, Drain, Finished, NullBuffer, Pre, PreZero, PlainFail, WaitOk,
           WaitErr, WriteFail, Copy, PostOk, PostAgain, Last, DrainSkip, DrainOk, DrainErr,
           DrainFail, ReturnResult, Complete, Fail, file, result, vars
<1> QED
  BY <1>2, <1>4, <1>5, <1>6, <1>7 DEF TypeOK

-----------------------------------------------------------------------------
\* A request starts with the invariant.
LEMMA InitHolds == Init => IInv
<1> SUFFICES ASSUME Init PROVE IInv
  OBVIOUS
<1> USE DEF Init
<1>1. NParas \in Nat \ {0} /\ Paras \in Nat \ {0} /\ MaxCount \in Nat /\ MaxIov \in Nat \ {0}
  BY SizesAssumption, Zenon
<1>2. call.iov \in Vectors
  BY RequestVectors
<1>3. /\ call.iov \in Seq(Nat) /\ Len(call.iov) \in Nat /\ Len(call.iov) <= MaxIov
      /\ First(call.iov)[1] = 0 /\ count \in Nat
      /\ \A v \in 1 .. Len(call.iov) : First(call.iov)[v] \in Nat
  BY <1>2, VectorsDef, FirstDef DEF count
<1>4. contents = Prefix(0) /\ Written
  <2>1. \A o \in Offset : ~(o < 0)
    BY <1>1 DEF Offset
  <2>2. contents = Prefix(0)
    BY <2>1, Zenon DEF Prefix
  <2>3. 0 \in 0 .. count
    BY <1>3
  <2> QED
    BY <2>2, <2>3, Zenon DEF Written
<1>5. next_iov \in Positions(call.iov) /\ Place(call.iov, next_iov) = 0
  <2>1. Start \in Position /\ Start.num = 1 /\ Start.done = 0
    BY <1>1 DEF Start, Position
  <2>2. 1 <= Len(call.iov) => 0 <= call.iov[1]
    BY <1>3
  <2>3. next_iov = Start
    OBVIOUS
  <2>4. Start \in Positions(call.iov)
    <3>1. Start.num <= Len(call.iov) + 1
      BY <1>3, <2>1
    <3>2. Start.num <= Len(call.iov) => Start.done <= call.iov[Start.num]
      BY <2>1, <2>2, Zenon
    <3> QED
      BY <2>1, <3>1, <3>2, Zenon DEF Positions
  <2>5. Place(call.iov, Start) = 0
    <3> HIDE DEF Init
    <3> QED
      BY <1>3, <2>1 DEF Place
  <2> QED
    BY <2>3, <2>4, <2>5, Zenon
<1>6. /\ j \in Buf /\ Low = 0 /\ Hi = 0 /\ Cur = 0 /\ Due = 0 /\ Got = 0
      /\ \A b \in Buf : posted[b] = -1
  <2>1. j \in Buf
    BY <1>1 DEF j, Buf
  <2>2. \A b \in Buf : posted[b] = -1
    BY DEF NotPosted
  <2>3. Low = 0 /\ Hi = 0
    BY <1>1, <2>1, <2>2 DEF Low, Hi
  <2> QED
    BY <1>1, <2>1, <2>2, <2>3 DEF Cur, Due, Got
<1>7. TypeOK
  <2>1. contents \in [Offset -> Unit]
    BY DEF Unit
  <2>2. vh \in [Buf -> Buffer] /\ ve \in [Buf -> Buffer]
    BY DEF Buffer, Unit
  <2>3. next_iov \in Position
    BY <1>5 DEF Positions
  <2>4. min_k \in Buf
    BY <1>1 DEF Buf
  <2>5. /\ fpos \in 0 .. MaxCount /\ exit_result \in 0 .. MaxCount /\ k \in 0 .. NParas
        /\ i \in Nat /\ ofs \in 0 .. MaxCount /\ ve_buff_size_less \in 0 .. Paras
    BY <1>1
  <2>6. /\ posted \in [Buf -> Nat \cup {NotPosted}]
        /\ need_write_in_size \in [Buf -> 0 .. Paras]
        /\ dma \in [Buf -> {"none", "run", "ok", "err"}]
    BY <1>1
  <2>7. /\ pc = "call" /\ errno_bak = "0" /\ data_err = FALSE /\ dma_ret = "none"
        /\ call \in Requests({"write", "pwrite", "writev", "pwritev"})
    OBVIOUS
  <2> QED
    <3> HIDE DEF Init
    <3> QED
      BY <2>1, <2>2, <2>3, <2>4, <2>5, <2>6, <2>7 DEF TypeOK
<1>8. LoopInv
  BY <1>6 DEF LoopInv
<1>9. RingInv /\ DmaInv
  BY <1>6 DEF RingInv, DmaInv, NotPosted
<1>10. DataInv
  BY <1>6 DEF DataInv
<1>11. PositionInv
  BY <1>1, <1>5 DEF PositionInv
<1>12. ResultInv
  BY <1>3, <1>4, <1>6 DEF ResultInv
<1> QED
  BY <1>7, <1>8, <1>9, <1>10, <1>11, <1>12 DEF IInv

\* Every reachable state satisfies the invariant.
THEOREM Invariance == Spec => []IInv
<1>1. IInv /\ [Next \/ Finished]_vars => IInv'
  <2> SUFFICES ASSUME IInv, [Next \/ Finished]_vars PROVE IInv'
    OBVIOUS
  <2>1. TypeOK /\ Core
    BY DEF IInv, Core
  <2>2. Core'
    BY <2>1, CoreStep
  <2>3. TypeOK'
    BY <2>1, <2>2, TypeStep
  <2> QED
    BY <2>2, <2>3 DEF IInv, Core
<1> QED
  BY <1>1, InitHolds, PTL DEF Spec

\* All variables keep their types.
THEOREM TypeCorrect == Spec => []TypeOK
<1>1. IInv => TypeOK
  BY DEF IInv
<1> QED
  BY <1>1, Invariance, PTL

\* For every number and size of buffers and every request, the file holds the
\* beginning of the caller's vectors and nothing else at every moment, however
\* the system calls interleave with the DMAs and whatever fails.
THEOREM WrittenCorrect == Spec => []Written
<1>1. IInv => Written
  BY DEF IInv, ResultInv
<1> QED
  BY <1>1, Invariance, PTL

\* The result of a write that did not fail counts exactly what is in the file.
THEOREM CountedExactlyCorrect == Spec => []CountedExactly
<1>1. IInv => CountedExactly
  BY DEF IInv, ResultInv, CountedExactly
<1> QED
  BY <1>1, Invariance, PTL

\* A write that fails with the error of its system call wrote nothing.
THEOREM SystemErrorIsCleanCorrect == Spec => []SystemErrorIsClean
<1>1. IInv => SystemErrorIsClean
  BY DEF IInv, ResultInv, SystemErrorIsClean
<1> QED
  BY <1>1, Invariance, PTL

\* Each step of a write is a step of DmaRequests for the one thread and its
\* buffers, or leaves them alone.
LEMMA DmaStep ==
    ASSUME IInv, Next
    PROVE  Dma!Next \/ UNCHANGED Dma!vars
<1> DEFINE told == [t \in {"thread"} |-> dma_ret]
<1>1. ASSUME NEW b \in Buf, NEW e \in {"ok", "err"}, Waited(b, e) PROVE Dma!Next
  <2>1. told' = [told EXCEPT !["thread"] = dma[b]]
    BY <1>1 DEF Waited
  <2>2. Dma!Report("thread", b)
    BY <1>1, <2>1 DEF Waited, Dma!Report
  <2> QED
    BY <2>2 DEF Dma!Next
<1>2. CASE WaitOk \/ WaitErr
  BY <1>1, <1>2, Basics DEF WaitOk, WaitErr, IInv
<1>3. CASE DrainOk \/ DrainErr
  <2>1. DrainBuf \in Buf
    BY <1>3, DrainOrder DEF DrainOk, DrainErr, Draining, IInv
  <2> QED
    BY <1>1, <1>3, <2>1 DEF DrainOk, DrainErr
<1>4. CASE PostOk
  <2>1. j \in Buf /\ dma[j] = "none"
    BY <1>4, Basics, AtHand DEF PostOk, IInv
  <2>2. Dma!Submit(j)
    BY <1>4, <2>1 DEF PostOk, Dma!Submit
  <2> QED
    BY <2>1, <2>2 DEF Dma!Next
<1>5. ASSUME NEW b \in Buf, Complete(b) PROVE Dma!Next
  <2>1. PICK e \in {"ok", "err"} : Dma!Finish(b, e)
    BY <1>5 DEF Complete, Dma!Finish
  <2> QED
    BY <2>1 DEF Dma!Next
<1>6. CASE dma' = dma /\ dma_ret' = dma_ret
  BY <1>6 DEF Dma!vars
<1> QED
  BY <1>2, <1>3, <1>4, <1>5, <1>6
     DEF Next, Step, Entry, Loop, Drain, NullBuffer, Pre, PreZero, PlainWrite, PlainFail,
         WriteFull, WriteShort, WriteFail, Copy, PostAgain, Last, DrainSkip, DrainWrite,
         DrainFail, ReturnResult, requests

\* A write implements DmaRequests on its handles, and returns with all its DMAs
\* collected, whatever it returns.
THEOREM UsesDmaCorrect == Spec => UsesDma
<1>1. Init => Dma!Init
  BY DEF Init, Dma!Init
<1>2. IInv /\ [Next \/ Finished]_vars => [Dma!Next]_(Dma!vars)
  <2>1. UNCHANGED vars => UNCHANGED Dma!vars
    BY DEF vars, Dma!vars
  <2> QED
    BY <2>1, DmaStep DEF Finished
<1>3. IInv => (pc = "done" => \A b \in Buf : dma[b] = "none")
  <2> SUFFICES ASSUME IInv, pc = "done", NEW b \in Buf PROVE dma[b] = "none"
    OBVIOUS
  <2>1. /\ Low \in Nat /\ Hi \in Nat /\ Hi <= Low + NParas /\ Cur = Low + NParas
        /\ Due = Cur
    BY Window DEF IInv
  <2>2. NParas \in Nat \ {0} /\ posted[b] \in Int
    BY Basics DEF IInv
  <2>3. posted[b] < Hi \/ posted[b] < Low
    BY <2>1, <2>2 DEF IInv, RingInv
  <2>4. ~(posted[b] >= Due)
    BY <2>1, <2>2, <2>3
  <2> QED
    BY <2>4 DEF IInv, DmaInv
<1> QED
  BY <1>1, <1>2, <1>3, Invariance, PTL DEF Spec, UsesDma, Dma!Spec
=============================================================================
