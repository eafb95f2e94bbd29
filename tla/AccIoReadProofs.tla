-------------------------- MODULE AccIoReadProofs --------------------------
(***************************************************************************)
(* Proofs about the accelerated reads (AccIoRead), for every number and    *)
(* size of buffers and every request: what a read returns is what it took  *)
(* from the file and gave to the caller, and its DMAs are collected.       *)
(***************************************************************************)
EXTENDS AccIoRead, AccIoProofs

-----------------------------------------------------------------------------
(* The inductive invariant behind the properties.                          *)

\* The chunks that buffers are posted for are Low .. Hi - 1.  Those before
\* Cur have been waited for.
Low == IF pc = "wait" THEN i - NParas ELSE IF i < NParas THEN 0 ELSE i - NParas + 1
Hi == IF posted[j] = i THEN i + 1 ELSE i
Cur == IF pc = "drain" THEN Low + k ELSE IF pc = "done" THEN Low + NParas ELSE Low

LoopInv ==
    /\ pc \in {"call", "plain"} =>
           /\ i = 0 /\ ofs = 0 /\ exit_result = 0
           /\ errno_bak = "0" /\ ~data_err
           /\ \A b \in Buf : posted[b] = NotPosted
    /\ i = 0 \/ i < Chunks(count)
    /\ pc \in {"wait", "read", "post"} => i < Chunks(count) /\ posted[j] # i
    /\ posted[j] = i => i < Chunks(count)
    /\ pc = "wait" => i >= NParas

\* Chunk c is posted in buffer c % NParas, and in no other.
RingInv ==
    /\ \A c \in Low .. Hi - 1 : posted[c % NParas] = c
    /\ \A b \in Buf :
           /\ posted[b] >= Low => posted[b] < Hi /\ posted[b] % NParas = b
           /\ posted[b] < Low => posted[b] = NotPosted \/ (pc \in {"read", "post"} /\ b = j)
    /\ pc = "drain" /\ Low < Hi => min_k = Low % NParas

\* A buffer has a DMA from when it is posted until it is waited for.
DmaInv == \A b \in Buf : dma[b] # "none" <=> posted[b] >= Cur

\* Only the last chunk may be short, and none is empty.
SizeInv ==
    /\ \A b \in Buf : posted[b] >= Low /\ posted[b] < i => read_out_size[b] = Paras
    /\ posted[j] = i \/ pc = "post" => read_out_size[j] \in 1 .. transfer_size

\* Buffer b holds chunk c of the file.
Holds(buffer, b, c) == \A u \in 1 .. read_out_size[b] : buffer[b][u] = Paras * c + u - 1
DataInv ==
    /\ \A b \in Buf : posted[b] >= Cur =>
           Holds(vh, b, posted[b]) /\ (dma[b] = "ok" => Holds(ve, b, posted[b]))
    /\ pc = "post" => Holds(vh, j, i)

\* What the system calls have read.
Taken == Paras * i + (IF posted[j] = i \/ pc = "post" THEN read_out_size[j] ELSE 0)
FileInv ==
    /\ ByArgument => fpos = 0
    /\ fpos <= file_size
    /\ pc # "done" /\ ~data_err /\ ~ByArgument => fpos = Taken
    /\ pc \in {"wait", "read", "post"} /\ ByArgument => ofs = Paras * i
    /\ pc \in {"last", "drain"} /\ errno_bak = "0" /\ Taken = 0 => count = 0 \/ file_size = 0

\* What the caller has got: nothing that was not read, and all that was once
\* the pipeline is drained.
Got == IF Cur > i THEN Taken ELSE Paras * Cur
ResultInv ==
    /\ next_iov \in Positions(call.iov)
    /\ data_err => /\ exit_result = -1 /\ errno_bak = "EIO"
                   /\ pc \in {"last", "drain", "done"}
    /\ pc # "done" /\ ~data_err /\ exit_result = -1 =>
           /\ pc \in {"last", "drain"} /\ errno_bak = "sys"
           /\ Hi = 0 /\ user = Delivered(call.iov, 0)
    /\ pc # "done" /\ exit_result # -1 =>
           /\ errno_bak = "0" /\ exit_result = Got
           /\ user = Delivered(call.iov, Got) /\ Place(call.iov, next_iov) = Got

IInv ==
    /\ TypeOK /\ LoopInv /\ RingInv /\ DmaInv /\ SizeInv /\ DataInv /\ FileInv
    /\ ResultInv /\ DeliveredExactly /\ SystemErrorIsClean

-----------------------------------------------------------------------------
(* The window of the chunks that are posted.                               *)

\* What the types say of the request and of the ring.
LEMMA Basics ==
    ASSUME TypeOK
    PROVE  /\ NParas \in Nat \ {0} /\ Paras \in Nat \ {0} /\ MaxCount \in Nat
           /\ i \in Nat /\ j \in Buf /\ j \in Int /\ Paras * i \in Nat
           /\ call.iov \in Vectors /\ count \in Nat /\ count <= MaxCount
           /\ \A b \in Buf : posted[b] \in Int /\ posted[b] >= -1
<1>1. NParas \in Nat \ {0} /\ Paras \in Nat \ {0} /\ MaxCount \in Nat
  BY SizesAssumption, Zenon
<1>2. i \in Nat /\ posted \in [Buf -> Nat \cup {NotPosted}]
  BY DEF TypeOK
<1>3. j \in 0 .. NParas - 1 /\ Paras * i \in Nat
  BY <1>1, <1>2 DEF j
<1>4. call.iov \in Vectors
  BY RequestVectors DEF TypeOK
<1>5. count \in Nat /\ count <= MaxCount
  BY <1>4, VectorsDef DEF count
<1>6. \A b \in Buf : posted[b] \in Int /\ posted[b] >= -1
  BY <1>2 DEF NotPosted
<1> QED
  BY <1>1, <1>2, <1>3, <1>4, <1>5, <1>6 DEF Buf

\* The window ends with the chunk at hand and is no longer than the ring.
LEMMA Window ==
    ASSUME TypeOK, LoopInv
    PROVE  /\ Low \in Nat /\ Hi \in Nat /\ Cur \in Nat /\ Low <= Cur
           /\ Low <= i /\ (Hi = i \/ Hi = i + 1) /\ Hi <= Low + NParas
           /\ Hi = i + 1 <=> posted[j] = i
           /\ pc = "wait" => Low = i - NParas
           /\ pc # "wait" => /\ i < NParas => Low = 0
                             /\ i >= NParas => Low = i - NParas + 1
           /\ pc \in {"wait", "read", "post"} => Hi = i
           /\ pc = "drain" => Cur = Low + k
           /\ pc = "done" => Cur = Low + NParas
           /\ pc \notin {"drain", "done"} => Cur = Low
<1>1. NParas \in Nat \ {0} /\ i \in Nat /\ k \in Nat
  BY Basics DEF TypeOK
<1>2. /\ pc = "wait" => Low = i - NParas
      /\ pc # "wait" => /\ i < NParas => Low = 0
                        /\ i >= NParas => Low = i - NParas + 1
  BY <1>1 DEF Low
<1>3. pc = "wait" => i >= NParas
  BY DEF LoopInv
<1>4. Low \in Nat /\ Low <= i /\ i <= Low + NParas /\ (pc # "wait" => i + 1 <= Low + NParas)
  BY <1>1, <1>2, <1>3
<1>5. (Hi = i \/ Hi = i + 1) /\ (Hi = i + 1 <=> posted[j] = i)
  BY <1>1 DEF Hi
<1>6. pc \in {"wait", "read", "post"} => Hi = i
  BY <1>5 DEF LoopInv
<1>7. /\ pc = "drain" => Cur = Low + k
      /\ pc = "done" => Cur = Low + NParas
      /\ pc \notin {"drain", "done"} => Cur = Low
  BY DEF Cur
<1>8. Hi <= Low + NParas /\ Hi \in Nat
  BY <1>1, <1>4, <1>5, <1>6
<1>9. Cur \in Nat /\ Low <= Cur
  BY <1>1, <1>4, <1>7
<1> QED
  BY <1>2, <1>4, <1>5, <1>6, <1>7, <1>8, <1>9

\* The buffer at hand: its chunk is the one to wait for, or it is free.
LEMMA AtHand ==
    ASSUME TypeOK, LoopInv, RingInv, DmaInv
    PROVE  /\ pc = "wait" => posted[j] = Low
           /\ pc \in {"read", "post"} => posted[j] < Low /\ dma[j] = "none"
<1>1. /\ NParas \in Nat \ {0} /\ i \in Nat /\ j \in Buf
      /\ \A b \in Buf : posted[b] \in Int
  BY Basics
<1>2. ASSUME pc = "wait" PROVE posted[j] = Low
  <2>1. Low \in Nat /\ Low = i - NParas /\ Hi = i
    BY <1>2, Window
  <2>2. Low \in Low .. Hi - 1 /\ Low + NParas = i
    BY <1>1, <2>1
  <2>3. Low % NParas = j
    <3>1. (Low + NParas) % NParas = Low % NParas
      <4>1. NParas \in Nat \ {0} /\ Low \in Int
        BY <1>1, <2>1
      <4> QED
        BY <4>1, RingStep, Zenon
    <3> QED
      BY <2>2, <3>1 DEF j
  <2> QED
    BY <2>2, <2>3 DEF RingInv
<1>3. ASSUME pc \in {"read", "post"} PROVE posted[j] < Low
  <2>1. Low \in Nat /\ Hi = i /\ i < Low + NParas
    <3>1. pc # "wait" /\ pc \in {"wait", "read", "post"}
      BY <1>3
    <3>2. /\ Low \in Nat /\ Hi = i
          /\ i < NParas => Low = 0
          /\ i >= NParas => Low = i - NParas + 1
      BY <3>1, Window
    <3> QED
      BY <1>1, <3>2
  <2>2. SUFFICES ASSUME posted[j] >= Low PROVE FALSE
    BY <1>1, <2>1
  <2>3. posted[j] < i /\ posted[j] % NParas = i % NParas
    BY <1>1, <2>1, <2>2 DEF RingInv, j
  <2>4. posted[j] <= i /\ i < posted[j] + NParas
    BY <1>1, <2>1, <2>2, <2>3
  <2>5. posted[j] = i
    BY <1>1, <2>3, <2>4, RingDistinct
  <2> QED
    BY <1>1, <2>3, <2>5
<1>4. ASSUME pc \in {"read", "post"} PROVE dma[j] = "none"
  <2>1. Cur = Low /\ Low \in Nat
    BY <1>4, Window
  <2>2. ~(posted[j] >= Cur)
    BY <1>1, <1>3, <1>4, <2>1
  <2> QED
    BY <1>1, <2>2 DEF DmaInv
<1> QED
  BY <1>2, <1>3, <1>4

\* The draining loop meets the chunks in their order.
LEMMA DrainOrder ==
    ASSUME TypeOK, LoopInv, RingInv, DmaInv, pc = "drain", k < NParas
    PROVE  /\ DrainBuf \in Buf
           /\ posted[DrainBuf] # NotPosted => posted[DrainBuf] = Cur /\ Cur < Hi
           /\ posted[DrainBuf] = NotPosted => \A b \in Buf : posted[b] # Cur
<1>1. /\ NParas \in Nat \ {0} /\ i \in Nat
      /\ \A b \in Buf : posted[b] \in Int /\ posted[b] >= -1
  BY Basics
<1>2. k \in 0 .. NParas - 1 /\ min_k \in Buf /\ min_k \in Int
  BY <1>1 DEF TypeOK, Buf
<1>3. /\ Low \in Nat /\ Hi \in Nat /\ Hi <= Low + NParas /\ Cur = Low + k
  BY Window
<1>4. DrainBuf \in Buf
  BY <1>1, <1>2 DEF DrainBuf, Buf
<1>5. ASSUME Low < Hi PROVE DrainBuf = Cur % NParas
  <2>1. min_k = Low % NParas
    BY <1>5 DEF RingInv
  <2>2. ((Low % NParas) + k) % NParas = (Low + k) % NParas
    <3>1. NParas \in Nat \ {0} /\ Low \in Int /\ k \in Int
      BY <1>1, <1>2, <1>3
    <3> QED
      BY <3>1, RingSum, Zenon
  <2> QED
    BY <1>3, <2>1, <2>2 DEF DrainBuf
<1>6. ASSUME NEW b \in Buf, posted[b] # NotPosted
      PROVE  posted[b] \in Low .. Hi - 1 /\ posted[b] % NParas = b
  BY <1>1, <1>3, <1>6 DEF RingInv
<1>7. ASSUME posted[DrainBuf] # NotPosted PROVE posted[DrainBuf] = Cur /\ Cur < Hi
  <2>1. PICK p \in Low .. Hi - 1 : p = posted[DrainBuf]
    BY <1>4, <1>6, <1>7
  <2>2. p % NParas = Cur % NParas
    BY <1>3, <1>4, <1>5, <1>6, <1>7, <2>1
  <2>3. p < Cur + NParas /\ Cur < p + NParas
    BY <1>1, <1>2, <1>3
  <2>4. p = Cur
    <3>1. NParas \in Nat \ {0} /\ p \in Int /\ Cur \in Int
      BY <1>1, <1>2, <1>3
    <3>2. CASE p <= Cur
      BY <2>2, <2>3, <3>1, <3>2, RingDistinct
    <3>3. CASE Cur <= p
      BY <2>2, <2>3, <3>1, <3>3, RingDistinct
    <3> QED
      BY <3>1, <3>2, <3>3
  <2> QED
    BY <1>3, <2>1, <2>4
<1>8. ASSUME posted[DrainBuf] = NotPosted, NEW b \in Buf PROVE posted[b] # Cur
  <2> SUFFICES ASSUME posted[b] = Cur PROVE FALSE
    OBVIOUS
  <2>1. Cur \in Low .. Hi - 1
    BY <1>2, <1>3, <1>6 DEF NotPosted
  <2>2. posted[Cur % NParas] = Cur /\ DrainBuf = Cur % NParas
    BY <1>3, <1>5, <2>1 DEF RingInv
  <2> QED
    BY <1>2, <1>3, <1>8, <2>2 DEF NotPosted
<1> QED
  BY <1>4, <1>7, <1>8

-----------------------------------------------------------------------------
(* One lemma per step or group of steps: it preserves the invariant.  What *)
(* concerns the types and the result is proved apart.                      *)

Core == LoopInv /\ RingInv /\ DmaInv /\ SizeInv /\ DataInv /\ FileInv /\ ResultInv

\* Before the pipeline is entered.
LEMMA Idle ==
    ASSUME TypeOK, Core, pc \in {"call", "plain"}
    PROVE  /\ i = 0 /\ Low = 0 /\ Hi = 0 /\ Cur = 0 /\ Got = 0 /\ Taken = 0
           /\ fpos = 0 /\ ofs = 0 /\ FilePosition = 0
           /\ \A b \in Buf : posted[b] = -1 /\ dma[b] = "none"
           /\ user = Delivered(call.iov, 0) /\ Place(call.iov, next_iov) = 0
<1>1. /\ i = 0 /\ ofs = 0 /\ exit_result = 0 /\ ~data_err
      /\ \A b \in Buf : posted[b] = -1
  BY DEF Core, LoopInv, NotPosted
<1>2. NParas \in Nat \ {0} /\ Paras \in Nat \ {0} /\ j \in Buf
  BY Basics
<1>3. Low = 0 /\ Hi = 0 /\ Cur = 0
  BY <1>1, <1>2, Window DEF Core
<1>4. Got = 0 /\ Taken = 0
  BY <1>1, <1>2, <1>3 DEF Got, Taken
<1>5. fpos = 0
  BY <1>1, <1>4 DEF Core, FileInv
<1>6. FilePosition = 0
  BY <1>1, <1>5 DEF FilePosition
<1>7. \A b \in Buf : dma[b] = "none"
  BY <1>1, <1>3 DEF Core, DmaInv
<1>8. user = Delivered(call.iov, 0) /\ Place(call.iov, next_iov) = 0
  BY <1>1, <1>4 DEF Core, ResultInv
<1> QED
  BY <1>1, <1>3, <1>4, <1>5, <1>6, <1>7, <1>8

\* The entry, up to the pipeline or to the plain system call.
LEMMA EntryStep ==
    ASSUME TypeOK, Core, Entry
    PROVE  Core' /\ DeliveredExactly' /\ SystemErrorIsClean'
<1>1. pc \in {"call", "plain"}
  BY DEF Entry, NullBuffer, Pre, PreZero, PlainRead, PlainFail
<1>2. /\ i = 0 /\ Low = 0 /\ Hi = 0 /\ Cur = 0 /\ Got = 0 /\ Taken = 0
      /\ fpos = 0 /\ ofs = 0 /\ FilePosition = 0
      /\ \A b \in Buf : posted[b] = -1 /\ dma[b] = "none"
      /\ user = Delivered(call.iov, 0) /\ Place(call.iov, next_iov) = 0
  BY <1>1, Idle
<1>3. /\ NParas \in Nat \ {0} /\ Paras \in Nat \ {0} /\ j \in Buf
      /\ count \in Nat /\ file_size \in Nat
  BY Basics DEF TypeOK
<1>4. /\ call' = call /\ file_size' = file_size /\ i' = i /\ ofs' = ofs /\ posted' = posted
      /\ dma' = dma /\ data_err' = data_err /\ next_iov' = next_iov
      /\ read_out_size' = read_out_size /\ vh' = vh /\ ve' = ve
  BY DEF Entry, NullBuffer, Pre, PreZero, PlainRead, PlainFail, args, file, loop,
         memory, outcome, transfer
<1>5. j' = j /\ count' = count /\ ByArgument' = ByArgument
  BY <1>4 DEF j, count, ByArgument
<1>6. /\ ~data_err /\ errno_bak = "0" /\ exit_result = 0
      /\ next_iov \in Positions(call.iov)
  BY <1>1 DEF Core, LoopInv, ResultInv
<1>7. \/ pc' = "done"
      \/ /\ pc' = "plain" \/ (pc' = "read" /\ count # 0) \/ (pc' = "last" /\ count = 0)
         /\ UNCHANGED <<fpos, user, exit_result, errno_bak>>
  BY DEF Entry, NullBuffer, Pre, PreZero, PlainRead, PlainFail, args, file, loop,
         memory, outcome, transfer
<1>8. Low' = 0 /\ Hi' = 0 /\ (pc' # "done" => Cur' = 0) /\ Cur' \in Nat
  <2>1. pc' \notin {"wait", "drain"}
    BY <1>7
  <2>2. Low' = 0
    BY <1>2, <1>3, <1>4, <2>1 DEF Low
  <2>3. Hi' = 0
    BY <1>2, <1>3, <1>4, <1>5 DEF Hi
  <2> QED
    BY <1>3, <2>1, <2>2, <2>3 DEF Cur
<1>9. pc' # "done" => Got' = 0 /\ Taken' = 0
  BY <1>2, <1>3, <1>4, <1>5, <1>7, <1>8 DEF Got, Taken
<1>10. LoopInv'
  <2>1. pc' = "read" => i < Chunks(count)
    BY <1>2, <1>3, <1>7, SomeChunks
  <2>2. posted[j] # i
    BY <1>2, <1>3
  <2> QED
    BY <1>1, <1>2, <1>4, <1>5, <1>6, <1>7, <2>1, <2>2 DEF LoopInv, NotPosted
<1>11. RingInv' /\ DmaInv' /\ SizeInv' /\ DataInv'
  <2>1. \A b \in Buf : posted'[b] = -1 /\ dma'[b] = "none"
    BY <1>2, <1>4
  <2>2. \A b \in Buf : ~(posted'[b] >= Low') /\ ~(posted'[b] >= Cur') /\ posted'[b] = NotPosted
    BY <1>8, <2>1 DEF NotPosted
  <2>3. \A c \in Low' .. Hi' - 1 : FALSE
    BY <1>8
  <2>4. posted'[j'] # i' /\ pc' # "post" /\ pc' # "drain"
    BY <1>2, <1>3, <1>4, <1>5, <1>7
  <2>5. RingInv'
    BY <2>2, <2>3, <2>4 DEF RingInv
  <2>6. DmaInv'
    BY <2>1, <2>2 DEF DmaInv
  <2>7. SizeInv'
    BY <2>2, <2>4 DEF SizeInv
  <2>8. DataInv'
    BY <2>2, <2>4 DEF DataInv
  <2> QED
    BY <2>5, <2>6, <2>7, <2>8
<1>12. FileInv' /\ DeliveredExactly' /\ SystemErrorIsClean'
  <2>1. CASE pc' = "done"
    <3>1. CASE PlainRead
      <4>1. PICK n \in IF count = 0 THEN {0} ELSE Readable(count) :
                user' = Delivered(call.iov, n) /\ exit_result' = n /\ Advance(n)
        BY <3>1 DEF PlainRead
      <4>2. n \in Nat /\ n <= count /\ n <= file_size /\ (n = 0 => count = 0 \/ file_size = 0)
        BY <1>2, <1>3, <4>1 DEF Readable
      <4>3. (ByArgument => fpos' = 0) /\ (~ByArgument => fpos' = n)
        BY <1>2, <4>1, <4>2 DEF Advance
      <4> QED
        BY <1>3, <1>4, <1>5, <2>1, <4>1, <4>2, <4>3 DEF FileInv, DeliveredExactly, SystemErrorIsClean
    <3>2. CASE NullBuffer \/ PlainFail
      <4>1. exit_result' = -1 /\ errno_bak' \in {"EFAULT", "sys"} /\ user' = user /\ fpos' = fpos
        BY <3>2 DEF NullBuffer, PlainFail, file, memory
      <4> QED
        BY <1>2, <1>3, <1>4, <1>5, <2>1, <4>1 DEF FileInv, DeliveredExactly, SystemErrorIsClean
    <3> QED
      BY <2>1, <3>1, <3>2 DEF Entry, Pre, PreZero
  <2>2. CASE pc' # "done"
    <3>1. /\ fpos' = 0 /\ (pc' = "last" => count = 0) /\ pc' # "drain"
          /\ Taken' = 0 /\ (pc' = "read" => ofs' = Paras * i')
      BY <1>2, <1>3, <1>4, <1>7, <1>9, <2>2
    <3>2. pc' \notin {"wait", "post"}
      BY <1>7
    <3>3. FileInv'
      BY <1>3, <1>4, <1>5, <3>1, <3>2 DEF FileInv
    <3> QED
      BY <2>2, <3>3 DEF DeliveredExactly, SystemErrorIsClean
  <2> QED
    BY <2>1, <2>2
<1>13. ResultInv'
  BY <1>2, <1>4, <1>6, <1>7, <1>8, <1>9 DEF ResultInv
<1> QED
  BY <1>10, <1>11, <1>12, <1>13 DEF Core

\* The engine completes a DMA: the thread sees nothing of it but the data.
LEMMA CompleteStep ==
    ASSUME TypeOK, Core, DeliveredExactly, SystemErrorIsClean, NEW b \in Buf, Complete(b)
    PROVE  Core' /\ DeliveredExactly' /\ SystemErrorIsClean'
<1>1. /\ call' = call /\ file_size' = file_size /\ fpos' = fpos /\ user' = user
      /\ pc' = pc /\ i' = i /\ k' = k /\ min_k' = min_k /\ posted' = posted
      /\ read_out_size' = read_out_size /\ ofs' = ofs /\ next_iov' = next_iov
      /\ exit_result' = exit_result /\ errno_bak' = errno_bak /\ data_err' = data_err
      /\ vh' = vh
  BY DEF Complete, args, file, loop, memory, outcome
<1>2. /\ j' = j /\ count' = count /\ ByArgument' = ByArgument /\ Low' = Low /\ Hi' = Hi
      /\ Cur' = Cur /\ Taken' = Taken /\ Got' = Got /\ transfer_size' = transfer_size
  BY <1>1 DEF j, count, ByArgument, Low, Hi, Cur, Taken, Got, transfer_size
<1>3. LoopInv' /\ RingInv' /\ SizeInv'
  BY <1>1, <1>2 DEF Core, LoopInv, RingInv, SizeInv
<1>4. FileInv' /\ ResultInv' /\ DeliveredExactly' /\ SystemErrorIsClean'
  BY <1>1, <1>2 DEF Core, FileInv, ResultInv, DeliveredExactly, SystemErrorIsClean
<1>5. DmaInv'
  <2>1. \A c \in Buf : dma'[c] # "none" <=> dma[c] # "none"
    BY DEF Complete, TypeOK
  <2> QED
    BY <1>1, <1>2, <2>1 DEF Core, DmaInv
<1>6. DataInv'
  <2>1. ASSUME NEW c \in Buf, posted[c] >= Cur
        PROVE  Holds(vh, c, posted[c])' /\ (dma'[c] = "ok" => Holds(ve, c, posted[c])')
    <3>1. Holds(vh, c, posted[c]) /\ (dma[c] = "ok" => Holds(ve, c, posted[c]))
      BY <2>1 DEF Core, DataInv
    <3>2. Holds(vh, c, posted[c])'
      BY <1>1, <3>1 DEF Holds
    <3>3. ASSUME dma'[c] = "ok" PROVE Holds(ve, c, posted[c])'
      <4>1. CASE c = b
        <5>1. ve'[b] = vh[b]
          BY <3>3, <4>1 DEF Complete, TypeOK
        <5> QED
          BY <1>1, <3>1, <4>1, <5>1 DEF Holds
      <4>2. CASE c # b
        <5>1. dma'[c] = dma[c] /\ ve'[c] = ve[c]
          BY <4>2 DEF Complete, TypeOK
        <5> QED
          BY <1>1, <3>1, <3>3, <5>1 DEF Holds
      <4> QED
        BY <4>1, <4>2
    <3> QED
      BY <3>2, <3>3
  <2>2. pc' = "post" => Holds(vh, j, i)'
    BY <1>1, <1>2 DEF Core, DataInv, Holds
  <2> QED
    BY <1>1, <1>2, <2>1, <2>2 DEF DataInv
<1> QED
  BY <1>3, <1>4, <1>5, <1>6 DEF Core

\* What the system call has read is in the VH buffer, and goes to the next
\* position of the file.
LEMMA SysReadStep ==
    ASSUME TypeOK, Core, SysRead
    PROVE  Core' /\ DeliveredExactly' /\ SystemErrorIsClean'
<1>1. /\ call' = call /\ file_size' = file_size /\ user' = user
      /\ pc = "read" /\ pc' = "post" /\ i' = i /\ k' = k /\ min_k' = min_k /\ posted' = posted
      /\ ofs' = ofs /\ next_iov' = next_iov
      /\ exit_result' = exit_result /\ errno_bak' = errno_bak /\ data_err' = data_err
      /\ dma' = dma /\ ve' = ve
  BY DEF SysRead, args, loop, memory, outcome
<1>2. PICK n \in Readable(transfer_size) \ {0} :
          /\ vh' = [vh EXCEPT ![j] =
                       [u \in 1 .. Paras |-> IF u <= n THEN FilePosition + u - 1 ELSE @[u]]]
          /\ read_out_size' = [read_out_size EXCEPT ![j] = n]
          /\ Advance(n)
  BY DEF SysRead
<1>3. /\ NParas \in Nat \ {0} /\ Paras \in Nat \ {0} /\ j \in Buf /\ i \in Nat
      /\ count \in Nat /\ file_size \in Nat /\ fpos \in Nat /\ Paras * i \in Nat
      /\ \A b \in Buf : posted[b] \in Int
  BY Basics DEF TypeOK
<1>4. transfer_size \in 1 .. Paras
  BY <1>1, <1>3, ChunkSizes DEF Core, LoopInv, transfer_size
<1>5. FilePosition = Paras * i
  <2>1. posted[j] # i /\ ~data_err
    BY <1>1 DEF Core, LoopInv, ResultInv
  <2> QED
    BY <1>1, <1>3, <2>1 DEF Core, FileInv, Taken, FilePosition
<1>6. n \in 1 .. transfer_size /\ n \in 1 .. Paras /\ Paras * i + n <= file_size
  BY <1>2, <1>3, <1>4, <1>5 DEF Readable
<1>7. /\ j' = j /\ count' = count /\ ByArgument' = ByArgument /\ Low' = Low /\ Hi' = Hi
      /\ Cur' = Cur /\ Got' = Got /\ transfer_size' = transfer_size
  <2>1. j' = j /\ count' = count /\ ByArgument' = ByArgument /\ Low' = Low /\ Hi' = Hi
        /\ Cur' = Cur /\ transfer_size' = transfer_size
    BY <1>1 DEF j, count, ByArgument, Low, Hi, Cur, transfer_size
  <2>2. Cur <= i
    BY <1>1, Window DEF Core
  <2>3. Got = Paras * Cur /\ Got' = Paras * Cur
    BY <1>1, <1>3, <2>1, <2>2, Window DEF Got, Core
  <2> QED
    BY <2>1, <2>3
<1>8. read_out_size'[j] = n /\ \A b \in Buf : b # j => read_out_size'[b] = read_out_size[b]
  BY <1>2, <1>3 DEF TypeOK
<1>9. posted[j] < Low /\ dma[j] = "none" /\ Cur = Low /\ Low \in Nat
  BY <1>1, AtHand, Window DEF Core
<1>10. LoopInv' /\ RingInv' /\ DmaInv' /\ ResultInv'
  BY <1>1, <1>7 DEF Core, LoopInv, RingInv, DmaInv, ResultInv
<1>11. SizeInv'
  <2>1. \A b \in Buf : posted[b] >= Low => b # j
    BY <1>3, <1>9
  <2> QED
    BY <1>1, <1>6, <1>7, <1>8, <2>1 DEF Core, SizeInv
<1>12. DataInv'
  <2>1. ASSUME NEW b \in Buf, posted[b] >= Cur
        PROVE  Holds(vh, b, posted[b])' /\ (dma[b] = "ok" => Holds(ve, b, posted[b])')
    <3>1. b # j
      BY <1>3, <1>9, <2>1
    <3>2. vh'[b] = vh[b] /\ read_out_size'[b] = read_out_size[b]
      BY <1>2, <1>8, <3>1 DEF TypeOK
    <3>3. Holds(vh, b, posted[b]) /\ (dma[b] = "ok" => Holds(ve, b, posted[b]))
      BY <2>1 DEF Core, DataInv
    <3> QED
      BY <1>1, <3>2, <3>3 DEF Holds
  <2>2. Holds(vh, j, i)'
    <3>1. ASSUME NEW u \in 1 .. n PROVE vh'[j][u] = Paras * i + u - 1
      <4>1. vh'[j] = [w \in 1 .. Paras |-> IF w <= n THEN FilePosition + w - 1 ELSE vh[j][w]]
        BY <1>2, <1>3 DEF TypeOK
      <4>2. u \in 1 .. Paras /\ u <= n
        BY <1>3, <1>6, <3>1
      <4>3. vh'[j][u] = FilePosition + u - 1
        BY <4>1, <4>2
      <4> QED
        BY <1>5, <4>3
    <3> QED
      BY <1>1, <1>7, <1>8, <3>1 DEF Holds
  <2> QED
    BY <1>1, <1>7, <2>1, <2>2 DEF DataInv
<1>13. FileInv'
  <2>1. Taken' = Paras * i + n
    BY <1>1, <1>7, <1>8 DEF Taken
  <2>2. (ByArgument => fpos' = fpos) /\ (~ByArgument => fpos' = Paras * i + n)
    BY <1>2, <1>5 DEF Advance, FilePosition
  <2>3. ByArgument => fpos = 0 /\ ofs = Paras * i
    BY <1>1 DEF Core, FileInv
  <2> QED
    BY <1>1, <1>3, <1>6, <1>7, <2>1, <2>2, <2>3 DEF FileInv
<1> QED
  BY <1>1, <1>10, <1>11, <1>12, <1>13 DEF Core, DeliveredExactly, SystemErrorIsClean

\* What the caller has got once the chunk at Cur is delivered too.
GotNext == IF Cur = i THEN Paras * i + read_out_size[j] ELSE Paras * (Cur + 1)

\* To deliver the oldest chunk is to deliver the next units, within the count.
LEMMA DeliverNext ==
    ASSUME TypeOK, Core, pc \in {"wait", "drain"}, ~data_err,
           NEW b \in Buf, posted[b] = Cur, Cur < Hi, dma[b] = "ok",
           Deliver(b)
    PROVE  /\ GotNext \in Nat /\ GotNext <= count /\ exit_result' = GotNext
           /\ user' = Delivered(call.iov, GotNext)
           /\ next_iov' \in Positions(call.iov)
           /\ Place(call.iov, next_iov') = GotNext
<1>1. /\ NParas \in Nat \ {0} /\ Paras \in Nat \ {0} /\ j \in Buf /\ i \in Nat
      /\ count \in Nat /\ call.iov \in Vectors /\ Paras * i \in Nat
  BY Basics
<1>2. /\ Low \in Nat /\ Hi \in Nat /\ Cur \in Nat /\ Low <= Cur /\ Cur <= i
      /\ Hi = i + 1 <=> posted[j] = i
      /\ Hi = i \/ Hi = i + 1
  BY <1>1, Window DEF Core
<1>3. exit_result # -1
  BY <1>2 DEF Core, ResultInv
<1>4. PICK d \in Nat : d = Paras * Cur
  BY <1>1, <1>2
<1>5. Got = d
  BY <1>1, <1>2, <1>4 DEF Got
<1>6. /\ exit_result = d /\ user = Delivered(call.iov, d) /\ next_iov \in Positions(call.iov)
      /\ Place(call.iov, next_iov) = d
  BY <1>3, <1>5 DEF Core, ResultInv
<1>7. Holds(ve, b, Cur)
  BY <1>2 DEF Core, DataInv
<1>8. PICK s \in Nat : s = read_out_size[b] /\ GotNext = d + s /\ d + s <= count
  <2>1. CASE Cur < i
    <3>1. read_out_size[b] = Paras
      BY <1>2, <2>1 DEF Core, SizeInv
    <3>2. Paras * (Cur + 1) = d + Paras
      BY <1>1, <1>2, <1>4
    <3>3. Paras * (Cur + 1) <= Paras * i
      BY <1>1, <1>2, <2>1
    <3>4. i < Chunks(count)
      BY <1>1, <1>2, <2>1 DEF Core, LoopInv
    <3>5. PICK t \in Nat : t = ChunkSize(count, i)
      BY <1>1, <3>4, ChunkSizes
    <3>6. Paras * i + t <= count
      BY <1>1, <3>4, <3>5, ChunkSizes
    <3>7. d + Paras <= count
      BY <1>1, <1>4, <3>2, <3>3, <3>5, <3>6
    <3>8. GotNext = d + Paras
      BY <1>1, <1>2, <2>1, <3>2 DEF GotNext
    <3> QED
      BY <1>1, <3>1, <3>7, <3>8
  <2>2. CASE Cur = i
    <3>1. Hi = i + 1 /\ posted[j] = i
      BY <1>2, <2>2
    <3>2. b = j
      <4>1. posted[b] % NParas = b
        BY <1>2 DEF Core, RingInv
      <4> QED
        BY <2>2, <4>1 DEF j
    <3>3. i < Chunks(count)
      BY <3>1 DEF Core, LoopInv
    <3>4. PICK t \in 1 .. Paras : t = transfer_size /\ Paras * i + t <= count
      BY <1>1, <3>3, ChunkSizes DEF transfer_size
    <3>5. PICK s \in 1 .. t : s = read_out_size[j]
      BY <3>1, <3>4 DEF Core, SizeInv
    <3>6. GotNext = d + s /\ d + s <= count
      BY <1>1, <1>4, <2>2, <3>4, <3>5 DEF GotNext
    <3> QED
      BY <3>2, <3>5, <3>6
  <2>3. Cur < i \/ Cur = i
    BY <1>1, <1>2
  <2> QED
    BY <2>1, <2>2, <2>3, Zenon
<1>9. user' = Delivered(call.iov, d + s)
  <2>1. \A u \in 1 .. s : ve[b][u] = d + u - 1
    BY <1>4, <1>7, <1>8 DEF Holds
  <2>2. user' = ScatteredInto(Delivered(call.iov, d), call.iov, next_iov, s, ve[b])
    BY <1>6, <1>8, Zenon DEF Deliver, Scattered, ScatteredInto
  <2>3. ScatteredInto(Delivered(call.iov, d), call.iov, next_iov, s, ve[b])
        = Delivered(call.iov, d + s)
    BY <1>1, <1>6, <2>1, Scatter
  <2> QED
    BY <2>2, <2>3
<1>10. /\ next_iov' \in Positions(call.iov)
       /\ Place(call.iov, next_iov') = d + s
  <2>1. next_iov' = NextPosition(call.iov, next_iov, s)
    BY <1>8 DEF Deliver
  <2>2. d + s <= Total(call.iov)
    BY <1>8 DEF count
  <2> QED
    BY <1>1, <1>6, <2>1, <2>2, NextPositionSpec
<1>11. exit_result' = d + s
  BY <1>6, <1>8 DEF Deliver
<1> QED
  BY <1>8, <1>9, <1>10, <1>11

\* The buffer at hand is given up, or waited for: the others are as before.
LEMMA OthersKept ==
    ASSUME TypeOK, Core, pc \in {"wait", "read", "post"}, pc' \in {"read", "last"},
           call' = call, i' = i, vh' = vh, ve' = ve,
           Low' \in {Low, Low + 1}, posted'[j] < Low', posted'[j] \in Int, dma'[j] = "none",
           \A b \in Buf : b # j =>
               /\ posted'[b] = posted[b] /\ dma'[b] = dma[b]
               /\ read_out_size'[b] = read_out_size[b]
               /\ posted[b] >= Low => posted[b] >= Low',
           posted'[j] = NotPosted \/ pc' = "read"
    PROVE  /\ LoopInv' /\ RingInv' /\ DmaInv' /\ SizeInv' /\ DataInv'
           /\ Hi' = i /\ Cur' = Low' /\ j' = j /\ count' = count /\ posted'[j'] # i'
<1>1. /\ NParas \in Nat \ {0} /\ Paras \in Nat \ {0} /\ j \in Buf /\ i \in Nat
      /\ count \in Nat /\ Low \in Nat /\ Hi = i /\ Low <= i
      /\ \A b \in Buf : posted[b] \in Int
  BY Basics, Window DEF Core
<1>2. j' = j /\ count' = count /\ transfer_size' = transfer_size
  BY DEF j, count, transfer_size
<1>3. pc \in {"read", "post"} => i < Low + NParas
  <2>1. pc \in {"read", "post"} => /\ i < NParas => Low = 0
                                   /\ i >= NParas => Low = i - NParas + 1
    BY Window DEF Core
  <2> QED
    BY <1>1, <2>1
<1>4. Low <= Low' /\ Low' \in Nat /\ posted'[j] # i
  <2>1. Low < i \/ Low' = Low \/ i < Low'
    BY <1>1
  <2>2. posted'[j] = NotPosted => posted'[j] # i
    BY <1>1 DEF NotPosted
  <2>3. ASSUME pc' = "read" PROVE Low' <= i
    BY <2>3, <1>1, <1>2 DEF Low
  <2>4. pc' = "read" => posted'[j] < i
    BY <1>1, <2>3
  <2> QED
    BY <1>1, <2>2, <2>4
<1>5. Hi' = i /\ Cur' = Low'
  BY <1>2, <1>4 DEF Hi, Cur
<1>6. ASSUME NEW b \in Buf, posted'[b] >= Low'
      PROVE  b # j /\ posted'[b] = posted[b] /\ posted[b] >= Low
  BY <1>1, <1>4, <1>6
<1>7. RingInv'
  <2>1. ASSUME NEW c \in Low' .. Hi' - 1 PROVE posted'[c % NParas] = c
    <3>1. c \in Low .. Hi - 1 /\ c >= Low'
      BY <1>1, <1>4, <1>5
    <3>2. PICK b \in Buf : b = c % NParas
      BY <1>1, <1>4, <3>1 DEF Buf
    <3>3. posted[b] = c
      BY <3>1, <3>2 DEF Core, RingInv
    <3>4. CASE b # j
      BY <3>2, <3>3, <3>4
\* Chunk c would have been in the buffer at hand.
    <3>5. CASE b = j
      <4>1. posted[j] >= Low' /\ posted[j] >= Low
        BY <1>1, <1>4, <3>1, <3>3, <3>5
      <4>2. CASE pc \in {"read", "post"}
        BY <1>1, <4>1, <4>2, AtHand DEF Core
      <4>3. CASE pc = "wait"
        <5>1. posted[j] = Low
          BY <4>3, AtHand DEF Core
        <5>2. Low' = i - NParas + 1 /\ Low = i - NParas
          <6>1. i >= NParas /\ pc' # "wait"
            BY <4>3 DEF Core, LoopInv
          <6> QED
            BY <1>1, <4>3, <6>1 DEF Low
        <5> QED
          BY <1>1, <4>1, <5>1, <5>2
      <4> QED
        BY <4>2, <4>3
    <3> QED
      BY <3>4, <3>5
  <2>2. ASSUME NEW b \in Buf, posted'[b] >= Low' PROVE posted'[b] < Hi' /\ posted'[b] % NParas = b
    BY <1>1, <1>5, <1>6, <2>2 DEF Core, RingInv
  <2>3. ASSUME NEW b \in Buf, posted'[b] < Low'
        PROVE  posted'[b] = NotPosted \/ (pc' \in {"read", "post"} /\ b = j)
    <3>1. CASE b = j
      BY <3>1
    <3>2. CASE b # j
      <4>1. posted'[b] = posted[b] /\ ~(posted[b] >= Low)
        BY <1>1, <1>4, <2>3, <3>2
      <4> QED
        BY <1>1, <3>2, <4>1 DEF Core, RingInv
    <3> QED
      BY <3>1, <3>2
  <2> QED
    BY <1>2, <2>1, <2>2, <2>3 DEF RingInv
<1>8. DmaInv'
  <2>1. ASSUME NEW b \in Buf PROVE dma'[b] # "none" <=> posted'[b] >= Cur'
    <3>1. CASE b = j
      BY <1>4, <1>5, <3>1
    <3>2. CASE b # j
      <4>1. dma[b] # "none" <=> posted[b] >= Low
        BY Window DEF Core, DmaInv
      <4> QED
        BY <1>1, <1>4, <1>5, <3>2, <4>1
    <3> QED
      BY <3>1, <3>2
  <2> QED
    BY <2>1 DEF DmaInv
<1>9. SizeInv'
  BY <1>2, <1>4, <1>6 DEF Core, SizeInv
<1>10. DataInv'
  <2>1. ASSUME NEW b \in Buf, posted'[b] >= Cur'
        PROVE  Holds(vh, b, posted[b])' /\ (dma'[b] = "ok" => Holds(ve, b, posted[b])')
    <3>1. b # j /\ posted'[b] = posted[b] /\ posted[b] >= Cur
      BY <1>5, <1>6, <2>1, Window DEF Core
    <3>2. Holds(vh, b, posted[b]) /\ (dma[b] = "ok" => Holds(ve, b, posted[b]))
      BY <3>1 DEF Core, DataInv
    <3> QED
      BY <3>1, <3>2 DEF Holds
  <2> QED
    BY <2>1 DEF DataInv
<1>11. LoopInv'
  BY <1>2, <1>4 DEF Core, LoopInv
<1> QED
  BY <1>2, <1>4, <1>5, <1>7, <1>8, <1>9, <1>10, <1>11

\* A system call that reads nothing, or a DMA that cannot be posted.
LEMMA StopStep ==
    ASSUME TypeOK, Core, SysEof \/ SysFail \/ PostAgain
    PROVE  Core' /\ DeliveredExactly' /\ SystemErrorIsClean'
<1>1. /\ pc \in {"read", "post"} /\ pc' = "last"
      /\ call' = call /\ file_size' = file_size /\ fpos' = fpos /\ user' = user
      /\ i' = i /\ next_iov' = next_iov
      /\ posted' = [posted EXCEPT ![j] = NotPosted] /\ dma' = dma
      /\ vh' = vh /\ ve' = ve
  BY DEF SysEof, SysFail, PostAgain, args, file, loop, memory, outcome, transfer
<1>2. \A b \in Buf : b # j => read_out_size'[b] = read_out_size[b]
  BY DEF SysEof, SysFail, PostAgain, TypeOK
<1>3. /\ NParas \in Nat \ {0} /\ Paras \in Nat \ {0} /\ j \in Buf /\ i \in Nat
      /\ count \in Nat /\ file_size \in Nat /\ fpos \in Nat /\ Paras * i \in Nat
  BY Basics DEF TypeOK
<1>4. Low' = Low /\ Low \in Nat /\ Hi = i /\ Cur = Low /\ Low <= i
  BY <1>1, Window DEF Low, Core
<1>5. posted'[j] = -1 /\ \A b \in Buf : b # j => posted'[b] = posted[b]
  BY <1>1, <1>3 DEF TypeOK, NotPosted
<1>6. dma[j] = "none"
  BY <1>1, AtHand DEF Core
<1>7. /\ LoopInv' /\ RingInv' /\ DmaInv' /\ SizeInv' /\ DataInv'
      /\ Hi' = i /\ Cur' = Low' /\ j' = j /\ count' = count /\ posted'[j'] # i'
  BY <1>1, <1>2, <1>4, <1>5, <1>6, OthersKept DEF NotPosted
<1>8. ByArgument' = ByArgument /\ Taken' = Paras * i
  BY <1>1, <1>3, <1>7 DEF ByArgument, Taken
<1>9. Got = Paras * Low /\ Got' = Paras * Low
  <2>1. ~(Cur > i) /\ ~(Cur' > i')
    BY <1>1, <1>3, <1>4, <1>7
  <2> QED
    BY <1>4, <1>7, <2>1 DEF Got
<1>10. CASE PostAgain
  <2>1. data_err' /\ exit_result' = -1 /\ errno_bak' = "EIO"
    BY <1>10 DEF PostAgain, DmaFailed
  <2>2. FileInv'
    BY <1>1, <1>8, <2>1 DEF Core, FileInv
  <2>3. ResultInv'
    BY <1>1, <2>1 DEF Core, ResultInv
  <2> QED
    BY <1>1, <1>7, <2>2, <2>3 DEF Core, DeliveredExactly, SystemErrorIsClean
<1>11. CASE SysEof \/ SysFail
  <2>1. pc = "read" /\ data_err' = data_err /\ posted[j] # i /\ ~data_err
    BY <1>11 DEF SysEof, SysFail, outcome, Core, LoopInv, ResultInv
  <2>2. Taken = Paras * i
    BY <1>3, <2>1 DEF Taken
  <2>3. exit_result = Got /\ errno_bak = "0" /\ user = Delivered(call.iov, Got)
        /\ Place(call.iov, next_iov) = Got /\ next_iov \in Positions(call.iov)
    BY <2>1 DEF Core, ResultInv
  <2>4. CASE SysEof
    <3>1. exit_result' = exit_result /\ errno_bak' = errno_bak
      BY <2>4 DEF SysEof, outcome
    <3>2. ~ByArgument => fpos = Paras * i
      BY <2>1, <2>2 DEF Core, FileInv
    <3>3. ByArgument => fpos = 0 /\ ofs = Paras * i
      BY <2>1 DEF Core, FileInv
    <3>4. FilePosition = Paras * i
      BY <3>2, <3>3 DEF FilePosition
    <3>5. file_size - Paras * i <= 0
      BY <1>3, <2>4, <3>4 DEF SysEof, Readable
    <3>6. Taken' = 0 => file_size = 0
      BY <1>3, <1>8, <3>5
    <3>7. FileInv'
      BY <1>1, <1>3, <1>8, <2>1, <2>2, <3>6 DEF Core, FileInv
    <3>8. ResultInv'
      BY <1>1, <1>9, <2>1, <2>3, <3>1 DEF Core, ResultInv
    <3> QED
      BY <1>1, <1>7, <3>7, <3>8 DEF Core, DeliveredExactly, SystemErrorIsClean
  <2>5. CASE SysFail
    <3>1. IF i = 0 THEN exit_result' = -1 /\ errno_bak' = "sys"
          ELSE exit_result' = exit_result /\ errno_bak' = errno_bak
      BY <2>5 DEF SysFail
    <3>2. i # 0 => Paras * i # 0
      BY <1>3
    <3>3. FileInv'
      BY <1>1, <1>8, <2>1, <2>2, <3>1, <3>2 DEF Core, FileInv
    <3>4. i = 0 => Got = 0 /\ Hi' = 0
      BY <1>3, <1>4, <1>7, <1>9
    <3>5. Got # -1
      BY <1>3, <1>4, <1>9
    <3>6. ResultInv'
      BY <1>1, <1>9, <2>1, <2>3, <3>1, <3>4, <3>5 DEF ResultInv
    <3> QED
      BY <1>1, <1>7, <3>3, <3>6 DEF Core, DeliveredExactly, SystemErrorIsClean
  <2> QED
    BY <1>11, <2>4, <2>5
<1> QED
  BY <1>10, <1>11

\* The loop has waited for the buffer it needs again.
LEMMA WaitStep ==
    ASSUME TypeOK, Core, WaitOk \/ WaitErr
    PROVE  Core' /\ DeliveredExactly' /\ SystemErrorIsClean'
<1>1. /\ pc = "wait" /\ pc' \in {"read", "last"}
      /\ call' = call /\ file_size' = file_size /\ fpos' = fpos /\ i' = i /\ ofs' = ofs
      /\ read_out_size' = read_out_size /\ vh' = vh /\ ve' = ve
      /\ dma' = [dma EXCEPT ![j] = "none"]
  BY DEF WaitOk, WaitErr, Waited, args, file, loop, memory, outcome
<1>2. /\ NParas \in Nat \ {0} /\ Paras \in Nat \ {0} /\ j \in Buf /\ i \in Nat
      /\ count \in Nat /\ file_size \in Nat /\ fpos \in Nat /\ Paras * i \in Nat
      /\ \A b \in Buf : posted[b] \in Int
  BY Basics DEF TypeOK
<1>3. posted[j] = Low /\ Low \in Nat /\ Low = i - NParas /\ Hi = i /\ Cur = Low
  BY <1>1, AtHand, Window DEF Core
<1>4. Low' = Low + 1
  <2>1. Low' = i - NParas + 1
    BY <1>1, <1>2, <1>3 DEF Low
  <2> QED
    BY <1>2, <1>3, <2>1
<1>5. ASSUME NEW b \in Buf, b # j, posted[b] >= Low PROVE posted[b] >= Low'
  <2>1. posted[b] % NParas = b /\ posted[j] % NParas = j
    BY <1>2, <1>3, <1>5 DEF Core, RingInv
  <2>2. posted[b] # Low
    BY <1>3, <1>5, <2>1
  <2> QED
    BY <1>2, <1>3, <1>4, <1>5, <2>2
<1>6. /\ dma'[j] = "none" /\ posted'[j] < Low' /\ posted'[j] \in Int
      /\ posted'[j] = NotPosted \/ pc' = "read"
      /\ \A b \in Buf : b # j => posted'[b] = posted[b] /\ dma'[b] = dma[b]
  <2>1. dma'[j] = "none" /\ \A b \in Buf : b # j => dma'[b] = dma[b]
    BY <1>1, <1>2 DEF TypeOK
  <2>2. CASE WaitOk
    <3>1. posted' = posted /\ pc' = "read"
      BY <2>2 DEF WaitOk
    <3> QED
      BY <1>2, <1>3, <1>4, <2>1, <3>1
  <2>3. CASE WaitErr
    <3>1. posted'[j] = -1 /\ \A b \in Buf : b # j => posted'[b] = posted[b]
      BY <1>2, <2>3 DEF WaitErr, TypeOK, NotPosted
    <3> QED
      BY <1>2, <1>3, <1>4, <2>1, <3>1 DEF NotPosted
  <2> QED
    BY <2>2, <2>3
<1>7. /\ LoopInv' /\ RingInv' /\ DmaInv' /\ SizeInv' /\ DataInv'
      /\ Hi' = i /\ Cur' = Low' /\ j' = j /\ count' = count /\ posted'[j'] # i'
  BY <1>1, <1>4, <1>5, <1>6, OthersKept
<1>8. posted[j] # i
  BY <1>2, <1>3
<1>9. ByArgument' = ByArgument /\ Taken' = Paras * i /\ Taken = Paras * i
  <2>1. pc' # "post" /\ pc # "post"
    BY <1>1
  <2> QED
    BY <1>1, <1>2, <1>7, <1>8, <2>1 DEF ByArgument, Taken
<1>10. ~data_err /\ errno_bak = "0" /\ exit_result # -1
  BY <1>1 DEF Core, ResultInv
<1>11. CASE WaitErr
  <2>1. /\ data_err' /\ exit_result' = -1 /\ errno_bak' = "EIO" /\ pc' = "last"
        /\ next_iov' = next_iov
    BY <1>11 DEF WaitErr, DmaFailed, memory
  <2>2. FileInv'
    BY <1>1, <1>7, <1>9, <2>1 DEF Core, FileInv
  <2>3. ResultInv'
    BY <1>1, <2>1 DEF Core, ResultInv
  <2> QED
    BY <1>7, <2>1, <2>2, <2>3 DEF Core, DeliveredExactly, SystemErrorIsClean
<1>12. CASE WaitOk
  <2>1. pc' = "read" /\ errno_bak' = errno_bak /\ data_err' = data_err /\ dma[j] = "ok" /\ Deliver(j)
    BY <1>12 DEF WaitOk, Waited
  <2>2. FileInv'
    BY <1>1, <1>7, <1>9, <1>10, <2>1 DEF Core, FileInv
  <2>3. Cur < Hi /\ posted[j] = Cur
    BY <1>2, <1>3
  <2>4. /\ GotNext \in Nat /\ exit_result' = GotNext
        /\ user' = Delivered(call.iov, GotNext)
        /\ next_iov' \in Positions(call.iov)
        /\ Place(call.iov, next_iov') = GotNext
    BY <1>1, <1>2, <1>10, <2>1, <2>3, DeliverNext
  <2>5. Got' = GotNext
    <3>1. Cur # i /\ ~(Cur' > i')
      BY <1>1, <1>2, <1>3, <1>4, <1>7
    <3>2. Cur' = Cur + 1
      BY <1>3, <1>4, <1>7
    <3> QED
      BY <3>1, <3>2 DEF Got, GotNext
  <2>6. GotNext # -1
    BY <2>4
  <2>7. ResultInv'
    BY <1>1, <1>10, <2>1, <2>4, <2>5, <2>6 DEF ResultInv
  <2> QED
    BY <1>7, <2>1, <2>2, <2>7 DEF Core, DeliveredExactly, SystemErrorIsClean
<1> QED
  BY <1>11, <1>12

\* The chunk at hand is posted.
LEMMA PostStep ==
    ASSUME TypeOK, Core, PostOk
    PROVE  Core' /\ DeliveredExactly' /\ SystemErrorIsClean'
<1>1. /\ pc = "post" /\ call' = call /\ file_size' = file_size /\ fpos' = fpos
      /\ user' = user /\ next_iov' = next_iov /\ read_out_size' = read_out_size
      /\ exit_result' = exit_result /\ errno_bak' = errno_bak /\ data_err' = data_err
      /\ vh' = vh /\ ve' = ve /\ ofs' = ofs + read_out_size[j]
      /\ dma' = [dma EXCEPT ![j] = "run"] /\ posted' = [posted EXCEPT ![j] = i]
  BY DEF PostOk, args, file, memory, outcome
<1>2. /\ NParas \in Nat \ {0} /\ Paras \in Nat \ {0} /\ j \in Buf /\ i \in Nat
      /\ count \in Nat /\ file_size \in Nat /\ fpos \in Nat /\ Paras * i \in Nat
      /\ \A b \in Buf : posted[b] \in Int
  BY Basics DEF TypeOK
<1>3. /\ posted[j] < Low /\ dma[j] = "none" /\ Low \in Nat /\ Low <= i /\ Hi = i /\ Cur = Low
      /\ i < NParas => Low = 0
      /\ i >= NParas => Low = i - NParas + 1
  BY <1>1, AtHand, Window DEF Core
<1>4. /\ i < Chunks(count) /\ ~data_err /\ errno_bak = "0" /\ exit_result = Got
      /\ exit_result # -1
  BY <1>1 DEF Core, LoopInv, ResultInv
<1>5. PICK t \in 1 .. Paras :
          t = transfer_size /\ (i + 1 < Chunks(count) => t = Paras)
  BY <1>2, <1>4, ChunkSizes DEF transfer_size
<1>6. PICK s \in 1 .. t : s = read_out_size[j]
  BY <1>1, <1>5 DEF Core, SizeInv
<1>7. \/ /\ i' = i + 1 /\ i + 1 < Chunks(count) /\ s = Paras
         /\ pc' = IF i + 1 >= NParas THEN "wait" ELSE "read"
      \/ i' = i /\ pc' = "last"
  <2>1. PostOk => NextChunk
    BY DEF PostOk
  <2> QED
    BY <1>2, <1>5, <1>6, <2>1 DEF NextChunk
<1>8. /\ posted'[j] = i /\ dma'[j] = "run"
      /\ \A b \in Buf : b # j => posted'[b] = posted[b] /\ dma'[b] = dma[b]
  BY <1>1, <1>2 DEF TypeOK
<1>9. \A b \in Buf : b # j => posted'[b] < i
  BY <1>2, <1>3, <1>8 DEF Core, RingInv
<1>10. count' = count /\ ByArgument' = ByArgument /\ j' \in Buf
  <2>1. j' \in Buf
    BY <1>2, <1>7 DEF j, Buf
  <2> QED
    BY <1>1, <2>1 DEF count, ByArgument
<1>11. Low' = Low /\ pc' \in {"wait", "read", "last"} /\ i' \in Nat
  BY <1>2, <1>3, <1>7 DEF Low
<1>12. /\ i' = i + 1 => posted'[j'] # i'
       /\ i' = i => j' = j /\ posted'[j'] = i' /\ transfer_size' = transfer_size
       /\ i' = i + 1 \/ i' = i
       /\ Hi' = i + 1
  <2>1. i' = i => j' = j
    BY DEF j
  <2>2. i' = i + 1 => posted'[j'] # i'
    BY <1>2, <1>8, <1>9, <1>10
  <2>3. i' = i => posted'[j'] = i'
    BY <1>8, <2>1
  <2>4. i' = i + 1 \/ i' = i
    BY <1>7
  <2>5. i' = i => transfer_size' = transfer_size
    BY <1>10 DEF transfer_size
  <2>6. Hi' = i + 1
    BY <1>2, <2>2, <2>3, <2>4 DEF Hi
  <2> QED
    BY <2>1, <2>2, <2>3, <2>4, <2>5, <2>6
<1>13. Cur' = Low
  BY <1>11 DEF Cur
<1>14. LoopInv'
  BY <1>2, <1>4, <1>7, <1>10, <1>12 DEF LoopInv
<1>15. RingInv'
  <2>1. ASSUME NEW c \in Low' .. Hi' - 1 PROVE posted'[c % NParas] = c
    <3>1. c \in Int /\ Low <= c /\ c <= i
      BY <1>2, <1>3, <1>11, <1>12
    <3>2. CASE c = i
      BY <1>8, <3>2 DEF j
    <3>3. CASE c # i
      <4>1. c \in Low .. Hi - 1
        BY <1>2, <1>3, <3>1, <3>3
      <4>2. posted[c % NParas] = c
        BY <4>1 DEF Core, RingInv
      <4>3. c % NParas \in Buf
        BY <1>2, <3>1 DEF Buf
      <4>4. c % NParas # j
        BY <1>2, <1>3, <3>1, <4>2
      <4> QED
        BY <1>8, <4>2, <4>3, <4>4
    <3> QED
      BY <3>2, <3>3
  <2>2. ASSUME NEW b \in Buf
        PROVE  /\ posted'[b] >= Low' => posted'[b] < Hi' /\ posted'[b] % NParas = b
               /\ posted'[b] < Low' => posted'[b] = NotPosted
    <3>1. CASE b = j
      <4>1. posted'[b] = i /\ i % NParas = b
        BY <1>8, <3>1 DEF j
      <4> QED
        BY <1>2, <1>3, <1>11, <1>12, <4>1
    <3>2. CASE b # j
      <4>1. posted'[b] = posted[b]
        BY <1>8, <3>2
      <4>2. /\ posted[b] >= Low => posted[b] < i /\ posted[b] % NParas = b
            /\ posted[b] < Low => posted[b] = NotPosted
        BY <1>3, <3>2 DEF Core, RingInv
      <4> QED
        BY <1>2, <1>11, <1>12, <4>1, <4>2
    <3> QED
      BY <3>1, <3>2
  <2>3. pc' # "drain"
    BY <1>11
  <2> QED
    BY <2>1, <2>2, <2>3 DEF RingInv
<1>16. DmaInv'
  <2>1. ASSUME NEW b \in Buf PROVE dma'[b] # "none" <=> posted'[b] >= Cur'
    <3>1. CASE b = j
      BY <1>2, <1>3, <1>8, <1>13, <3>1
    <3>2. CASE b # j
      BY <1>3, <1>8, <1>13, <3>2 DEF Core, DmaInv
    <3> QED
      BY <3>1, <3>2
  <2> QED
    BY <2>1 DEF DmaInv
<1>17. SizeInv'
  <2>1. ASSUME NEW b \in Buf, posted'[b] >= Low', posted'[b] < i'
        PROVE  read_out_size'[b] = Paras
    <3>1. CASE b = j
      <4>1. i' = i + 1
        BY <1>2, <1>8, <1>12, <2>1, <3>1
      <4> QED
        BY <1>1, <1>2, <1>6, <1>7, <3>1, <4>1
    <3>2. CASE b # j
      <4>1. posted[b] >= Low /\ posted[b] < i
        BY <1>8, <1>9, <1>11, <2>1, <3>2
      <4> QED
        BY <1>1, <4>1 DEF Core, SizeInv
    <3> QED
      BY <3>1, <3>2
  <2>2. ASSUME posted'[j'] = i' \/ pc' = "post" PROVE read_out_size'[j'] \in 1 .. transfer_size'
    <3>1. i' = i
      BY <1>11, <1>12, <2>2
    <3> QED
      BY <1>1, <1>5, <1>6, <1>12, <3>1
  <2> QED
    BY <2>1, <2>2 DEF SizeInv
<1>18. DataInv'
  <2>1. ASSUME NEW b \in Buf, posted'[b] >= Cur'
        PROVE  Holds(vh, b, posted[b])' /\ (dma'[b] = "ok" => Holds(ve, b, posted[b])')
    <3>1. CASE b = j
      <4>1. Holds(vh, j, i)
        BY <1>1 DEF Core, DataInv
      <4> QED
        BY <1>1, <1>8, <3>1, <4>1 DEF Holds
    <3>2. CASE b # j
      <4>1. posted'[b] = posted[b] /\ dma'[b] = dma[b] /\ posted[b] >= Cur
        BY <1>3, <1>8, <1>13, <2>1, <3>2
      <4>2. Holds(vh, b, posted[b]) /\ (dma[b] = "ok" => Holds(ve, b, posted[b]))
        BY <4>1 DEF Core, DataInv
      <4> QED
        BY <1>1, <4>1, <4>2 DEF Holds
    <3> QED
      BY <3>1, <3>2
  <2>2. pc' # "post"
    BY <1>11
  <2> QED
    BY <2>1, <2>2 DEF DataInv
<1>19. Taken = Paras * i + s /\ Taken' = Paras * i + s /\ (i' = i + 1 => Paras * i' = Paras * i + s)
  <2>1. Taken = Paras * i + s
    BY <1>1, <1>6 DEF Taken
  <2>2. CASE i' = i + 1
    <3>1. s = Paras /\ Paras * (i + 1) = Paras * i + Paras
      BY <1>2, <1>7, <2>2
    <3>2. Taken' = Paras * (i + 1) + 0
      BY <1>11, <1>12, <2>2 DEF Taken
    <3> QED
      BY <1>2, <2>1, <2>2, <3>1, <3>2
  <2>3. CASE i' = i
    <3>1. Taken' = Paras * i + s
      BY <1>1, <1>6, <1>12, <2>3 DEF Taken
    <3> QED
      BY <1>2, <2>1, <2>3, <3>1
  <2> QED
    BY <1>12, <2>2, <2>3
<1>20. FileInv'
  <2>1. Taken' # 0 /\ Taken' = Taken
    BY <1>2, <1>19
  <2>2. pc' \in {"wait", "read", "post"} => i' = i + 1
    BY <1>7
  <2>3. ByArgument => ofs = Paras * i
    BY <1>1 DEF Core, FileInv
  <2>4. pc' \in {"wait", "read", "post"} /\ ByArgument => ofs' = Paras * i'
    BY <1>1, <1>2, <1>6, <1>19, <2>2, <2>3
  <2> QED
    BY <1>1, <1>10, <2>1, <2>4 DEF Core, FileInv
<1>21. ResultInv'
  <2>1. Got = Paras * Low /\ Got' = Paras * Low
    <3>1. ~(Cur > i) /\ ~(Cur' > i')
      BY <1>2, <1>3, <1>12, <1>13
    <3> QED
      BY <1>3, <1>13, <3>1 DEF Got
  <2> QED
    BY <1>1, <1>4, <2>1 DEF Core, ResultInv
<1> QED
  BY <1>11, <1>14, <1>15, <1>16, <1>17, <1>18, <1>20, <1>21
     DEF Core, DeliveredExactly, SystemErrorIsClean

\* Draining begins with the buffer of the oldest chunk.
LEMMA LastStep ==
    ASSUME TypeOK, Core, Last
    PROVE  Core' /\ DeliveredExactly' /\ SystemErrorIsClean'
<1>1. /\ pc = "last" /\ pc' = "drain" /\ k' = 0 /\ min_k' = FindMinPosted(posted)
      /\ call' = call /\ file_size' = file_size /\ fpos' = fpos /\ user' = user
      /\ i' = i /\ next_iov' = next_iov /\ read_out_size' = read_out_size /\ ofs' = ofs
      /\ exit_result' = exit_result /\ errno_bak' = errno_bak /\ data_err' = data_err
      /\ vh' = vh /\ ve' = ve /\ dma' = dma /\ posted' = posted
  BY DEF Last, args, file, memory, outcome, transfer
<1>2. /\ NParas \in Nat \ {0} /\ i \in Nat
      /\ \A b \in Buf : posted[b] \in Int
  BY Basics
<1>3. Low \in Nat /\ Hi \in Nat /\ Cur = Low
  BY <1>1, Window DEF Core
<1>4. /\ j' = j /\ count' = count /\ ByArgument' = ByArgument /\ Low' = Low /\ Hi' = Hi
      /\ Taken' = Taken /\ transfer_size' = transfer_size
  BY <1>1 DEF j, count, ByArgument, Low, Hi, Taken, transfer_size
<1>5. Cur' = Cur
  BY <1>1, <1>3, <1>4 DEF Cur
<1>6. Got' = Got
  BY <1>1, <1>4, <1>5 DEF Got
<1>7. ASSUME Low < Hi PROVE min_k' = Low % NParas
  <2>1. posted[Low % NParas] = Low
    BY <1>3, <1>7 DEF Core, RingInv
  <2>2. Low % NParas \in Buf
    BY <1>2, <1>3 DEF Buf
  <2>3. posted[Low % NParas] # NotPosted
    BY <1>3, <2>1 DEF NotPosted
  <2>4. PICK m \in Buf : m = min_k' /\ posted[m] # NotPosted /\ posted[m] <= Low
    BY <1>1, <2>1, <2>2, <2>3, FindMinSpec DEF TypeOK
  <2>5. posted[m] >= Low => posted[m] % NParas = m
    BY DEF Core, RingInv
  <2>6. posted[m] >= Low
    BY <1>1, <1>2, <1>3, <2>4 DEF Core, RingInv
  <2> QED
    BY <1>2, <1>3, <2>4, <2>5, <2>6
<1>8. LoopInv' /\ SizeInv' /\ DmaInv'
  BY <1>1, <1>4, <1>5 DEF Core, LoopInv, SizeInv, DmaInv
<1>9. RingInv'
  BY <1>1, <1>4, <1>7 DEF Core, RingInv
<1>10. DataInv'
  BY <1>1, <1>4, <1>5 DEF Core, DataInv, Holds
<1>11. FileInv'
  BY <1>1, <1>4 DEF Core, FileInv
<1>12. ResultInv'
  BY <1>1, <1>4, <1>6 DEF Core, ResultInv
<1> QED
  BY <1>1, <1>8, <1>9, <1>10, <1>11, <1>12 DEF Core, DeliveredExactly, SystemErrorIsClean

\* The draining loop goes on to the next buffer, having waited for this one.
LEMMA DrainOn ==
    ASSUME TypeOK, Core, Draining, pc' = pc, k' = k + 1,
           call' = call, file_size' = file_size, i' = i, min_k' = min_k, posted' = posted,
           read_out_size' = read_out_size, vh' = vh, ve' = ve,
           \/ posted[DrainBuf] = NotPosted /\ dma' = dma
           \/ posted[DrainBuf] # NotPosted /\ dma' = [dma EXCEPT ![DrainBuf] = "none"]
    PROVE  /\ LoopInv' /\ RingInv' /\ DmaInv' /\ SizeInv' /\ DataInv'
           /\ Low' = Low /\ Hi' = Hi /\ Cur' = Cur + 1 /\ Taken' = Taken
           /\ j' = j /\ count' = count /\ ByArgument' = ByArgument
<1>1. pc = "drain" /\ k < NParas
  BY DEF Draining
<1>2. /\ NParas \in Nat \ {0} /\ i \in Nat /\ k \in Nat
      /\ \A b \in Buf : posted[b] \in Int
  BY Basics DEF TypeOK
<1>3. Low \in Nat /\ Hi \in Nat /\ Cur \in Nat /\ Low <= Cur /\ Cur = Low + k
  BY <1>1, Window DEF Core
<1>4. /\ j' = j /\ count' = count /\ ByArgument' = ByArgument /\ Low' = Low /\ Hi' = Hi
      /\ Taken' = Taken /\ transfer_size' = transfer_size
  BY DEF j, count, ByArgument, Low, Hi, Taken, transfer_size
<1>5. Cur' = Cur + 1
  <2>1. Cur' = Low + (k + 1)
    BY <1>1, <1>4 DEF Cur
  <2> QED
    BY <1>2, <1>3, <2>1
<1>6. /\ DrainBuf \in Buf
      /\ posted[DrainBuf] # NotPosted => posted[DrainBuf] = Cur /\ Cur < Hi
      /\ posted[DrainBuf] = NotPosted => \A b \in Buf : posted[b] # Cur
  BY <1>1, DrainOrder DEF Core
<1>7. LoopInv' /\ RingInv' /\ SizeInv'
  BY <1>1, <1>4 DEF Core, LoopInv, RingInv, SizeInv
<1>8. \A b \in Buf : /\ posted[b] # Cur => dma'[b] = dma[b]
                     /\ posted[b] = Cur => dma'[b] = "none"
  <2>1. CASE posted[DrainBuf] = NotPosted
    BY <1>6, <2>1
  <2>2. CASE posted[DrainBuf] # NotPosted
    <3>1. \A b \in Buf : b # DrainBuf => posted[b] # Cur
      <4>1. \A b \in Buf : posted[b] = Cur => Cur % NParas = b
        BY <1>3 DEF Core, RingInv
      <4> QED
        BY <1>6, <2>2, <4>1
    <3>2. dma'[DrainBuf] = "none" /\ \A b \in Buf : b # DrainBuf => dma'[b] = dma[b]
      BY <1>6, <2>2 DEF TypeOK
    <3> QED
      BY <1>6, <2>2, <3>1, <3>2
  <2> QED
    BY <2>1, <2>2
<1>9. DmaInv'
  <2>1. ASSUME NEW b \in Buf PROVE dma'[b] # "none" <=> posted[b] >= Cur + 1
    <3>1. dma[b] # "none" <=> posted[b] >= Cur
      BY DEF Core, DmaInv
    <3> QED
      BY <1>2, <1>3, <1>8, <3>1
  <2> QED
    BY <1>5, <2>1 DEF DmaInv
<1>10. DataInv'
  <2>1. ASSUME NEW b \in Buf, posted[b] >= Cur + 1
        PROVE  Holds(vh, b, posted[b])' /\ (dma'[b] = "ok" => Holds(ve, b, posted[b])')
    <3>1. posted[b] >= Cur /\ dma'[b] = dma[b]
      BY <1>2, <1>3, <1>8, <2>1
    <3>2. Holds(vh, b, posted[b]) /\ (dma[b] = "ok" => Holds(ve, b, posted[b]))
      BY <3>1 DEF Core, DataInv
    <3> QED
      BY <3>1, <3>2 DEF Holds
  <2> QED
    BY <1>1, <1>5, <2>1 DEF DataInv
<1> QED
  BY <1>4, <1>5, <1>7, <1>9, <1>10

\* One buffer drained.
LEMMA DrainStep ==
    ASSUME TypeOK, Core, DrainSkip \/ DrainOk \/ DrainErr
    PROVE  Core' /\ DeliveredExactly' /\ SystemErrorIsClean'
<1>1. /\ Draining /\ pc' = pc /\ k' = k + 1
      /\ call' = call /\ file_size' = file_size /\ fpos' = fpos /\ i' = i /\ min_k' = min_k
      /\ posted' = posted /\ read_out_size' = read_out_size /\ vh' = vh /\ ve' = ve
  BY DEF DrainSkip, DrainOk, DrainErr, Waited, args, file, memory, outcome, transfer
<1>2. \/ posted[DrainBuf] = NotPosted /\ dma' = dma
      \/ posted[DrainBuf] # NotPosted /\ dma' = [dma EXCEPT ![DrainBuf] = "none"]
  BY DEF DrainSkip, DrainOk, DrainErr, Waited, transfer
<1>3. /\ LoopInv' /\ RingInv' /\ DmaInv' /\ SizeInv' /\ DataInv'
      /\ Low' = Low /\ Hi' = Hi /\ Cur' = Cur + 1 /\ Taken' = Taken
      /\ j' = j /\ count' = count /\ ByArgument' = ByArgument
  BY <1>1, <1>2, DrainOn
<1>4. pc = "drain" /\ k < NParas /\ pc' = "drain"
  BY <1>1 DEF Draining
<1>5. /\ NParas \in Nat \ {0} /\ Paras \in Nat \ {0} /\ i \in Nat /\ Paras * i \in Nat
      /\ \A b \in Buf : posted[b] \in Int
  BY Basics
<1>6. /\ Low \in Nat /\ Hi \in Nat /\ Cur \in Nat /\ Low <= Cur /\ (Hi = i \/ Hi = i + 1)
      /\ Hi = i + 1 <=> posted[j] = i
  BY Window DEF Core
<1>7. /\ DrainBuf \in Buf
      /\ posted[DrainBuf] # NotPosted => posted[DrainBuf] = Cur /\ Cur < Hi
      /\ posted[DrainBuf] = NotPosted => \A b \in Buf : posted[b] # Cur
  BY <1>4, DrainOrder DEF Core
<1>8. CASE DrainErr
  <2>1. data_err' /\ exit_result' = -1 /\ errno_bak' = "EIO" /\ next_iov' = next_iov
    BY <1>8 DEF DrainErr, DmaFailed, memory
  <2>2. FileInv'
    BY <1>1, <1>3, <1>4, <2>1 DEF Core, FileInv
  <2>3. ResultInv'
    BY <1>1, <1>4, <2>1 DEF Core, ResultInv
  <2> QED
    BY <1>3, <1>4, <2>2, <2>3 DEF Core, DeliveredExactly, SystemErrorIsClean
<1>9. CASE DrainSkip
  <2>1. /\ exit_result' = exit_result /\ errno_bak' = errno_bak /\ data_err' = data_err
        /\ next_iov' = next_iov /\ user' = user /\ ofs' = ofs
        /\ posted[DrainBuf] = NotPosted
    BY <1>9 DEF DrainSkip, memory, outcome
  <2>2. Cur >= Hi
    <3> SUFFICES ASSUME Cur < Hi PROVE FALSE
      BY <1>6
    <3>1. posted[Cur % NParas] = Cur
      BY <1>6 DEF Core, RingInv
    <3>2. Cur % NParas \in Buf
      BY <1>5, <1>6 DEF Buf
    <3> QED
      BY <1>7, <2>1, <3>1, <3>2
  <2>3. Got' = Got
    <3>1. Cur + 1 > i
      BY <1>5, <1>6, <2>2
    <3>2. Got' = Taken
      BY <1>1, <1>3, <3>1 DEF Got
    <3>3. CASE Cur > i
      BY <3>2, <3>3 DEF Got
    <3>4. CASE Cur = i
      <4>1. posted[j] # i /\ ~(Cur > i)
        BY <1>5, <1>6, <2>2, <3>4
      <4> QED
        BY <1>4, <1>5, <3>2, <3>4, <4>1 DEF Got, Taken
    <3>5. Cur > i \/ Cur = i
      BY <1>5, <1>6, <3>1
    <3> QED
      BY <3>3, <3>4, <3>5, Zenon
  <2>4. FileInv'
    BY <1>1, <1>3, <1>4, <2>1 DEF Core, FileInv
  <2>5. ResultInv'
    BY <1>1, <1>3, <1>4, <2>1, <2>3 DEF Core, ResultInv
  <2> QED
    BY <1>3, <1>4, <2>4, <2>5 DEF Core, DeliveredExactly, SystemErrorIsClean
<1>10. CASE DrainOk
  <2>1. /\ errno_bak' = errno_bak /\ data_err' = data_err /\ ofs' = ofs
        /\ posted[DrainBuf] # NotPosted /\ dma[DrainBuf] = "ok"
        /\ data_err => user' = user /\ next_iov' = next_iov /\ exit_result' = exit_result
        /\ ~data_err => Deliver(DrainBuf)
    BY <1>10 DEF DrainOk, Waited
  <2>2. FileInv'
    BY <1>1, <1>3, <1>4, <2>1 DEF Core, FileInv
  <2>3. CASE data_err
    <3>1. ResultInv'
      BY <1>1, <1>4, <2>1, <2>3 DEF Core, ResultInv
    <3> QED
      BY <1>3, <1>4, <2>2, <3>1 DEF Core, DeliveredExactly, SystemErrorIsClean
  <2>4. CASE ~data_err
    <3>1. posted[DrainBuf] = Cur /\ Cur < Hi
      BY <1>7, <2>1
    <3>2. /\ GotNext \in Nat /\ exit_result' = GotNext
          /\ user' = Delivered(call.iov, GotNext)
          /\ next_iov' \in Positions(call.iov)
          /\ Place(call.iov, next_iov') = GotNext
      BY <1>4, <1>7, <2>1, <2>4, <3>1, DeliverNext
    <3>3. exit_result # -1
      BY <1>4, <1>6, <2>4, <3>1 DEF Core, ResultInv
    <3>4. errno_bak = "0"
      BY <1>4, <2>4, <3>3 DEF Core, ResultInv
    <3>5. Got' = GotNext
      <4>1. CASE Cur = i
        <5>1. posted[j] = i /\ Cur + 1 > i
          BY <1>5, <1>6, <3>1, <4>1
        <5> QED
          BY <1>1, <1>3, <4>1, <5>1 DEF Got, GotNext, Taken
      <4>2. CASE Cur # i
        <5>1. ~(Cur + 1 > i)
          BY <1>5, <1>6, <3>1, <4>2
        <5> QED
          BY <1>1, <1>3, <4>2, <5>1 DEF Got, GotNext
      <4> QED
        BY <4>1, <4>2
    <3>6. GotNext # -1
      BY <3>2
    <3>7. ResultInv'
      BY <1>1, <1>4, <2>1, <2>4, <3>2, <3>4, <3>5, <3>6 DEF ResultInv
    <3> QED
      BY <1>3, <1>4, <2>2, <3>7 DEF Core, DeliveredExactly, SystemErrorIsClean
  <2> QED
    BY <2>3, <2>4
<1> QED
  BY <1>8, <1>9, <1>10

\* When all buffers are drained the caller has got all that was read, and that
\* is no more than it asked for.
LEMMA AllDrained ==
    ASSUME TypeOK, Core, pc = "drain", k = NParas
    PROVE  /\ Got = Taken /\ Taken \in Nat /\ Taken <= count
           /\ Cur = Low + NParas /\ Hi <= Cur
           /\ Hi = 0 => Taken = 0
<1>1. /\ NParas \in Nat \ {0} /\ Paras \in Nat \ {0} /\ i \in Nat /\ j \in Buf
      /\ count \in Nat /\ Paras * i \in Nat
  BY Basics
<1>2. /\ Low \in Nat /\ Hi <= Low + NParas /\ Cur = Low + NParas
      /\ (Hi = i \/ Hi = i + 1) /\ (Hi = i + 1 <=> posted[j] = i)
      /\ i < NParas => Low = 0
      /\ i >= NParas => Low = i - NParas + 1
  BY Window DEF Core
<1>3. Cur > i
  BY <1>1, <1>2
<1>4. CASE posted[j] = i
  <2>1. i < Chunks(count)
    BY <1>4 DEF Core, LoopInv
  <2>2. PICK t \in 1 .. Paras : t = transfer_size /\ Paras * i + t <= count
    BY <1>1, <2>1, ChunkSizes DEF transfer_size
  <2>3. PICK s \in 1 .. t : s = read_out_size[j]
    BY <1>4, <2>2 DEF Core, SizeInv
  <2>4. Taken = Paras * i + s
    BY <1>4, <2>3 DEF Taken
  <2>5. Got = Taken
    BY <1>3 DEF Got
  <2> QED
    BY <1>1, <1>2, <1>4, <2>2, <2>3, <2>4, <2>5
<1>5. CASE posted[j] # i
  <2>1. Taken = Paras * i + 0
    BY <1>5 DEF Taken
  <2>2. Paras * i <= count
    <3>1. CASE i = 0
      BY <1>1, <3>1
    <3>2. CASE i < Chunks(count)
      <4>1. PICK t \in 1 .. Paras : Paras * i + t <= count
        BY <1>1, <3>2, ChunkSizes
      <4> QED
        BY <1>1, <4>1
    <3> QED
      BY <3>1, <3>2 DEF Core, LoopInv
  <2>3. Got = Taken
    BY <1>3 DEF Got
  <2>4. Hi = 0 => i = 0
    BY <1>1, <1>2
  <2> QED
    BY <1>1, <1>2, <2>1, <2>2, <2>3, <2>4
<1> QED
  BY <1>4, <1>5

\* The request returns.
LEMMA ReturnStep ==
    ASSUME TypeOK, Core, ReturnResult
    PROVE  Core' /\ DeliveredExactly' /\ SystemErrorIsClean'
<1>1. /\ pc = "drain" /\ k = NParas /\ pc' = "done"
      /\ call' = call /\ file_size' = file_size /\ fpos' = fpos /\ user' = user
      /\ i' = i /\ next_iov' = next_iov /\ read_out_size' = read_out_size
      /\ exit_result' = exit_result /\ errno_bak' = errno_bak /\ data_err' = data_err
      /\ vh' = vh /\ ve' = ve /\ dma' = dma /\ posted' = posted
  BY DEF ReturnResult, args, file, loop, memory, outcome, transfer
<1>2. /\ Got = Taken /\ Taken \in Nat /\ Taken <= count
      /\ Cur = Low + NParas
      /\ Hi = 0 => Taken = 0
  BY <1>1, AllDrained
<1>3. /\ j' = j /\ count' = count /\ ByArgument' = ByArgument /\ Low' = Low /\ Hi' = Hi
      /\ transfer_size' = transfer_size
  BY <1>1 DEF j, count, ByArgument, Low, Hi, transfer_size
<1>4. Cur' = Cur
  BY <1>1, <1>2, <1>3 DEF Cur
<1>5. LoopInv' /\ SizeInv' /\ DmaInv'
  BY <1>1, <1>3, <1>4 DEF Core, LoopInv, SizeInv, DmaInv
<1>6. RingInv'
  BY <1>1, <1>3 DEF Core, RingInv
<1>7. DataInv'
  BY <1>1, <1>3, <1>4 DEF Core, DataInv, Holds
<1>8. FileInv'
  BY <1>1, <1>3 DEF Core, FileInv
<1>9. ResultInv'
  BY <1>1 DEF Core, ResultInv
<1>10. DeliveredExactly'
  <2> SUFFICES ASSUME exit_result >= 0
               PROVE  /\ exit_result <= count
                      /\ user = Delivered(call.iov, exit_result)
                      /\ ~ByArgument => fpos = exit_result
                      /\ exit_result = 0 => count = 0 \/ file_size = 0
    BY <1>1, <1>3 DEF DeliveredExactly
  <2>1. exit_result # -1 /\ ~data_err
    BY DEF Core, ResultInv
  <2>2. errno_bak = "0" /\ exit_result = Taken /\ user = Delivered(call.iov, Taken)
    BY <1>1, <1>2, <2>1 DEF Core, ResultInv
  <2> QED
    BY <1>1, <1>2, <2>1, <2>2 DEF Core, FileInv
<1>11. SystemErrorIsClean'
  <2> SUFFICES ASSUME exit_result = -1
               PROVE  /\ errno_bak # "0"
                      /\ errno_bak = "sys" => fpos = 0 /\ user = Delivered(call.iov, 0)
    BY <1>1 DEF SystemErrorIsClean
  <2>1. CASE data_err
    BY <2>1 DEF Core, ResultInv
  <2>2. CASE ~data_err
    <3>1. errno_bak = "sys" /\ Taken = 0 /\ user = Delivered(call.iov, 0)
      BY <1>1, <1>2, <2>2 DEF Core, ResultInv
    <3>2. fpos = 0
      BY <1>1, <2>2, <3>1 DEF Core, FileInv
    <3> QED
      BY <3>1, <3>2
  <2> QED
    BY <2>1, <2>2
<1> QED
  BY <1>5, <1>6, <1>7, <1>8, <1>9, <1>10, <1>11 DEF Core

\* Every step.
LEMMA CoreStep ==
    ASSUME TypeOK, Core, DeliveredExactly, SystemErrorIsClean, [Next \/ Finished]_vars
    PROVE  Core' /\ DeliveredExactly' /\ SystemErrorIsClean'
<1>1. CASE Entry
  BY <1>1, EntryStep
<1>2. CASE WaitOk \/ WaitErr
  BY <1>2, WaitStep
<1>3. CASE SysRead
  BY <1>3, SysReadStep
<1>4. CASE SysEof \/ SysFail \/ PostAgain
  BY <1>4, StopStep
<1>5. CASE PostOk
  BY <1>5, PostStep
<1>6. CASE Last
  BY <1>6, LastStep
<1>7. CASE DrainSkip \/ DrainOk \/ DrainErr
  BY <1>7, DrainStep
<1>8. CASE ReturnResult
  BY <1>8, ReturnStep
<1>9. CASE \E b \in Buf : Complete(b)
  BY <1>9, CompleteStep
<1>10. CASE UNCHANGED vars
  BY <1>10
     DEF vars, Core, LoopInv, RingInv, DmaInv, SizeInv, DataInv, FileInv, ResultInv, j, count,
         ByArgument, Low, Hi, Cur, Taken, Got, transfer_size, Holds, DeliveredExactly,
         SystemErrorIsClean
<1> QED
  BY <1>1, <1>2, <1>3, <1>4, <1>5, <1>6, <1>7, <1>8, <1>9, <1>10
     DEF Next, Step, Loop, Drain, Finished

-----------------------------------------------------------------------------
(* Types.                                                                  *)

\* The file's units, and those a buffer or the caller may hold.
LEMMA Units ==
    ASSUME TypeOK
    PROVE  /\ MaxCount \in Nat
           /\ \A n \in 0 .. MaxCount - 1 : n \in Unit
           /\ Garbage \in Unit
           /\ \A n \in Int : Delivered(call.iov, n) \in [Vector -> [Offset -> Unit]]
<1>1. call.iov \in Vectors /\ MaxCount \in Nat
  BY Basics
<1>2. \A n \in Int : Delivered(call.iov, n) \in [Vector -> [Offset -> Unit]]
  BY <1>1, DeliveredType
<1> QED
  BY <1>1, <1>2 DEF Unit

\* A VH buffer after a system call that read n units from position p.
LEMMA ReadBuffer ==
    ASSUME TypeOK, NEW buffer \in Buffer, NEW p \in Nat, NEW n \in Nat, p + n <= MaxCount
    PROVE  [u \in 1 .. Paras |-> IF u <= n THEN p + u - 1 ELSE buffer[u]] \in Buffer
<1>1. ASSUME NEW u \in 1 .. Paras
      PROVE  (IF u <= n THEN p + u - 1 ELSE buffer[u]) \in Unit
  <2>1. CASE u <= n
    <3>1. p + u - 1 \in 0 .. MaxCount - 1
      BY <2>1, Units
    <3> QED
      BY <2>1, <3>1, Units
  <2>2. CASE ~(u <= n)
    BY <2>2 DEF Buffer
  <2> QED
    BY <2>1, <2>2
<1> QED
  BY <1>1 DEF Buffer

\* Every step keeps the types.  The file offset, the position in the vectors
\* and what the buffers hold stay in range because the new state satisfies
\* the rest of the invariant.
LEMMA TypeStep ==
    ASSUME TypeOK, Core, [Next \/ Finished]_vars, Core'
    PROVE  TypeOK'
<1>1. /\ NParas \in Nat \ {0} /\ Paras \in Nat \ {0} /\ MaxCount \in Nat
      /\ i \in Nat /\ j \in Buf /\ k \in Nat /\ count \in Nat /\ count <= MaxCount
      /\ call.iov \in Vectors /\ file_size \in Nat /\ file_size <= MaxCount /\ fpos \in Nat
      /\ ofs \in Nat
  BY Basics DEF TypeOK
<1>2. call' = call /\ file_size' = file_size
  BY DEF Next, Finished, Step, Entry, Loop, Drain, NullBuffer, Pre, PreZero, PlainRead, PlainFail,
         WaitOk, WaitErr, SysRead, SysEof, SysFail, PostOk, PostAgain, Last, DrainSkip, DrainOk,
         DrainErr, ReturnResult, Complete, args, vars
<1>3. next_iov' \in Position
  BY <1>2 DEF Core, ResultInv, Positions
<1>4. fpos' <= file_size
  BY <1>2 DEF Core, FileInv
<1> DEFINE Rest == /\ fpos' \in Nat
                   /\ user' \in [Vector -> [Offset -> Unit]]
                   /\ pc' \in {"call", "plain", "wait", "read", "post", "last", "drain", "done"}
                   /\ i' \in Nat /\ k' \in 0 .. NParas /\ min_k' \in Buf
                   /\ posted' \in [Buf -> Nat \cup {NotPosted}]
                   /\ read_out_size' \in [Buf -> 0 .. Paras \cup {-1}]
                   /\ ofs' \in Nat
                   /\ exit_result' \in 0 .. MaxCount \cup {-1}
                   /\ errno_bak' \in {"0", "EFAULT", "EIO", "sys"}
                   /\ data_err' \in BOOLEAN
                   /\ dma' \in [Buf -> {"none", "run", "ok", "err"}]
                   /\ dma_ret' \in {"none", "ok", "err"}
                   /\ vh' \in [Buf -> Buffer]
                   /\ ve' \in [Buf -> Buffer]
<1>5. Rest
  <2>1. CASE NullBuffer \/ Pre \/ PreZero \/ PlainFail
    BY <1>1, <2>1 DEF NullBuffer, Pre, PreZero, PlainFail, TypeOK, file, loop, memory, transfer,
                      outcome
  <2>2. CASE PlainRead
    <3>1. PICK n \in IF count = 0 THEN {0} ELSE Readable(count) :
              user' = Delivered(call.iov, n) /\ exit_result' = n /\ Advance(n)
      BY <2>2 DEF PlainRead
    <3>2. n \in Nat /\ n <= count
      BY <1>1, <3>1 DEF Readable
    <3>3. fpos' \in Nat
      BY <1>1, <3>1, <3>2 DEF Advance
    <3>4. user' \in [Vector -> [Offset -> Unit]]
      BY <3>1, <3>2, Units
    <3> QED
      BY <1>1, <2>2, <3>1, <3>2, <3>3, <3>4 DEF PlainRead, TypeOK, loop, transfer
  <2>3. CASE WaitOk
    <3>1. /\ pc = "wait" /\ ~data_err /\ posted[j] = Cur /\ Cur < Hi /\ dma[j] = "ok" /\ Deliver(j)
      BY <1>1, <2>3, AtHand, Window DEF WaitOk, Waited, Core, ResultInv
    <3>2. /\ GotNext \in Nat /\ GotNext <= count /\ exit_result' = GotNext
          /\ user' = Delivered(call.iov, GotNext)
      BY <1>1, <3>1, DeliverNext
    <3>3. user' \in [Vector -> [Offset -> Unit]]
      BY <3>2, Units
    <3> QED
      BY <1>1, <2>3, <3>2, <3>3 DEF WaitOk, Waited, TypeOK, loop, file
  <2>4. CASE WaitErr
    BY <1>1, <2>4 DEF WaitErr, Waited, DmaFailed, TypeOK, loop, file, memory
  <2>5. CASE SysRead
    <3>1. pc = "read" /\ FilePosition = Paras * i /\ transfer_size \in 1 .. Paras
      <4>1. pc = "read" /\ posted[j] # i /\ ~data_err /\ i < Chunks(count)
        BY <2>5 DEF SysRead, Core, LoopInv, ResultInv
      <4>2. Paras * i \in Nat
        BY <1>1
      <4>3. FilePosition = Paras * i
        BY <4>1, <4>2 DEF Core, FileInv, Taken, FilePosition
      <4> QED
        BY <1>1, <4>1, <4>3, ChunkSizes DEF transfer_size
    <3>2. PICK n \in Readable(transfer_size) \ {0} :
             /\ vh' = [vh EXCEPT ![j] =
                          [u \in 1 .. Paras |-> IF u <= n THEN FilePosition + u - 1 ELSE @[u]]]
             /\ read_out_size' = [read_out_size EXCEPT ![j] = n]
             /\ Advance(n)
      BY <2>5 DEF SysRead
    <3>3. PICK p \in Nat : p = Paras * i /\ p = FilePosition
      BY <1>1, <3>1
    <3>4. n \in 1 .. Paras /\ p + n <= MaxCount
      BY <1>1, <3>1, <3>2, <3>3 DEF Readable
    <3>5. vh' \in [Buf -> Buffer]
      <4>1. [u \in 1 .. Paras |-> IF u <= n THEN p + u - 1 ELSE vh[j][u]] \in Buffer
        <5>1. vh[j] \in Buffer /\ n \in Nat
          BY <1>1, <3>4 DEF TypeOK
        <5> QED
          BY <3>4, <5>1, ReadBuffer, Zenon
      <4>2. vh' = [vh EXCEPT ![j] =
                      [u \in 1 .. Paras |-> IF u <= n THEN p + u - 1 ELSE vh[j][u]]]
        BY <3>2, <3>3
      <4> QED
        BY <1>1, <4>1, <4>2 DEF TypeOK
    <3>6. fpos' \in Nat
      BY <1>1, <3>2, <3>4 DEF Advance
    <3>7. read_out_size' \in [Buf -> 0 .. Paras \cup {-1}]
      BY <1>1, <3>2, <3>4 DEF TypeOK
    <3> QED
      BY <1>1, <2>5, <3>5, <3>6, <3>7 DEF SysRead, TypeOK, loop, memory, outcome
  <2>6. CASE SysEof \/ SysFail
    BY <1>1, <2>6 DEF SysEof, SysFail, TypeOK, loop, file, memory, outcome, transfer
  <2>7. CASE PostOk \/ PostAgain
    <3>1. pc = "post" /\ i < Chunks(count)
      BY <2>7 DEF PostOk, PostAgain, Core, LoopInv
    <3>2. transfer_size \in 1 .. Paras
      BY <1>1, <3>1, ChunkSizes DEF transfer_size
    <3>3. read_out_size[j] \in 1 .. transfer_size
      BY <3>1 DEF Core, SizeInv
    <3>4. ofs + read_out_size[j] \in Nat /\ ofs + transfer_size \in Nat
      BY <1>1, <3>2, <3>3
    <3>5. CASE PostOk
      <4>1. i' \in Nat /\ pc' \in {"wait", "read", "last"}
        BY <1>1, <3>5 DEF PostOk, NextChunk
      <4> QED
        BY <1>1, <3>4, <3>5, <4>1 DEF PostOk, TypeOK, file, memory, outcome
    <3>6. CASE PostAgain
      BY <1>1, <3>4, <3>6 DEF PostAgain, DmaFailed, TypeOK, file, loop, memory, transfer
    <3> QED
      BY <2>7, <3>5, <3>6
  <2>8. CASE Last
    <3>1. FindMinPosted(posted) \in Buf
      BY FindMinSpec DEF TypeOK
    <3> QED
      BY <1>1, <2>8, <3>1 DEF Last, TypeOK, file, memory, outcome, transfer
  <2>9. CASE DrainSkip \/ DrainErr
    <3>1. k + 1 \in 0 .. NParas
      BY <1>1, <2>9 DEF DrainSkip, DrainErr, Draining
    <3>2. CASE DrainSkip
      BY <1>1, <3>1, <3>2 DEF DrainSkip, TypeOK, file, memory, outcome, transfer
    <3>3. CASE DrainErr
      BY <1>1, <3>1, <3>3 DEF DrainErr, Waited, DmaFailed, TypeOK, file, memory
    <3> QED
      BY <2>9, <3>2, <3>3
  <2>10. CASE DrainOk
    <3>1. /\ pc = "drain" /\ k < NParas /\ posted[DrainBuf] # NotPosted /\ dma[DrainBuf] = "ok"
          /\ IF data_err THEN UNCHANGED <<user, next_iov, exit_result>> ELSE Deliver(DrainBuf)
      BY <2>10 DEF DrainOk, Draining, Waited
    <3>2. DrainBuf \in Buf /\ posted[DrainBuf] = Cur /\ Cur < Hi
      BY <3>1, DrainOrder DEF Core
    <3>3. /\ user' \in [Vector -> [Offset -> Unit]]
          /\ exit_result' \in 0 .. MaxCount \cup {-1}
      <4>1. CASE data_err
        BY <3>1, <4>1 DEF TypeOK
      <4>2. CASE ~data_err
        <5>1. Deliver(DrainBuf)
          BY <3>1, <4>2
        <5>2. /\ GotNext \in Nat /\ GotNext <= count /\ exit_result' = GotNext
              /\ user' = Delivered(call.iov, GotNext)
          BY <3>1, <3>2, <4>2, <5>1, DeliverNext
        <5> QED
          BY <1>1, <5>2, Units
      <4> QED
        BY <4>1, <4>2
    <3> QED
      BY <1>1, <2>10, <3>1, <3>2, <3>3 DEF DrainOk, Waited, TypeOK, file
  <2>11. CASE ReturnResult
    BY <1>1, <2>11 DEF ReturnResult, TypeOK, file, loop, memory, outcome, transfer
  <2>12. ASSUME NEW b \in Buf, Complete(b) PROVE Rest
    <3>1. Lost \in Buffer
      BY Units DEF Lost, Buffer
    <3>2. vh[b] \in Buffer
      BY DEF TypeOK
    <3> QED
      BY <1>1, <2>12, <3>1, <3>2 DEF Complete, TypeOK, file, loop, memory, outcome
  <2>13. CASE UNCHANGED vars
    BY <1>1, <2>13 DEF vars, TypeOK
  <2> QED
    BY <2>1, <2>2, <2>3, <2>4, <2>5, <2>6, <2>7, <2>8, <2>9, <2>10, <2>11, <2>12, <2>13
       DEF Next, Step, Entry, Loop, Drain, Finished
<1>6. fpos' \in 0 .. MaxCount
  BY <1>1, <1>4, <1>5
<1> QED
  BY <1>2, <1>3, <1>5, <1>6 DEF TypeOK

-----------------------------------------------------------------------------
\* A request starts with the invariant.
LEMMA InitHolds == Init => IInv
<1> SUFFICES ASSUME Init PROVE IInv
  OBVIOUS
<1> USE DEF Init
<1>1. NParas \in Nat \ {0} /\ Paras \in Nat \ {0} /\ MaxCount \in Nat /\ MaxIov \in Nat \ {0}
  BY SizesAssumption, Zenon
<1>2. call.iov \in Vectors
  BY RequestVectors
<1>3. /\ call.iov \in Seq(Nat) /\ Len(call.iov) \in Nat /\ Len(call.iov) <= MaxIov
      /\ First(call.iov)[1] = 0
      /\ \A v \in 1 .. Len(call.iov) : First(call.iov)[v] \in Nat
  BY <1>2, VectorsDef, FirstDef
<1>4. user = Delivered(call.iov, 0)
  <2>1. ASSUME NEW v \in Vector, NEW o \in Offset
        PROVE  ~(v <= Len(call.iov) /\ o < call.iov[v] /\ First(call.iov)[v] + o < 0)
    BY <1>1, <1>3 DEF Vector, Offset
  <2> QED
    BY <2>1, Zenon DEF Delivered
<1>5. next_iov \in Positions(call.iov) /\ Place(call.iov, next_iov) = 0
  <2>1. Start \in Position /\ Start.num = 1 /\ Start.done = 0
    BY <1>1 DEF Start, Position
  <2>2. 1 <= Len(call.iov) => 0 <= call.iov[1]
    BY <1>3
  <2> QED
    <3>1. next_iov = Start
      OBVIOUS
    <3>2. Start \in Positions(call.iov)
      <4>1. Start.num <= Len(call.iov) + 1
        BY <1>3, <2>1
      <4>2. Start.num <= Len(call.iov) => Start.done <= call.iov[Start.num]
        BY <2>1, <2>2, Zenon
      <4> QED
        BY <2>1, <4>1, <4>2, Zenon DEF Positions
    <3>3. Place(call.iov, Start) = 0
      <4> HIDE DEF Init
      <4> QED
        BY <1>3, <2>1 DEF Place
    <3> QED
      BY <3>1, <3>2, <3>3, Zenon
<1>6. /\ j \in Buf /\ Low = 0 /\ Hi = 0 /\ Cur = 0 /\ Got = 0 /\ Taken = 0
      /\ \A b \in Buf : posted[b] = -1
  <2>1. j \in Buf
    BY <1>1 DEF j, Buf
  <2>2. \A b \in Buf : posted[b] = -1
    BY DEF NotPosted
  <2>3. Low = 0 /\ Hi = 0
    BY <1>1, <2>1, <2>2 DEF Low, Hi
  <2> QED
    BY <1>1, <2>1, <2>2, <2>3 DEF Cur, Got, Taken
<1>7. TypeOK
  <2>1. user \in [Vector -> [Offset -> Unit]]
    BY DEF Unit
  <2>2. vh \in [Buf -> Buffer] /\ ve \in [Buf -> Buffer]
    BY DEF Buffer, Unit
  <2>3. next_iov \in Position
    BY <1>5 DEF Positions
  <2>4. min_k \in Buf
    BY <1>1 DEF Buf
  <2>5. /\ fpos \in 0 .. MaxCount /\ exit_result \in 0 .. MaxCount /\ k \in 0 .. NParas
        /\ i \in Nat /\ ofs \in Nat
    BY <1>1
  <2>6. /\ posted \in [Buf -> Nat \cup {NotPosted}]
        /\ read_out_size \in [Buf -> 0 .. Paras \cup {-1}]
        /\ dma \in [Buf -> {"none", "run", "ok", "err"}]
    BY <1>1
  <2>7. /\ pc = "call" /\ errno_bak = "0" /\ data_err = FALSE /\ dma_ret = "none"
        /\ call \in Requests({"read", "pread", "readv", "preadv"}) /\ file_size \in 0 .. MaxCount
    OBVIOUS
  <2> QED
    <3> HIDE DEF Init
    <3> QED
      BY <2>1, <2>2, <2>3, <2>4, <2>5, <2>6, <2>7 DEF TypeOK
<1>8. LoopInv
  BY <1>6 DEF LoopInv
<1>9. RingInv /\ DmaInv
  BY <1>6 DEF RingInv, DmaInv, NotPosted
<1>10. SizeInv /\ DataInv
  BY <1>6 DEF SizeInv, DataInv
<1>11. FileInv
  BY <1>1, <1>6 DEF FileInv
<1>12. ResultInv
  BY <1>4, <1>5, <1>6 DEF ResultInv
<1> QED
  BY <1>7, <1>8, <1>9, <1>10, <1>11, <1>12 DEF IInv, DeliveredExactly, SystemErrorIsClean

\* Every reachable state satisfies the invariant.
THEOREM Invariance == Spec => []IInv
<1>1. IInv /\ [Next \/ Finished]_vars => IInv'
  <2> SUFFICES ASSUME IInv, [Next \/ Finished]_vars PROVE IInv'
    OBVIOUS
  <2>1. TypeOK /\ Core /\ DeliveredExactly /\ SystemErrorIsClean
    BY DEF IInv, Core
  <2>2. Core' /\ DeliveredExactly' /\ SystemErrorIsClean'
    BY <2>1, CoreStep
  <2>3. TypeOK'
    BY <2>1, <2>2, TypeStep
  <2> QED
    BY <2>2, <2>3 DEF IInv, Core
<1> QED
  BY <1>1, InitHolds, PTL DEF Spec

\* All variables keep their types.
THEOREM TypeCorrect == Spec => []TypeOK
<1>1. IInv => TypeOK
  BY DEF IInv
<1> QED
  BY <1>1, Invariance, PTL

\* For every number and size of buffers and every request, a read delivers
\* exactly what its result says, whatever the system calls return and however
\* they interleave with the DMAs.
THEOREM DeliveredExactlyCorrect == Spec => []DeliveredExactly
<1>1. IInv => DeliveredExactly
  BY DEF IInv
<1> QED
  BY <1>1, Invariance, PTL

\* A read that fails with the error of its system call had no effect.
THEOREM SystemErrorIsCleanCorrect == Spec => []SystemErrorIsClean
<1>1. IInv => SystemErrorIsClean
  BY DEF IInv
<1> QED
  BY <1>1, Invariance, PTL

\* The thread writes no buffer whose DMA runs: its system call reads into the
\* buffer at hand, which has no DMA.
THEOREM BuffersQuietCorrect == Spec => BuffersQuiet
<1> DEFINE Quiet == \A b \in Buf : dma[b] = "run" /\ dma'[b] = "run" =>
                                      vh'[b] = vh[b] /\ ve'[b] = ve[b]
<1>1. IInv /\ [Next \/ Finished]_vars => [Quiet]_vars
  <2> SUFFICES ASSUME IInv, Next, NEW b \in Buf, dma[b] = "run", dma'[b] = "run"
               PROVE  vh'[b] = vh[b] /\ ve'[b] = ve[b]
    BY DEF Finished
  <2>1. CASE SysRead
    <3>1. b # j
      BY <2>1, AtHand DEF SysRead, IInv
    <3> QED
      BY <2>1, <3>1 DEF SysRead, IInv, TypeOK
  <2>2. ASSUME NEW c \in Buf, Complete(c) PROVE vh'[b] = vh[b] /\ ve'[b] = ve[b]
    BY <2>2 DEF Complete, IInv, TypeOK
  <2>3. CASE vh' = vh /\ ve' = ve
    BY <2>3
  <2> QED
    BY <2>1, <2>2, <2>3
       DEF Next, Step, Entry, Loop, Drain, NullBuffer, Pre, PreZero, PlainRead, PlainFail, WaitOk,
           WaitErr, SysEof, SysFail, PostOk, PostAgain, Last, DrainSkip, DrainOk, DrainErr,
           ReturnResult, Waited, transfer
<1> QED
  BY <1>1, Invariance, PTL DEF Spec, BuffersQuiet

\* Each step of a read is a step of DmaRequests for the one thread and its
\* buffers, or leaves them alone.
LEMMA DmaStep ==
    ASSUME IInv, Next
    PROVE  Dma!Next \/ UNCHANGED Dma!vars
<1> DEFINE told == [t \in {"thread"} |-> dma_ret]
<1>1. ASSUME NEW b \in Buf, NEW e \in {"ok", "err"}, Waited(b, e) PROVE Dma!Next
  <2>1. told' = [told EXCEPT !["thread"] = dma[b]]
    BY <1>1 DEF Waited
  <2>2. Dma!Report("thread", b)
    BY <1>1, <2>1 DEF Waited, Dma!Report
  <2> QED
    BY <2>2 DEF Dma!Next
<1>2. CASE WaitOk \/ WaitErr
  BY <1>1, <1>2, Basics DEF WaitOk, WaitErr, IInv
<1>3. CASE DrainOk \/ DrainErr
  <2>1. DrainBuf \in Buf
    BY <1>3, DrainOrder DEF DrainOk, DrainErr, Draining, IInv
  <2> QED
    BY <1>1, <1>3, <2>1 DEF DrainOk, DrainErr
<1>4. CASE PostOk
  <2>1. j \in Buf /\ dma[j] = "none"
    BY <1>4, Basics, AtHand DEF PostOk, IInv
  <2>2. Dma!Submit(j)
    BY <1>4, <2>1 DEF PostOk, Dma!Submit
  <2> QED
    BY <2>1, <2>2 DEF Dma!Next
<1>5. ASSUME NEW b \in Buf, Complete(b) PROVE Dma!Next
  <2>1. PICK e \in {"ok", "err"} : Dma!Finish(b, e)
    BY <1>5 DEF Complete, Dma!Finish
  <2> QED
    BY <2>1 DEF Dma!Next
<1>6. CASE dma' = dma /\ dma_ret' = dma_ret
  BY <1>6 DEF Dma!vars
<1> QED
  BY <1>2, <1>3, <1>4, <1>5, <1>6
     DEF Next, Step, Entry, Loop, Drain, NullBuffer, Pre, PreZero, PlainRead, PlainFail, SysRead,
         SysEof, SysFail, PostAgain, Last, DrainSkip, ReturnResult, transfer

\* A read implements DmaRequests on its handles, and returns with all its DMAs
\* collected, whatever it returns.
THEOREM UsesDmaCorrect == Spec => UsesDma
<1>1. Init => Dma!Init
  BY DEF Init, Dma!Init
<1>2. IInv /\ [Next \/ Finished]_vars => [Dma!Next]_(Dma!vars)
  <2>1. UNCHANGED vars => UNCHANGED Dma!vars
    BY DEF vars, Dma!vars
  <2> QED
    BY <2>1, DmaStep DEF Finished
<1>3. IInv => (pc = "done" => \A b \in Buf : dma[b] = "none")
  <2> SUFFICES ASSUME IInv, pc = "done", NEW b \in Buf PROVE dma[b] = "none"
    OBVIOUS
  <2>1. Low \in Nat /\ Hi \in Nat /\ Hi <= Low + NParas /\ Cur = Low + NParas
    BY Window DEF IInv
  <2>2. NParas \in Nat \ {0} /\ posted[b] \in Int
    BY Basics DEF IInv
  <2>3. posted[b] < Hi \/ posted[b] < Low
    BY <2>1, <2>2 DEF IInv, RingInv
  <2>4. ~(posted[b] >= Cur)
    BY <2>1, <2>2, <2>3
  <2> QED
    BY <2>4 DEF IInv, DmaInv
<1> QED
  BY <1>1, <1>2, <1>3, Invariance, PTL DEF Spec, UsesDma, Dma!Spec
=============================================================================
