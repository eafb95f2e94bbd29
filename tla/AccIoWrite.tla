----------------------------- MODULE AccIoWrite ----------------------------
(***************************************************************************)
(* One accelerated write: ve_accelerated_io_write_pwrite for write and     *)
(* pwrite, ve_accelerated_io_writev_pwritev for writev and pwritev, which  *)
(* are the same pipeline but for the vectors they gather from.  Chunk i is *)
(* copied from the caller into VE buffer j = i % NParas and moved to VH    *)
(* buffer j by an asynchronous DMA; the system call that writes it is made *)
(* when buffer j is needed again or when the pipeline is drained, always   *)
(* in the order of the chunks.                                             *)
(***************************************************************************)
EXTENDS AccIo

VARIABLES
    call,       \* the request
    fpos,       \* the file offset of the descriptor
    contents,   \* the file: which unit of the caller's vectors is at an offset
    pc,
    i,          \* number of the chunk
    k,          \* position in the draining loop
    min_k,
    posted,     \* posted[j]: the chunk in buffer j that is not written yet
    need_write_in_size,
    ofs,        \* offset argument of the next system call
    next_iov,   \* [num, done]: next_iov_num and iov_len_done, or how far buf is
    ve_buff_size_less,  \* what the vectors left of the buffer filled last
    exit_result,
    errno_bak,
    data_err,
    dma,        \* dma[j]: "none", "run", "ok" or "err", buffer j's handle
    dma_ret,    \* what the last ve_dma_wait returned
    ve,         \* VE buffers
    vh          \* VH buffers

file == <<fpos, contents>>
loop == <<i, k, min_k>>
memory == <<next_iov, ve_buff_size_less>>
result == <<exit_result, errno_bak>>
requests == <<dma, dma_ret>>
buffers == <<ve, vh>>
vars == <<call, fpos, contents, pc, i, k, min_k, posted, need_write_in_size,
          ofs, next_iov, ve_buff_size_less, exit_result, errno_bak, data_err,
          dma, dma_ret, ve, vh>>

j == i % NParas
count == Total(call.iov)
transfer_size == ChunkSize(count, i)

\* Where the system call writes: SYS_pwrite64 at its argument, SYS_write at
\* the file offset, which it advances.
ByArgument == call.name \in {"pwrite", "pwritev"}
FilePosition == IF ByArgument THEN ofs ELSE fpos
Advance(n) == fpos' = IF ByArgument THEN fpos ELSE fpos + n

\* The file holds the first n units of the caller's vectors.
Prefix(n) == [o \in Offset |-> IF o < n THEN o ELSE Untouched]

\* A system call that stores the first n units of a buffer in the file.
Store(buffer, n) ==
    /\ contents' = [o \in Offset |-> IF o \in FilePosition .. FilePosition + n - 1
                                     THEN buffer[o - FilePosition + 1]
                                     ELSE contents[o]]
    /\ Advance(n)

-----------------------------------------------------------------------------
(* Entry, as for a read.                                                   *)

NullBuffer ==
    /\ pc = "call"
    /\ ~CountIsZero(call) /\ call.null
    /\ exit_result' = -1
    /\ errno_bak' = "EFAULT"
    /\ pc' = "done"
    /\ UNCHANGED <<call, file, loop, posted, need_write_in_size, ofs, memory,
                   data_err, requests, buffers>>

Pre ==
    /\ pc = "call"
    /\ ~CountIsZero(call) /\ ~call.null
    /\ pc' \in {IF count = 0 THEN "last" ELSE "copy", "plain"}
    /\ UNCHANGED <<call, file, loop, posted, need_write_in_size, ofs, memory,
                   result, data_err, requests, buffers>>

PreZero ==
    /\ pc = "call"
    /\ CountIsZero(call)
    /\ pc' = "plain"
    /\ UNCHANGED <<call, file, loop, posted, need_write_in_size, ofs, memory,
                   result, data_err, requests, buffers>>

PlainWrite ==
    /\ pc = "plain"
    /\ \E n \in 0 .. count :
         /\ contents' = Prefix(n)
         /\ Advance(n)
         /\ exit_result' = n
    /\ pc' = "done"
    /\ UNCHANGED <<call, loop, posted, need_write_in_size, ofs, memory,
                   errno_bak, data_err, requests, buffers>>

PlainFail ==
    /\ pc = "plain"
    /\ exit_result' = -1
    /\ errno_bak' = "sys"
    /\ pc' = "done"
    /\ UNCHANGED <<call, file, loop, posted, need_write_in_size, ofs, memory,
                   data_err, requests, buffers>>

-----------------------------------------------------------------------------
(* The loop over the chunks.                                               *)

Waited(b, e) ==
    /\ dma[b] = e
    /\ dma' = [dma EXCEPT ![b] = "none"]
    /\ dma_ret' = e

\* Mutant: forgets that later chunks must not be written any more.
FailForgotten(e) ==
    /\ exit_result' = -1
    /\ errno_bak' = e
    /\ UNCHANGED data_err

Fail(e) ==
    /\ exit_result' = -1
    /\ errno_bak' = e
    /\ data_err' = TRUE

\* Buffer j still holds chunk i - NParas, which is written first.
WaitOk ==
    /\ pc = "wait"
    /\ Waited(j, "ok")
    /\ pc' = "write"
    /\ UNCHANGED <<call, file, loop, posted, need_write_in_size, ofs, memory,
                   result, data_err, buffers>>

WaitErr ==
    /\ pc = "wait"
    /\ Waited(j, "err")
    /\ Fail("EIO")
    /\ posted' = [posted EXCEPT ![j] = NotPosted]
    /\ pc' = "last"
    /\ UNCHANGED <<call, file, loop, need_write_in_size, ofs, memory, buffers>>

\* The system call stored n units and the request counts them.
Wrote(b, n) ==
    /\ Store(vh[b], n)
    /\ exit_result' = exit_result + n
    /\ ofs' = ofs + n

WriteFull ==
    /\ pc = "write"
    /\ Wrote(j, Paras)
    /\ pc' = "copy"
    /\ UNCHANGED <<call, loop, posted, need_write_in_size, memory, errno_bak,
                   data_err, requests, buffers>>

\* A short write, nothing at all included, is the last one.
WriteShort ==
    /\ pc = "write"
    /\ \E n \in 0 .. Paras - 1 : Wrote(j, n)
    /\ data_err' = TRUE
    /\ posted' = [posted EXCEPT ![j] = NotPosted]
    /\ pc' = "last"
    /\ UNCHANGED <<call, loop, need_write_in_size, memory, errno_bak, requests,
                   buffers>>

\* Mutant: the request fails although earlier chunks were written.
WriteFailAlways ==
    /\ pc = "write"
    /\ exit_result' = -1 /\ errno_bak' = "sys"
    /\ data_err' = TRUE
    /\ posted' = [posted EXCEPT ![j] = NotPosted]
    /\ pc' = "last"
    /\ UNCHANGED <<call, file, loop, need_write_in_size, ofs, memory, requests,
                   buffers>>

\* A failing system call fails the request only for its first chunk.
WriteFail ==
    /\ pc = "write"
    /\ IF posted[j] = 0
       THEN exit_result' = -1 /\ errno_bak' = "sys"
       ELSE UNCHANGED result
    /\ data_err' = TRUE
    /\ posted' = [posted EXCEPT ![j] = NotPosted]
    /\ pc' = "last"
    /\ UNCHANGED <<call, file, loop, need_write_in_size, ofs, memory, requests,
                   buffers>>

\* A buffer with the next units of the caller's vectors copied into it.
Gathered(buffer) ==
    LET P == Pairs(call.iov, next_iov, transfer_size) IN
    [u \in 1 .. Paras |->
        IF \E p \in P : p.unit = u
        THEN LET p == CHOOSE q \in P : q.unit = u
             IN  First(call.iov)[p.vector] + p.offset
        ELSE buffer[u]]

\* Fill VE buffer j from the caller's vectors.
Copy ==
    /\ pc = "copy"
    /\ ve' = [ve EXCEPT ![j] = Gathered(@)]
    /\ next_iov' = NextPosition(call.iov, next_iov, transfer_size)
    /\ ve_buff_size_less' =
           IF call.name \in Vectored
           THEN VeBuffSizeLess(call.iov, next_iov, transfer_size)[Len(call.iov) + 1]
           ELSE 0
    /\ pc' = "post"
    /\ UNCHANGED <<call, file, loop, posted, need_write_in_size, ofs, result,
                   data_err, requests, vh>>

\* Mutant: takes the next buffer without waiting for what it holds.
NextChunkNoWait ==
    IF i + 1 < Chunks(count)
    THEN i' = i + 1 /\ pc' = "copy"
    ELSE i' = i /\ pc' = "last"

NextChunk ==
    IF i + 1 < Chunks(count)
    THEN i' = i + 1 /\ pc' = IF i + 1 >= NParas THEN "wait" ELSE "copy"
    ELSE i' = i /\ pc' = "last"

PostOk ==
    /\ pc = "post"
    /\ dma' = [dma EXCEPT ![j] = "run"]
    /\ posted' = [posted EXCEPT ![j] = i]
    /\ need_write_in_size' =
           [need_write_in_size EXCEPT ![j] = transfer_size - ve_buff_size_less]
    /\ NextChunk
    /\ UNCHANGED <<call, file, k, min_k, ofs, memory, result, data_err, dma_ret,
                   buffers>>

\* Mutant: the buffer's previous chunk stays marked as posted.
PostAgainKeepsPosted ==
    /\ pc = "post"
    /\ Fail("EIO")
    /\ pc' = "last"
    /\ UNCHANGED <<call, file, loop, posted, need_write_in_size, ofs, memory,
                   requests, buffers>>

\* ve_dma_post answers -EAGAIN: other requests fill the descriptor table.
PostAgain ==
    /\ pc = "post"
    /\ Fail("EIO")
    /\ posted' = [posted EXCEPT ![j] = NotPosted]
    /\ pc' = "last"
    /\ UNCHANGED <<call, file, loop, need_write_in_size, ofs, memory, requests,
                   buffers>>

-----------------------------------------------------------------------------
(* Draining: wait for every DMA, the oldest chunk first; write the chunks  *)
(* as long as nothing went wrong.                                          *)

Last ==
    /\ pc = "last"
    /\ min_k' = FindMinPosted(posted)
    /\ k' = 0
    /\ pc' = "drain"
    /\ UNCHANGED <<call, file, i, posted, need_write_in_size, ofs, memory,
                   result, data_err, requests, buffers>>

DrainBuf == (min_k + k) % NParas
Draining == pc = "drain" /\ k < NParas

DrainSkip ==
    /\ Draining
    /\ posted[DrainBuf] = NotPosted
    /\ k' = k + 1
    /\ UNCHANGED <<call, file, pc, i, min_k, posted, need_write_in_size, ofs,
                   memory, result, data_err, requests, buffers>>

DrainOk ==
    /\ Draining
    /\ posted[DrainBuf] # NotPosted
    /\ Waited(DrainBuf, "ok")
    /\ IF data_err
       THEN k' = k + 1 /\ UNCHANGED pc
       ELSE pc' = "drain_write" /\ UNCHANGED k
    /\ UNCHANGED <<call, file, i, min_k, posted, need_write_in_size, ofs,
                   memory, result, data_err, buffers>>

\* Mutant: returns on the error, without waiting for the other buffers.
DrainErrReturns ==
    /\ Draining
    /\ posted[DrainBuf] # NotPosted
    /\ Waited(DrainBuf, "err")
    /\ Fail("EIO")
    /\ pc' = "done"
    /\ UNCHANGED <<call, file, loop, posted, need_write_in_size, ofs, memory,
                   buffers>>

DrainErr ==
    /\ Draining
    /\ posted[DrainBuf] # NotPosted
    /\ Waited(DrainBuf, "err")
    /\ Fail("EIO")
    /\ k' = k + 1
    /\ UNCHANGED <<call, file, pc, i, min_k, posted, need_write_in_size, ofs,
                   memory, buffers>>

\* Mutant: a short or failed write does not keep back the next chunk.
DrainWriteGoesOn ==
    /\ pc = "drain_write"
    /\ \E n \in 0 .. need_write_in_size[DrainBuf] : Wrote(DrainBuf, n)
    /\ k' = k + 1
    /\ pc' = "drain"
    /\ UNCHANGED <<call, i, min_k, posted, need_write_in_size, memory,
                   errno_bak, data_err, requests, buffers>>

DrainWrite ==
    /\ pc = "drain_write"
    /\ \E n \in 0 .. need_write_in_size[DrainBuf] :
         /\ Wrote(DrainBuf, n)
         /\ data_err' = (n < need_write_in_size[DrainBuf])
    /\ k' = k + 1
    /\ pc' = "drain"
    /\ UNCHANGED <<call, i, min_k, posted, need_write_in_size, memory,
                   errno_bak, requests, buffers>>

DrainFail ==
    /\ pc = "drain_write"
    /\ IF posted[DrainBuf] = 0
       THEN exit_result' = -1 /\ errno_bak' = "sys"
       ELSE UNCHANGED result
    /\ data_err' = TRUE
    /\ k' = k + 1
    /\ pc' = "drain"
    /\ UNCHANGED <<call, file, i, min_k, posted, need_write_in_size, ofs,
                   memory, requests, buffers>>

ReturnResult ==
    /\ pc = "drain" /\ k = NParas
    /\ pc' = "done"
    /\ UNCHANGED <<call, file, loop, posted, need_write_in_size, ofs, memory,
                   result, data_err, requests, buffers>>

-----------------------------------------------------------------------------
\* What is in a VH buffer after its DMA failed.
Lost == [u \in 1 .. Paras |-> Garbage]

\* The engine copies the VE buffer and completes, or fails.
Complete(b) ==
    /\ dma[b] = "run"
    /\ \/ dma' = [dma EXCEPT ![b] = "ok"] /\ vh' = [vh EXCEPT ![b] = ve[b]]
       \/ dma' = [dma EXCEPT ![b] = "err"] /\ vh' = [vh EXCEPT ![b] = Lost]
    /\ UNCHANGED <<call, file, pc, loop, posted, need_write_in_size, ofs,
                   memory, result, data_err, dma_ret, ve>>

Init ==
    /\ call \in Requests({"write", "pwrite", "writev", "pwritev"})
    /\ fpos = 0
    /\ contents = [o \in Offset |-> Untouched]
    /\ pc = "call"
    /\ i = 0 /\ k = 0 /\ min_k = 0
    /\ posted = [b \in Buf |-> NotPosted]
    /\ need_write_in_size = [b \in Buf |-> 0]
    /\ ofs = 0
    /\ next_iov = Start /\ ve_buff_size_less = 0
    /\ exit_result = 0 /\ errno_bak = "0" /\ data_err = FALSE
    /\ dma = [b \in Buf |-> "none"]
    /\ dma_ret = "none"
    /\ ve = [b \in Buf |-> [u \in 1 .. Paras |-> Untouched]]
    /\ vh = [b \in Buf |-> [u \in 1 .. Paras |-> Untouched]]

\* The code of write and pwrite, and of writev and pwritev, is in these parts.
Entry == NullBuffer \/ Pre \/ PreZero \/ PlainWrite \/ PlainFail
Loop ==
    \/ WaitOk \/ WaitErr \/ WriteFull \/ WriteShort \/ WriteFail
    \/ Copy \/ PostOk \/ PostAgain
Drain ==
    \/ Last \/ DrainSkip \/ DrainOk \/ DrainErr \/ DrainWrite \/ DrainFail
    \/ ReturnResult
Step == Entry \/ Loop \/ Drain

Next == Step \/ \E b \in Buf : Complete(b)

\* The request is over: the thread goes on with something else.
Finished == pc = "done" /\ UNCHANGED vars

Spec == Init /\ [][Next \/ Finished]_vars

\* The thread runs on and the engine completes what was posted.
FairSpec == Spec /\ WF_vars(Step) /\ \A b \in Buf : WF_vars(Complete(b))

-----------------------------------------------------------------------------
(* Properties *)

TypeOK ==
    /\ call \in Requests({"write", "pwrite", "writev", "pwritev"})
    /\ fpos \in 0 .. MaxCount
    /\ contents \in [Offset -> Unit]
    /\ pc \in {"call", "plain", "wait", "write", "copy", "post", "last", "drain",
               "drain_write", "done"}
    /\ i \in Nat /\ k \in 0 .. NParas /\ min_k \in Buf
    /\ posted \in [Buf -> Nat \cup {NotPosted}]
    /\ need_write_in_size \in [Buf -> 0 .. Paras]
    /\ ofs \in 0 .. MaxCount
    /\ next_iov \in Position /\ ve_buff_size_less \in 0 .. Paras
    /\ exit_result \in 0 .. MaxCount \cup {-1}
    /\ errno_bak \in {"0", "EFAULT", "EIO", "sys"}
    /\ data_err \in BOOLEAN
    /\ dma \in [Buf -> {"none", "run", "ok", "err"}]
    /\ dma_ret \in {"none", "ok", "err"}
    /\ ve \in [Buf -> Buffer]
    /\ vh \in [Buf -> Buffer]

\* What is in the file is, at every moment and whatever fails, the beginning
\* of the caller's vectors in their order: no gap behind a short write, no
\* chunk before an earlier one, no unit of a failed or unfinished DMA, none
\* skipped or taken twice where a chunk ends within a vector.
Written == \E n \in 0 .. count : contents = Prefix(n)

\* A result n >= 0 counts exactly what is in the file.
CountedExactly ==
    pc = "done" /\ exit_result >= 0 =>
        /\ contents = Prefix(exit_result)
        /\ ~ByArgument => fpos = exit_result

\* -1 with the error of the system call means that nothing was written.
SystemErrorIsClean ==
    pc = "done" /\ exit_result = -1 =>
        /\ errno_bak # "0"
        /\ errno_bak = "sys" => fpos = 0 /\ contents = Prefix(0)

\* The request uses DMA as DmaRequests offers it, so VeDma's assumption on
\* its callers holds: no handle is posted twice or waited for without a DMA.
\* When the request returns it has collected every DMA it posted: the handles
\* are on its stack, and the buffers serve the thread's next request.
Dma == INSTANCE DmaRequests WITH
    Caller <- {"thread"},
    Client <- Buf,
    Exc <- {"ok", "err"},
    req <- dma,
    got <- [t \in {"thread"} |-> dma_ret]

UsesDma == Dma!Spec /\ [](pc = "done" => \A b \in Buf : dma[b] = "none")

\* Every request returns.
Returns == <>(pc = "done")
=============================================================================
