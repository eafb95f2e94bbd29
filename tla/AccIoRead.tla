----------------------------- MODULE AccIoRead -----------------------------
(***************************************************************************)
(* One accelerated read: ve_accelerated_io_read_pread for read and pread,  *)
(* ve_accelerated_io_readv_preadv for readv and preadv, which are the same *)
(* pipeline but for the vectors they deliver to.  Chunk i is read by a     *)
(* system call into VH buffer j = i % NParas, moved to VE buffer j by an   *)
(* asynchronous DMA, and copied to the caller when buffer j is needed      *)
(* again or when the pipeline is drained.  The DMA moves the data when it  *)
(* completes, not when it is posted.                                       *)
(***************************************************************************)
EXTENDS AccIo

VARIABLES
    call,       \* the request
    file_size,  \* what the file holds
    fpos,       \* the file offset of the descriptor
    user,       \* the caller's vectors
    pc,
    i,          \* number of the chunk
    k,          \* position in the draining loop
    min_k,
    posted,     \* posted[j]: the chunk whose DMA buffer j still waits for
    read_out_size,
    ofs,        \* offset argument of the next system call
    next_iov,   \* [num, done]: next_iov_num and iov_len_done, or how far buf is
    exit_result,
    errno_bak,
    data_err,
    dma,        \* dma[j]: "none", "run", "ok" or "err", buffer j's handle
    dma_ret,    \* what the last ve_dma_wait returned
    vh,         \* VH buffers
    ve          \* VE buffers

args == <<call, file_size>>
file == <<fpos>>
loop == <<i, k, min_k>>
memory == <<user, next_iov>>
outcome == <<exit_result, errno_bak, data_err>>
transfer == <<dma, dma_ret, vh, ve>>
vars == <<call, file_size, fpos, user, pc, i, k, min_k, posted, read_out_size,
          ofs, next_iov, exit_result, errno_bak, data_err, dma, dma_ret, vh, ve>>

j == i % NParas
count == Total(call.iov)
transfer_size == ChunkSize(count, i)

\* Where the system call reads: SYS_pread64 at its argument, SYS_read at the
\* file offset, which it advances.
ByArgument == call.name \in {"pread", "preadv"}
FilePosition == IF ByArgument THEN ofs ELSE fpos
Advance(n) == fpos' = IF ByArgument THEN fpos ELSE fpos + n

\* A read of "size" units may return any part of what the file still has,
\* and nothing only at its end.
Readable(size) ==
    LET left == file_size - FilePosition IN
    IF left <= 0 THEN {0} ELSE {n \in 1 .. size : n <= left}

-----------------------------------------------------------------------------
(* Entry: requests of count 0 or of a NULL pointer, and those for which no  *)
(* buffers can be had, do not enter the pipeline.                          *)

NullBuffer ==
    /\ pc = "call"
    /\ ~CountIsZero(call) /\ call.null
    /\ exit_result' = -1
    /\ errno_bak' = "EFAULT"
    /\ pc' = "done"
    /\ UNCHANGED <<args, file, loop, memory, posted, read_out_size, ofs,
                   data_err, transfer>>

\* ve_accelerated_io_pre succeeds, or it fails or finds the thread's buffers
\* taken and the plain system call is used.
Pre ==
    /\ pc = "call"
    /\ ~CountIsZero(call) /\ ~call.null
    /\ pc' \in {IF count = 0 THEN "last" ELSE "read", "plain"}
    /\ UNCHANGED <<args, file, loop, memory, posted, read_out_size, ofs,
                   outcome, transfer>>

PreZero ==
    /\ pc = "call"
    /\ CountIsZero(call)
    /\ pc' = "plain"
    /\ UNCHANGED <<args, file, loop, memory, posted, read_out_size, ofs,
                   outcome, transfer>>

PlainRead ==
    /\ pc = "plain"
    /\ \E n \in IF count = 0 THEN {0} ELSE Readable(count) :
         /\ user' = Delivered(call.iov, n)
         /\ exit_result' = n
         /\ Advance(n)
    /\ pc' = "done"
    /\ UNCHANGED <<args, loop, next_iov, posted, read_out_size, ofs, errno_bak,
                   data_err, transfer>>

PlainFail ==
    /\ pc = "plain"
    /\ exit_result' = -1
    /\ errno_bak' = "sys"
    /\ pc' = "done"
    /\ UNCHANGED <<args, file, loop, memory, posted, read_out_size, ofs,
                   data_err, transfer>>

-----------------------------------------------------------------------------
(* The loop over the chunks.                                               *)

\* ve_dma_wait(&vedma_handle[b]) returns once the DMA is over; from then on
\* the handle has no request.
Waited(b, e) ==
    /\ dma[b] = e
    /\ dma' = [dma EXCEPT ![b] = "none"]
    /\ dma_ret' = e
    /\ UNCHANGED <<vh, ve>>

\* Each unit of the buffer to its place in the caller's vectors.
Scattered(b) ==
    LET P == Pairs(call.iov, next_iov, read_out_size[b]) IN
    [v \in Vector |-> [o \in Offset |->
        IF \E p \in P : p.vector = v /\ p.offset = o
        THEN ve[b][(CHOOSE p \in P : p.vector = v /\ p.offset = o).unit]
        ELSE user[v][o]]]

\* Copy buffer b to the caller and count its bytes.
Deliver(b) ==
    /\ user' = Scattered(b)
    /\ next_iov' = NextPosition(call.iov, next_iov, read_out_size[b])
    /\ exit_result' = exit_result + read_out_size[b]

\* Mutant: forgets that later buffers must not be delivered any more.
DmaFailedForgotten ==
    /\ exit_result' = -1
    /\ errno_bak' = "EIO"
    /\ UNCHANGED data_err

DmaFailed ==
    /\ exit_result' = -1
    /\ errno_bak' = "EIO"
    /\ data_err' = TRUE

WaitOk ==
    /\ pc = "wait"
    /\ Waited(j, "ok")
    /\ Deliver(j)
    /\ pc' = "read"
    /\ UNCHANGED <<args, file, loop, posted, read_out_size, ofs, errno_bak,
                   data_err>>

WaitErr ==
    /\ pc = "wait"
    /\ Waited(j, "err")
    /\ DmaFailed
    /\ posted' = [posted EXCEPT ![j] = NotPosted]
    /\ pc' = "last"
    /\ UNCHANGED <<args, file, loop, memory, read_out_size, ofs>>

SysRead ==
    /\ pc = "read"
    /\ \E n \in Readable(transfer_size) \ {0} :
         /\ vh' = [vh EXCEPT ![j] =
                      [u \in 1 .. Paras |-> IF u <= n THEN FilePosition + u - 1 ELSE @[u]]]
         /\ read_out_size' = [read_out_size EXCEPT ![j] = n]
         /\ Advance(n)
    /\ pc' = "post"
    /\ UNCHANGED <<args, loop, memory, posted, ofs, outcome, dma, dma_ret, ve>>

SysEof ==
    /\ pc = "read"
    /\ 0 \in Readable(transfer_size)
    /\ read_out_size' = [read_out_size EXCEPT ![j] = 0]
    /\ posted' = [posted EXCEPT ![j] = NotPosted]
    /\ pc' = "last"
    /\ UNCHANGED <<args, file, loop, memory, ofs, outcome, transfer>>

\* Mutant: every failing system call fails the request, as a failed DMA does.
SysFailAlways ==
    /\ pc = "read"
    /\ read_out_size' = [read_out_size EXCEPT ![j] = -1]
    /\ posted' = [posted EXCEPT ![j] = NotPosted]
    /\ exit_result' = -1 /\ errno_bak' = "sys"
    /\ data_err' = TRUE
    /\ pc' = "last"
    /\ UNCHANGED <<args, file, loop, memory, ofs, transfer>>

\* A failing system call fails the request only when it was the first.
SysFail ==
    /\ pc = "read"
    /\ read_out_size' = [read_out_size EXCEPT ![j] = -1]
    /\ posted' = [posted EXCEPT ![j] = NotPosted]
    /\ IF i = 0
       THEN exit_result' = -1 /\ errno_bak' = "sys"
       ELSE UNCHANGED <<exit_result, errno_bak>>
    /\ pc' = "last"
    /\ UNCHANGED <<args, file, loop, memory, ofs, data_err, transfer>>

\* Mutant: the next chunk does not wait for the buffer it needs.
NextChunkNoWait ==
    IF transfer_size <= read_out_size[j] /\ i + 1 < Chunks(count)
    THEN i' = i + 1 /\ pc' = "read"
    ELSE i' = i /\ pc' = "last"

NextChunk ==
    IF transfer_size <= read_out_size[j] /\ i + 1 < Chunks(count)
    THEN i' = i + 1 /\ pc' = IF i + 1 >= NParas THEN "wait" ELSE "read"
    ELSE i' = i /\ pc' = "last"

PostOk ==
    /\ pc = "post"
    /\ dma' = [dma EXCEPT ![j] = "run"]
    /\ ofs' = ofs + read_out_size[j]
    /\ posted' = [posted EXCEPT ![j] = i]
    /\ NextChunk
    /\ UNCHANGED <<args, file, k, min_k, memory, read_out_size, outcome,
                   dma_ret, vh, ve>>

\* Mutant: the buffer's previous chunk stays marked as posted.
PostAgainKeepsPosted ==
    /\ pc = "post"
    /\ DmaFailed
    /\ ofs' = ofs + transfer_size
    /\ pc' = "last"
    /\ UNCHANGED <<args, file, loop, memory, posted, read_out_size, transfer>>

\* ve_dma_post answers -EAGAIN: other requests fill the descriptor table.
PostAgain ==
    /\ pc = "post"
    /\ DmaFailed
    /\ ofs' = ofs + transfer_size
    /\ posted' = [posted EXCEPT ![j] = NotPosted]
    /\ pc' = "last"
    /\ UNCHANGED <<args, file, loop, memory, read_out_size, transfer>>

-----------------------------------------------------------------------------
(* Draining: the buffers still posted, the oldest chunk first.             *)

Last ==
    /\ pc = "last"
    /\ min_k' = FindMinPosted(posted)
    /\ k' = 0
    /\ pc' = "drain"
    /\ UNCHANGED <<args, file, i, memory, posted, read_out_size, ofs, outcome,
                   transfer>>

DrainBuf == (min_k + k) % NParas
Draining == pc = "drain" /\ k < NParas

DrainSkip ==
    /\ Draining
    /\ posted[DrainBuf] = NotPosted
    /\ k' = k + 1
    /\ UNCHANGED <<args, file, pc, i, min_k, memory, posted, read_out_size, ofs,
                   outcome, transfer>>

DrainOk ==
    /\ Draining
    /\ posted[DrainBuf] # NotPosted
    /\ Waited(DrainBuf, "ok")
    /\ IF data_err THEN UNCHANGED <<user, next_iov, exit_result>> ELSE Deliver(DrainBuf)
    /\ k' = k + 1
    /\ UNCHANGED <<args, file, pc, i, min_k, posted, read_out_size, ofs,
                   errno_bak, data_err>>

\* Mutant: returns on the error, without waiting for the other buffers.
DrainErrReturns ==
    /\ Draining
    /\ posted[DrainBuf] # NotPosted
    /\ Waited(DrainBuf, "err")
    /\ DmaFailed
    /\ pc' = "done"
    /\ UNCHANGED <<args, file, loop, memory, posted, read_out_size, ofs>>

DrainErr ==
    /\ Draining
    /\ posted[DrainBuf] # NotPosted
    /\ Waited(DrainBuf, "err")
    /\ DmaFailed
    /\ k' = k + 1
    /\ UNCHANGED <<args, file, pc, i, min_k, memory, posted, read_out_size,
                   ofs>>

\* ve_accelerated_io_post gives the buffers back to the thread.
ReturnResult ==
    /\ pc = "drain" /\ k = NParas
    /\ pc' = "done"
    /\ UNCHANGED <<args, file, loop, memory, posted, read_out_size, ofs,
                   outcome, transfer>>

-----------------------------------------------------------------------------
\* What is in a VE buffer after its DMA failed.
Lost == [u \in 1 .. Paras |-> Garbage]

\* The engine copies the VH buffer and completes, or fails.
Complete(b) ==
    /\ dma[b] = "run"
    /\ \/ dma' = [dma EXCEPT ![b] = "ok"] /\ ve' = [ve EXCEPT ![b] = vh[b]]
       \/ dma' = [dma EXCEPT ![b] = "err"] /\ ve' = [ve EXCEPT ![b] = Lost]
    /\ UNCHANGED <<args, file, pc, loop, memory, posted, read_out_size, ofs,
                   outcome, dma_ret, vh>>

Init ==
    /\ call \in Requests({"read", "pread", "readv", "preadv"})
    /\ file_size \in 0 .. MaxCount
    /\ fpos = 0
    /\ user = [v \in Vector |-> [o \in Offset |-> Untouched]]
    /\ pc = "call"
    /\ i = 0 /\ k = 0 /\ min_k = 0
    /\ posted = [b \in Buf |-> NotPosted]
    /\ read_out_size = [b \in Buf |-> 0]
    /\ ofs = 0
    /\ next_iov = Start
    /\ exit_result = 0 /\ errno_bak = "0" /\ data_err = FALSE
    /\ dma = [b \in Buf |-> "none"]
    /\ dma_ret = "none"
    /\ vh = [b \in Buf |-> [u \in 1 .. Paras |-> Untouched]]
    /\ ve = [b \in Buf |-> [u \in 1 .. Paras |-> Untouched]]

\* The code of read and pread, and of readv and preadv, is in these parts.
Entry == NullBuffer \/ Pre \/ PreZero \/ PlainRead \/ PlainFail
Loop == WaitOk \/ WaitErr \/ SysRead \/ SysEof \/ SysFail \/ PostOk \/ PostAgain
Drain == Last \/ DrainSkip \/ DrainOk \/ DrainErr \/ ReturnResult
Step == Entry \/ Loop \/ Drain

Next == Step \/ \E b \in Buf : Complete(b)

\* The request is over: the thread goes on with something else.
Finished == pc = "done" /\ UNCHANGED vars

Spec == Init /\ [][Next \/ Finished]_vars

\* The thread runs on and the engine completes what was posted.
FairSpec == Spec /\ WF_vars(Step) /\ \A b \in Buf : WF_vars(Complete(b))

-----------------------------------------------------------------------------
(* Properties *)

TypeOK ==
    /\ call \in Requests({"read", "pread", "readv", "preadv"})
    /\ file_size \in 0 .. MaxCount
    /\ fpos \in 0 .. MaxCount
    /\ user \in [Vector -> [Offset -> Unit]]
    /\ pc \in {"call", "plain", "wait", "read", "post", "last", "drain", "done"}
    /\ i \in Nat /\ k \in 0 .. NParas /\ min_k \in Buf
    /\ posted \in [Buf -> Nat \cup {NotPosted}]
    /\ read_out_size \in [Buf -> 0 .. Paras \cup {-1}]
    /\ ofs \in Nat
    /\ next_iov \in Position
    /\ exit_result \in 0 .. MaxCount \cup {-1}
    /\ errno_bak \in {"0", "EFAULT", "EIO", "sys"}
    /\ data_err \in BOOLEAN
    /\ dma \in [Buf -> {"none", "run", "ok", "err"}]
    /\ dma_ret \in {"none", "ok", "err"}
    /\ vh \in [Buf -> Buffer]
    /\ ve \in [Buf -> Buffer]

\* A read that returns n >= 0 delivered exactly the next n units of the file,
\* in order through all vectors, no more than asked for and nothing behind
\* them or behind the end of a vector, however system calls fell short or
\* failed, the two DMAs overlapped and chunks and vectors cut each other; the
\* file offset moved by n, so no unit was taken that the caller does not get;
\* and 0 is the answer only at the end of the file or to a count of 0.
DeliveredExactly ==
    pc = "done" /\ exit_result >= 0 =>
        /\ exit_result <= count
        /\ user = Delivered(call.iov, exit_result)
        /\ ~ByArgument => fpos = exit_result
        /\ exit_result = 0 => count = 0 \/ file_size = 0

\* -1 with the error of the system call means that nothing happened: nothing
\* was taken from the file and the caller's buffer is as it was.
SystemErrorIsClean ==
    pc = "done" /\ exit_result = -1 =>
        /\ errno_bak # "0"
        /\ errno_bak = "sys" => fpos = 0 /\ user = Delivered(call.iov, 0)

\* While a DMA runs the thread writes neither of its two buffers.
BuffersQuiet ==
    [][\A b \in Buf : dma[b] = "run" /\ dma'[b] = "run" =>
                          vh'[b] = vh[b] /\ ve'[b] = ve[b]]_vars

\* The request uses DMA as DmaRequests offers it, so VeDma's assumption on
\* its callers holds: no handle is posted twice or waited for without a DMA.
\* When the request returns it has collected every DMA it posted: the handles
\* are on its stack, and the buffers serve the thread's next request.
Dma == INSTANCE DmaRequests WITH
    Caller <- {"thread"},
    Client <- Buf,
    Exc <- {"ok", "err"},
    req <- dma,
    got <- [t \in {"thread"} |-> dma_ret]

UsesDma == Dma!Spec /\ [](pc = "done" => \A b \in Buf : dma[b] = "none")

\* Every request returns.
Returns == <>(pc = "done")

\* EIO is the answer to a DMA that failed; -EAGAIN of ve_dma_post is not a
\* failure ("Need to call vedma_post() again", vedma.h).
EioMeansDmaFailed ==
    [][errno_bak' = "EIO" /\ errno_bak # "EIO" => \E b \in Buf : dma[b] = "err"]_vars
=============================================================================
