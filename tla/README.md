# A verification project for libsysve

libsysve is the VE-side system library of NEC's Vector Engine: user-space DMA, accelerated file I/O
built on it, asynchronous I/O, calls into host (VH) libraries, and thin wrappers around the `sysve`
system call. This directory holds TLA+ models of the parts that keep state of their own, the TLC
configurations that check them on small instances, and machine-checked (TLAPS) proofs about each of
them, for every number of threads, buffers, descriptors, vectors, bytes and arguments.
Paths below are relative to the repository; `src/…` is its source directory.

## 1. Inventory

| Component | Source | State | Operations | Status |
|---|---|---|---|---|
| VE DMA descriptor table | `src/vedma_main.S`, `src/vedma_init.c` | spin lock, next index, owner word of each of 128 descriptors; `status`/`index` of the callers' handles; the descriptors | `ve_dma_post`, `ve_dma_poll`, `ve_dma_wait`, `ve_dma_post_wait` | all but `ve_dma_read_ctrl_reg` modelled |
| VE DMA setup | `src/vedma_init.c` | `init_lock`, `ve_dma_initialized`, the mapping | `ve_dma_init`, fork handler | modelled |
| Accelerated read, pread, readv, preadv | `src/accelerated_io.c` 441-924 | per call: two buffer pairs, `posted`, sizes, handles, position in the vectors | the hook functions | modelled |
| Accelerated write, pwrite, writev, pwritev | `src/accelerated_io.c` 937-1405 | the same, in the other direction | the hook functions | modelled |
| Buffers of accelerated I/O | `src/accelerated_io.c` 120-439, 1410-1437, `src/libsysve_atomic.s` | using flag of each thread, thread-specific data, list of resources and its lock, the hooks | pre, post, key destructor, fork handlers | modelled |
| VE AIO | `src/libveaio.c` | one result word and lock per context, `ve_aio_setup` | init, fini, read, write, query, wait | modelled |
| Vector copy | `src/libsysve_vec_memcpy.S` | registers of one call | `__libsysve_vec_memcpy` | modelled |
| VHCall | `src/libvhcall.c` | a sorted list of arguments per `vhcall_args` | alloc, set, clear, free, `vhcall_invoke_with_args` | all but the four functions that only forward to a system call |
| Wrappers | `src/libsysve.c`, `libveshm.c`, `libvhshm.c`, `libvecr.c`, `libuserdma.c`, `libvedma.c` | none | one system call each | not modelled |

How they interact. The hooks of accelerated I/O run inside the program's `read` and `write`. The first
request of a thread calls `ve_dma_init` and gets buffers; every request then calls `ve_dma_post` and
`ve_dma_wait` with handles on its stack. All threads of the process, accelerated I/O or not, share one
descriptor table and its spin lock. The DMA engine and VEOS run beside all of it. `pthread_atfork`
handlers of DMA setup and of the buffers, and a key destructor at thread exit, run between requests;
signal handlers may run in the middle of them. VE AIO is independent of DMA: VEOS writes results
straight into the context. The vector copy moves data between user buffers and those of accelerated I/O.
VHCall depends on none of the others.

What makes each part correct:

* Descriptor table: one owner per descriptor; a running DMA keeps its descriptor; each code reaches the
  party it is owed to, once, whichever way it goes; no write into a handle its caller has given up; the
  lock is let go.
* Setup: no use of a table that is not mapped in this process; a second initialisation changes nothing;
  a child's inherited lock does not stay locked.
* Read and write: data is delivered in order, without gap, overlap or garbage; counts, offsets and
  errors tell what happened; no DMA outlives its request; buffers under DMA are not written.
* Buffers: one request at a time per thread; list sound whenever unlocked; no request waits for a lock of
  its own thread; an exit releases what its destructor is called with, and a fork leaves no copies behind.
* VE AIO: one request per context; answers not older than promised and of one request; a released
  context is not written to.
* Vector copy: the n bytes asked for and no other; legal vector accesses; it ends.
* VHCall: the list is sorted and sound, whatever the order of the setters; an invocation sends all
  arguments, in order and in a buffer of the right size, or nothing; walking a list that grows ends.

The hazards are listed at their lines in `PROJECT.json`, with the properties that watch them. The hard
behaviours are interleavings of threads with the engine, handlers on top of their own thread, forks in
the middle of other threads' calls, and failures in the middle of a pipeline.

## 2. Modules

| Module | Models | How state and actions correspond |
|---|---|---|
| `DmaRequests` | what VE DMA promises | a request per handle or synchronous caller: submitted, finished with a code, reported once |
| `VeDma` | `vedma_main.S`, `ve_dma_wait` | variables carry the names of `vedma_vars` and of the handle's fields (`handle_status`, `handle_index`); `Acquire` is the `cas.l` loop, and each way through a critical section is one action (`PostStart`, `PostBusy`, `PollSaved`, `PollDone`, `PollAgain`, `WaitAgain`, `PwStart`); the unlocked end of `ve_dma_post_wait` is `PwDone` (its code is read) and `PwClear` (its slot is cleared); `Complete` is the engine |
| `VeDmaProofs` | | theorems about `VeDma` and `VeDmaInit` |
| `VeDmaInit` | `vedma_init.c` | a copy of `init_lock`, `ve_dma_initialized`, mapping and ring lock per process; the ring operations are reduced to their critical section; `ring_lock` is `vedma_lock`, and `SetupInit`, `SetupNext`, `SetupSpec`, `SetupTypeOK` are named apart from those of `VeDma` |
| `AccIo` | helpers of the two pipelines | requests, chunk arithmetic, `__ve_find_min_posted`; the loops over the iovecs: `VeBuffSizeLess` is `ve_buff_size_less` before each vector, `Pairs` which unit goes where, `NextPosition` the values `next_iov_num` and `iov_len_done` are left with |
| `AccIoRead`, `AccIoWrite` | one call of `ve_accelerated_io_read_pread` or `…_readv_preadv`; of `…_write_pwrite` or `…_writev_pwritev` | variables carry the names of the C locals; one action per branch of the loop and of the drain; `Complete` moves the data, when the engine is done and not when it is posted |
| `AccIoProofs`, `AccIoReadProofs`, `AccIoWriteProofs` | | lemmas about the ring, the chunks and the loops over the vectors; theorems about the two pipelines |
| `AccIoResources`, `MCAccIoResources`, `AccIoResourcesProofs` | pre, post, destructor and fork handlers | two levels per thread: its own code and a handler on top of it; the list is `next`/`prev` as in the code; `vedma_lock` is taken by the DMAs of a request (`"dma"`) and by the program's own (`"direct"`), `init_lock` by the setup of a first request (`"init_check"`) and by the program's own `ve_dma_init` (`"direct_init"`), `dma_ready` is `ve_dma_initialized`: so the library's three locks and the masking of signals are in one model. `CallDestructor`, `ExitEnds` and `Gone` are what pthread does at the end of a thread |
| `VeAio`, `VeAioProofs` | `libveaio.c` | requests are numbered, and a result word holds the number of the request it tells about, so that stale and torn results can be told from right ones; read and write differ in nothing modelled |
| `VecMemcpy` | `__libsysve_vec_memcpy` | one action per label of the routine, and one for each way out of it; the halves `..8` and `..4` are one with the size `w` of an element; `p`, `q`, `i` are the registers |
| `VecMemcpyProofs` | | theorems about `VecMemcpy` |
| `VhcallMap` | what a `vhcall_args` object promises | a map from argument numbers to values, and what an invocation sends of it |
| `VhcallArgs` | `libvhcall.c` | `num`, `next`, `data` of every element and of the head; `WalkOn` … `WalkNoMemory` are `vhcall_args_append`, called by a setter or, from `CheckFills`, by an invocation |
| `VhcallArgsProofs` | | theorems about `VhcallArgs` |

What the models abstract. Addresses, sizes of DMAs, exception bits and buffer contents are reduced to
what the properties tell apart. A critical section of `VeDma` is one step after taking the lock, because
only the engine and the unlocked end of `ve_dma_post_wait` run beside its holder; both are steps of
their own and commute with the rest: the one turns a running descriptor into a finished one, which the
section reads once, and the other concerns a slot marked 1, which the section never writes. Memory is
sequentially consistent; the fences around lock and unlock (`fencem`) are what justifies that and are
not modelled. Memory of `AccIoRead` and `AccIoWrite` holds unit numbers: unit `n` of the file (or of
the caller's vectors, one after the other) is `n`, untouched memory is -1 and what a failed DMA leaves is
-2, so that position, order and origin of every unit are compared and values are not needed. The vector
functions are the plain ones except for their loops over the iovecs, so one module models both: a plain
request is one with a single vector, for which `Pairs` and `NextPosition` amount to the pointer `buf`. The
entry differs in one point, which is modelled: `count` is a number of bytes in the one and a number of
iovecs in the other, so a vector request for no bytes at all returns 0 without any system call. The file is only touched by the request itself. Sizes are not rounded up to 4 bytes
(`GET_DMA_SIZE`), since the surplus stays inside the buffers. `VecMemcpy` records in `mem`, for each byte
stored, the address it was loaded from; source and destination do not overlap, as nothing in `src/` copies
onto itself. In `VhcallArgs` an element's data is a value that is or is not a double complex, the setters of
all types are therefore two, and a setter stores its value in the step that ends its walk, because an
object is used by one thread. Argument numbers near `INT_MAX`, where `num + 1` overflows, are left out.

Assumptions about callers, where no code in `src/` enforces them: a handle is in one call at a time, is
not posted while it is unreported and not polled after it was reported, as `ve_dma_poll` does not keep
the code and would answer with that of whatever DMA its descriptor holds by then; an
AIO context is released only by a caller who knows no other thread is in a call on it. Accelerated I/O
is checked to be such a caller of VE DMA: that is what `UsesDma` says, with `DmaRequests` standing
between the two.

## 3. Runs

| Run | Configuration | Shows |
|---|---|---|
| `vedma` | 2 threads, 2 handles, 2 descriptors, 1 code | `OwnersTracked`, `RunningOwnerKept`, `NoLateHandleWrite`, `VeDma` implements `DmaRequests`, `SyncReturns` |
| `dma_init` | 3 threads, one of which forks | `RingUsedMapped`, `RingLockAlive`; `RingKept`: lock and slots of a ring that is set up change only by a step of the thread that takes or holds the lock |
| `acc_read` | 2 pairs of buffers of 2 units; one vector of 0 to 9 units or up to 3 of 0 to 3; files of 0 to 9 units | data, counts and offsets delivered exactly, errors, buffers quiet under DMA, use of DMA and nothing left of it, return |
| `acc_write` | the same requests | file contents, counts, errors, use of DMA and nothing left of it, return |
| `acc_resources` | 2 threads, a handler on each, 3 resources, the library's three locks | exclusive buffers, sound list, no request waits for a lock its own thread holds but in the two cases `NoSelfWait` names, exits release what the destructor was called with (`ExitReleases`) |
| `aio` | 2 threads, 2 contexts, 2 requests | one request per context, no stale result, release, becoming free again |
| `vec_memcpy` | vectors of 3 elements, all alignments modulo 8, sizes 0 to 80 | exact copy at every moment, legal vector accesses, end |
| `vhcall_args` | 3 elements, numbers 0 to 3, values with and without two records | memory and order of the list, `VhcallArgs` implements `VhcallMap`, calls return |
| `dma_init_fails` | 2 threads | violated `InitReturns` |
| `acc_read_eagain` | one vector, requests up to 5 units | violated `EioMeansDmaFailed` |
| `acc_fork_leak` | 2 threads, 2 resources | violated `ChildClean` |
| `aio_torn` | 2 threads, 1 context, 2 requests | violated `OneOutcome` |

Why the bounds are enough. Two descriptors make the table wrap and fill with two handles, and a
synchronous caller meet its own and a foreign descriptor; one exception code is enough to tell a result
from none. The proofs of section 4 remove all bounds of this table, for the
safety properties and the refinements. Nine units
in buffers of two are five chunks, so each of the two buffers is reused twice and the last chunk may be
full, half or absent; every count up to nine covers both sides of each boundary. Three vectors of up to three units in chunks
of two make a vector end before, at and behind the end of a chunk, span several chunks, share one with
both of its neighbours, and be empty at every place. `Readable` and the write actions try every short
transfer. With three resources a thread makes buffers, exits, and has a
handler set its key anew during the exit while the other thread inserts or removes beside it. pthread calls
a destructor again while its key is set, at least four times by POSIX and then as it likes. The model takes
no number of rounds for granted: the exit may end after the first or any later one (`ExitEnds`), and until
the thread is gone a handler's request may set the key once more. Nobody releases what such a request got
after the last round, and `ExitReleases` allows that resource, the one the key names, and no other.
Two AIO requests on a context are what a torn or stale result needs. Vectors of three elements of eight
bytes make a copy of 80 bytes up to three whole vectors, a shorter one and bytes on both sides, and sizes
below and from 40 on take the different ways. Three list elements and four
numbers leave a gap at every place, insert at the front, in the middle and at the end, and let memory end
before a gap is filled. `MaxRequest` bounds the
numbers of AIO requests, and `MaxCount`, `MaxIov` and `MaxLen` the sizes of accelerated requests; the
other bounds are the sets the configurations give. No state constraint is used.

Symmetry is used in `acc_resources`, over threads and over resources, where no liveness is checked and no
definition chooses among them. Deadlock is checked except in `dma_init`, `dma_init_fails`,
`acc_resources`, `acc_fork_leak` and `vec_memcpy`: there a failed setup leaves threads waiting for
`init_lock`, all threads may exit, and a copy is over.

Fairness. Running code keeps running (weak fairness of the steps of a thread inside a call), the engine
finishes what it runs, and VEOS finishes what it accepted. Nothing is assumed about which of the threads
spinning on `vedma_lock` obtains it, so `SyncReturns` starts after it was obtained. In
`dma_init_fails` a thread waiting for `init_lock` is not passed over for ever (strong fairness, the most
a mutex could give), so the counterexample is the lock that is never unlocked. In `acc_read` and
`acc_write` the step of a thread in `ve_dma_wait` is enabled when its DMA is over. `vec_memcpy` and
`vhcall_args` only assume that the one thread in the call goes on.

### What the violated properties show

* `InitReturns`: `ve_dma_init` returns with `init_lock` locked when `ve_map_dmades` fails
  (`src/vedma_init.c:79-81`); the next call hangs instead of returning -1 (`include/vedma.h:76`).
* `EioMeansDmaFailed`: `-EAGAIN` of `ve_dma_post`, which `include/vedma.h:91-92` says asks to call it
  again, ends an accelerated read with EIO (`src/accelerated_io.c:578-585`). The same code is
  in the other paths (`815`, `1048`, `1311`).
* `ChildClean`: buffers exist before they are on the list and after they left it
  (`src/accelerated_io.c:264-293`, `376-388`); forked in between, the child keeps a copy, though
  `src/accelerated_io.c:344` says its handler clears all of them.
* `OneOutcome`: a query beside a reuse of its context can return `retval` of one request and `errnoval`
  of the next (`src/libveaio.c:277-280`).

Two things the models show without a violated property, since nothing in the repository says otherwise:

* `NoSelfWait` of `AccIoResources` names the two cases it leaves out. A handler that starts an accelerated
  request on top of a VE DMA call the program itself makes would wait for `vedma_lock` or `init_lock` for
  ever (`src/vedma_main.S:65`, `src/vedma_init.c:70`; signals are not masked). On top of an accelerated
  request it cannot, because the using flag turns the handler's request into a plain system call before it
  comes to a lock. And a `ve_map_dmades` that fails leaves `init_lock` locked (`src/vedma_init.c:79-81`, the
  violated `InitReturns`). When it failed in a first request, every later one that still gets through the
  hooks waits for ever: in a handler on the same thread between the clearing of the flag
  (`src/accelerated_io.c:321`) and the freeing of the hooks, and in other threads that have passed the hooks
  by then. When it failed in a `ve_dma_init` of the program, which frees no hooks, any first request does.
* An invocation fills gaps in the list it is given, one by one (`src/libvhcall.c:517-533`). When it then
  fails, because memory ran out or an argument lies beyond the number announced, the zeros filled so far
  stay. `Fill` of `VhcallMap` says exactly which may be there, the one at the announced number included.

## 4. Proofs

### The descriptor table

`VeDmaProofs` proves, for every number of threads, handles, descriptors and exception codes:

* `Invariance`: `Spec => []IInv`.
* `TypeCorrect`, `OwnersCorrect`: `TypeOK` and `OwnersTracked` are invariants.
* `RunningOwnerKeptCorrect`, `NoLateHandleWriteCorrect`: the two action properties.
* `Refinement`: `Spec => Requests!Spec`, the refinement of `DmaRequests` under `Outstanding`.

The assumptions are `NDescAssumption` (at least one descriptor) and `NamesAssumption` (the values NULL
and 1 of an owner word, handles, threads and codes can be told apart).

The argument. `OwnersTracked` is not inductive by itself: that a slot's owner is right after a poll
depends on the handle's index, that on who else uses the handle, and that on the lock. `IInv` is the
conjunction of `TypeOK` and

* `CallInv`: a call has its handle to itself and in the right state,
* `LockInv`: the lock word names the one thread in a critical section,
* `HandleInv`: an unsaved live handle and its slot point at each other,
* `DescInv`: an owned descriptor was started, an unowned one is at rest,
* `SyncInv`: slots marked 1 and threads past the lock of `ve_dma_post_wait` correspond one to one.

One lemma per conjunct shows that every step keeps it. `SyncInv` carries the delicate point: the
unlocked clearing of `PwClear` hits only a slot nobody else may take, because a slot marked 1 is never
reclaimed. For the refinement there is one lemma per kind of step; the interesting one is `PostSubmits`:
saving a result into the old handle while its descriptor is reused leaves that request as it was.
TLC checked every formula, `IInv` included, before it was proved.

### The vector copy

`VecMemcpyProofs` proves, for every vector length, every two addresses and every size:

* `Invariance`: `Spec => []IInv`.
* `TypeCorrect`: no register leaves its range; the bytes left never become negative.
* `CopyCorrect`: the routine is memcpy.
* `VectorCorrect`: vector accesses are aligned and not longer than the registers.

The assumptions are `MVLAssumption` (a vector has at least one element) and `ArgumentsAssumption`
(addresses and sizes are natural numbers).

The argument. `CopiedExactly` says nothing of the bytes left, and so nothing of which loop may run. `IInv`
is the conjunction of `TypeOK` and

* `Progress`: the three registers are in step, and memory is the prefix they have passed;
* `Arrived`: what each label relies on, for example `i < w` at `rem_2` and `i >= MVL * w` in the loop.

The point of it is `"pre"`, whose loop never looks at the bytes left: `Arrived` bounds what was copied
by what the alignment needs, at most 7 bytes, and the size by the 40 tested before, so `i` is
still positive when the destination is aligned. Everything else follows from lemmas about `%` and `\div`,
each proved for elements of 4 and of 8 bytes in turn. A step lemma is split by label: `CopyStep` is for
those that store, `NoCopyStep` for those that only choose a label.

### The setup of VE DMA

`VeDmaProofs` also proves, for every set of threads, `SetupTypeCorrect`, `RingUsedMappedCorrect`,
`RingLockAliveCorrect` and `RingKeptCorrect` of `VeDmaInit`, assuming only that `None` is no thread
(`NoneAssumption`). `SetupIInv` is the conjunction of `SetupTypeOK`, `RingLockAlive` and

* `AliveInv`: only threads that exist in a process do anything in it, so a child has the forking thread only;
* `StageInv`: mapped, then reset, then initialised, then usable, and where `init_lock`'s holder is on the way;
* `RingInv`: a thread at work in the ring holds its lock.

`RingKept` is about steps: while a ring is set up, its lock changes only when the thread whose step it is
takes or gives back that lock, and its slots only when that thread gives it back. A second initialisation
would be a step of a thread that does neither.

`RingLockAlive` holds across a fork because the handler clears `ve_dma_initialized` in the child
(`src/vedma_init.c:100`) and the lock is reset before the flag is set again.

### Accelerated reads and writes

`AccIoReadProofs` and `AccIoWriteProofs` prove, for every number of buffers (`BUFF_NPARAS` is
`NParas`), every size of them, every number and length of vectors and every file, with every short
transfer and every failure:

* `TypeCorrect`: no counter, size or position leaves its range;
* `DeliveredExactlyCorrect`, `SystemErrorIsCleanCorrect` of reads;
* `WrittenCorrect`, `CountedExactlyCorrect`, `SystemErrorIsCleanCorrect` of writes;
* `BuffersQuietCorrect` of reads: no step of the thread changes a buffer under DMA;
* `UsesDmaCorrect` of both: a request uses VE DMA as `DmaRequests` offers it, and returns with every DMA
  collected. With `Refinement` of `VeDmaProofs` this is the contract between the two components, proved
  from both of its sides.

The assumption is `SizesAssumption`: there is a buffer, it holds something, and a request with several vectors is no
longer than the longest with one. The last is about the bounds of the model, not about the code.

The argument. The properties speak of the end of a request, or of the file as a whole; what makes them
true is which chunk is where meanwhile. The chunks that have a buffer are a window `Low .. Hi - 1` of at
most `NParas` chunks, and `Cur` is the first of them the thread has not dealt with; all three are
functions of `pc`, `i` and `k`. `IInv` is `TypeOK` and

* `LoopInv`: what the loop relies on at each of its places;
* `RingInv`: chunk `c` of the window is posted in buffer `c % NParas` and nothing else is; `min_k` is the
  buffer of `Low` when there is one;
* `DmaInv`: exactly the buffers of the window from `Cur` on have a DMA (for writes from `Due` on, since a
  chunk is waited for before it is written);
* `SizeInv` (reads): only the last chunk is short, and none is empty;
* `DataInv`: a buffer holds its chunk on the VH side, and on the VE side once its DMA succeeded (the other
  way round for writes);
* `FileInv` (reads): the file offset is behind what was read; `PositionInv` (writes): the place in the
  vectors is where chunk `i` begins;
* `ResultInv`: what has been delivered or written are the first `Got` units, and the result counts them,
  as long as nothing failed; when something did, what the result may still say.

`RingInv` is why `pc = "wait"` waits for the oldest chunk and why draining from `min_k` around the ring
meets the chunks in order: numbers less than `NParas` apart with the same remainder are equal
(`RingDistinct`). There is one lemma per action or group of actions (`SysReadStep`, `PostStep`,
`DrainWriteStep`, …); `DeliverNext` and `StoreNext` are the two places where data leaves the pipeline. Types are proved
last: that the position in the vectors stays in range follows from the rest of the invariant in the new state.

`AccIoProofs` has what both rest on. `PairsSpec`: the loop over the vectors copies each unit of the next
`size` to the offset of the vector it belongs to, and no other. `NextPositionSpec`: it ends `size`
units further on. `Scatter` and `Gather` conclude what the caller's memory or the VE buffer holds
afterwards, and `NothingLeft` that a write never has part of a buffer unfilled, so what
`need_write_in_size` subtracts (`src/accelerated_io.c:1320`) is nothing. `First` and `VeBuffSizeLess` are
recursive functions. That they exist is shown with an explicit function that satisfies the equation
(`Beyond` for `VeBuffSizeLess`), and facts about all their values by taking the least counterexample in an interval
(`IntervalInduction`, over a set); the library's induction theorems take an operator as a parameter and
are not needed.

### The buffers and their list

`AccIoResourcesProofs` proves, for every set of threads and every finite set of resources,
`TypeCorrect`, `BuffersExclusiveCorrect`, `NoSelfWaitCorrect`, `ExitReleasesCorrect` and
`ListSoundCorrect`, from `NamesAssumption` (NULL, the list's head, threads and resources can be told
apart) and `ResAssumption` (a process has finitely many resources). `IInv` is `TypeOK` and

* `LevelInv`: the levels of a thread exclude each other in requests, and code that masked its signals has
  no handler on top of it;
* `LockInv`: the list's lock and `vedma_lock` are held by whoever is in a critical section;
* `InitLockInv`: so is `init_lock`, once VE DMA is set up; before that a call that failed may have left it;
* `OwnerInv`: each live resource is its thread's present one, or one being set up, or one being released
  by the destructor, and only one of these;
* `ListInv`: there is a numbering of the linked resources along which `next` and `prev` agree.

`ListInv` speaks of every state, locked or not, because insertion and removal are single steps under the
lock. `NoSelfWait` follows from `LevelInv` and the lock invariants; `ExitReleases` from `OwnerInv`, whose
last place but the key is the destructor's, for any number of destructor rounds. `ListSound` speaks of `Listed`, the fork handler's walk, which is the recursive function `Walk`;
`SeenSteps` says what the walk has seen after each step along the numbering.

### VE AIO

`VeAioProofs` proves, for every set of threads and contexts, `TypeCorrect`, `OneRequestCorrect`,
`NotStaleCorrect` and `ReleasedQuietCorrect`, from `NoneAssumption` and `MaxRequestAssumption` (the
bound on requests is a number). `IInv` is `TypeOK` and

* `CallInv`: a context in a call is live and its call's floor is not ahead of it;
* `SubmitInv`: a thread about to mark a context holds its `status_lock`; one in the system call has it
  marked active, with no request on the host, and no other thread is in the call with the same context;
* `ResultInv`: the host has at most the context's last request, and only of an active context; where it
  has none, both result words tell of the last request;
* `AnswerInv`: what a query or wait has loaded so far, and what it is still going to load, is not older than
  its floor.

`AnswerInv` needs both words at once: after the first load the second must not fall behind, though the
context may be reused between the two, which is what `OneOutcome` is violated by.

### Argument lists of VHCall

`VhcallArgsProofs` proves, for every set of elements, numbers and values:

* `Invariance`: `Spec => []IInv`.
* `TypeCorrect`: what an invocation writes to its buffer never exceeds the buffer.
* `MemorySafeCorrect`: the list holds what is allocated in ascending order; walking, clearing and the
  two passes of an invocation meet existing elements only, and the second pass fills the buffer exactly.
* `Refinement`: `Spec => Implements`, the refinement of `VhcallMap`.
* `CallsShrink`: every step inside a call brings its end nearer.

The assumptions are `ValueAssumption` and `NamesAssumption` (zero takes one record; NULL, the head and
the elements can be told apart), `NodeAssumption` (memory has room for finitely many elements) and
`NumberAssumption` (the argument numbers are 0, or 0 to some number, or all natural numbers). `IInv` is
`TypeOK` and

* `ListInv`: the allocated elements, with the head in front, are linked in ascending order
  (`Sorted`); in `vhcall_args_clear`, where the head dangles, those from `p` on are;
* `BackInv`, `WalkInv`: where a setter returns to, and what it has behind it;
* `FillInv`: the gap an invocation is filling stays open, and at its place, until the setter is done;
* `CountInv`: up to the element the first pass has reached no number is missing, and the
  size of the buffer counts the elements left behind, each once;
* `BuildInv`: in the second pass nothing is missing, and the buffer holds the records of the
  elements left behind, in order, with room for exactly those still to come;
* `IdleInv`: outside an invocation there is no buffer.

The argument. `Sorted` says of each link that it leads to the element with the next higher number. That is
enough for every walk and survives an insertion at any place (`LinkedSorted`, `InsertPlace`), also under
an invocation that is walking the same list, whose element stays where it is (`FillBehind`). `MemorySafe`
speaks of `From`, the elements reached by following the links; it is the least set closed under them, and
`FromSorted` says that it is the whole of a sorted list. The size of the buffer is a sum over a set of
elements, `Weight`; `WeightMore` and `WeightLess` take one element out of it. The records sent are those of `FlattenSeq` of
the community modules, which is a recursive function: as with `First` above, that it exists is shown by
giving it explicitly, and `RecordsMore` says what one more argument adds.

The map of `VhcallMap` is found in the list by its numbers (`MapHeld`). One lemma per group of actions
shows what the abstract object does in it: `CallsImplement`; `SettersImplement`, where the end of a walk
is `Set` for a caller and `Fill` for an invocation; `ClearingImplements`; `RefusalImplements`;
`SendingImplements`, where `FlattenSeq` in ascending order and the buffer meet; `BufferImplements`. The
rest are stutters (`PassesStutter`).

`CallsShrink` is the part of `CallsReturn` that is about the code rather than about scheduling. Three
natural numbers, compared in this order, go down with every step: the passes left, the numbers the first
pass has before it, present ones and gaps together (`Pending`), and the steps left at that number. An
invocation that fills a gap makes its list longer, but the gap was pending before: the list cannot grow
ahead of the walk for ever. The descent is the theorem; that a call under way can always take a step, and
that it is not stopped, is what TLC adds.

### What is only model-checked

* Liveness under fairness (`SyncReturns`, `Returns`, `ActiveEnds`, `CallsReturn`), which TLAPS does not
  prove; for `CallsReturn` the descent it rests on is proved.
* The violated properties, which are counterexamples.

Every other property of every run is a theorem. TLC checked every inductive invariant on the instances of
section 3 before it was proved, and does so again with a proof module in place of the model, the same
constants and `INVARIANT IInv` (`SetupIInv`, with `SPECIFICATION SetupSpec`, for `VeDmaInit`).

## 5. Plan

In the order of what matters most; the items done are those of sections 2 to 4.

1. `DmaRequests`, `VeDma`, proofs: done.
2. `VeDmaInit`, `AccIoRead`, `AccIoWrite`, `AccIoResources`, `VeAio`: modelled and checked.
3. `VecMemcpy` with its proofs: done. `VhcallMap`, `VhcallArgs`: modelled and checked.
4. Composition of the handlers with the lock of the table, in `AccIoResources`: done.
5. Proofs of all safety properties of `VeDmaInit`, `AccIoRead`, `AccIoWrite`, `AccIoResources` and `VeAio`,
   and of the use of DMA by the pipelines: done. Of `VhcallArgs`, with the refinement and the termination
   order of its calls: done.
6. Requests of several threads over `VeDma` itself rather than over `DmaRequests`. The refinement proved
   for `VeDma` and the use checked by `UsesDma` meet in `DmaRequests`, so this would only be a cross-check.

Not modelled, and not planned:

* the wrappers, because they keep no state and add argument checks to one system call, and for the same
  reason `vhcall_install`, `vhcall_find`, `vhcall_invoke` and `vhcall_uninstall`;
* `ve_dma_read_ctrl_reg`, which copies two registers;
* failures of `pthread_mutex_lock` and `pthread_mutex_unlock` in `ve_dma_init` (`src/vedma_init.c:70-72`,
  `90-92`): a default mutex, locked and then unlocked by one thread, has none;
* the locks inside malloc and free (`src/accelerated_io.c:259`, `399-409`), which belong to the C library:
  `NoSelfWait` says nothing of a handler's first request that comes to malloc while the code it interrupted,
  the program's or the destructor's, is in malloc or free;
* `VE_SECOND_SYS_CALL_FLAG`, which tells VEOS of a second system call of one request;
* the count of bytes in w bits where it wraps (`src/accelerated_io.c:518`): the system call refuses such counts;
* the build files, examples and documents.

VEOS, the DMA engine, malloc and the kernel's file I/O are external and appear as what the code can see of them.
