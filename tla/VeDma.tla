------------------------------- MODULE VeDma -------------------------------
(***************************************************************************)
(* The user-space DMA descriptor table of libsysve: vedma_main.S and the   *)
(* waiting loop of vedma_init.c.  Threads post asynchronous DMAs, poll     *)
(* them, wait for them, and issue synchronous ones, under one spin lock;   *)
(* the DMA engine, which is hardware, finishes running descriptors in any  *)
(* order.                                                                  *)
(*                                                                         *)
(* A critical section is two steps, taking the lock and the rest, because  *)
(* only two things run beside a lock holder: the engine, and a synchronous *)
(* caller that reads its code and clears its slot without the lock.  Both  *)
(* of the latter are steps of their own.                                   *)
(***************************************************************************)
EXTENDS Integers

CONSTANTS
    Thread,     \* threads of the process
    Handle,     \* ve_dma_handle_t objects of the callers
    NDesc,      \* VEDMA_NDESC, the size of the descriptor table
    Exc,        \* exception fields of a finished descriptor, 0 included
    Null,       \* NULL in vedma_status, 0 in vedma_lock
    Sync        \* the value 1 in vedma_status: a synchronous caller owns it

ASSUME NDescAssumption == NDesc \in Nat \ {0}

\* The sentinels are told apart from handles, threads and codes: -1 and 1
\* are no exception code and no address of a handle.
ASSUME NamesAssumption ==
    /\ Null \notin Handle \cup Thread
    /\ Sync \notin Handle \cup {Null}
    /\ Handle \cap Thread = {}
    /\ Exc \cap {"idle", "run", "pending", "unset", "none", "again"} = {}

Slot == 0 .. NDesc - 1

VARIABLES
    vedma_lock,     \* the holder of the spin lock, Null when it is 0
    vedma_index,    \* the descriptor to be used next
    vedma_status,   \* vedma_status[i]: Null, Sync, or the handle to tell
    desc,           \* desc[i]: "idle", "run", or the exception code
    handle_status,  \* handle->status: "unset", "pending" (-1), or a code
    handle_index,   \* handle->index
    pc,             \* where each thread is
    cur,            \* the handle argument of the call a thread is in
    slot,           \* the descriptor of a synchronous call
    live,           \* handles posted and not yet reported (caller's view)
    ret             \* what the last poll, wait or post_wait of a thread returned

engine == <<vedma_status, desc>>
handles == <<handle_status, handle_index>>
vars == <<vedma_lock, vedma_index, vedma_status, desc, handle_status,
          handle_index, pc, cur, slot, live, ret>>

LockPC == {"post_lock", "poll_lock", "wait_lock", "pw_lock"}
CriticalPC == {"post", "poll", "wait", "pw"}
SyncPC == {"pw_wait", "pw_clear"}

-----------------------------------------------------------------------------
(* The tests and updates the routines share.                               *)

NextIndexUnmasked == vedma_index + 1

NextIndex == (vedma_index + 1) % NDesc

\* The descriptor has reported completion: 2 is set in its first word.
Done(i) == desc[i] \in Exc

\* Two ways to get the next test wrong, for the mutants: not to look at the
\* descriptor, not to wait for a synchronous owner.
ReclaimableUnchecked(i) == vedma_status[i] # Sync
ReclaimableFromSync(i) == vedma_status[i] = Null \/ Done(i)

\* The next descriptor may be started: nobody owns it, or it belongs to an
\* asynchronous DMA that is over.  A synchronous owner keeps it to the end.
Reclaimable(i) ==
    \/ vedma_status[i] = Null
    \/ vedma_status[i] \in Handle /\ Done(i)

SavedStatusForgotten(i) == handle_status

\* Reclaiming a descriptor stores its exception code in the old handle.
SavedStatus(i) ==
    IF vedma_status[i] \in Handle
    THEN [handle_status EXCEPT ![vedma_status[i]] = desc[i]]
    ELSE handle_status

\* A result in the handle was put there by whoever reused the descriptor.
Saved(h) == handle_status[h] # "pending"

Start(i, owner) ==
    /\ desc' = [desc EXCEPT ![i] = "run"]
    /\ vedma_status' = [vedma_status EXCEPT ![i] = owner]
    /\ vedma_index' = NextIndex

Unlock(t, next) ==
    /\ vedma_lock' = Null
    /\ pc' = [pc EXCEPT ![t] = next]

Return(t) ==
    /\ Unlock(t, "idle")
    /\ cur' = [cur EXCEPT ![t] = Null]

-----------------------------------------------------------------------------
(* Callers.  A handle is used by one thread at a time, is not posted again *)
(* while its DMA is unreported, and is not polled once it was reported.    *)

Free(h) == \A t \in Thread : cur[t] # h

Call(t, routine, h) ==
    /\ pc[t] = "idle"
    /\ pc' = [pc EXCEPT ![t] = routine]
    /\ cur' = [cur EXCEPT ![t] = h]
    /\ UNCHANGED <<vedma_lock, vedma_index, engine, handles, slot, live, ret>>

CallPost(t, h) == h \notin live /\ Free(h) /\ Call(t, "post_lock", h)
CallPoll(t, h) == h \in live /\ Free(h) /\ Call(t, "poll_lock", h)
CallWait(t, h) == h \in live /\ Free(h) /\ Call(t, "wait_lock", h)
CallPostWait(t) == Call(t, "pw_lock", Null)

\* cas.l until the lock word was 0.
Acquire(t, from, to) ==
    /\ pc[t] = from
    /\ vedma_lock = Null
    /\ vedma_lock' = t
    /\ pc' = [pc EXCEPT ![t] = to]
    /\ UNCHANGED <<vedma_index, engine, handles, cur, slot, live, ret>>

AcquireAny(t) ==
    \/ Acquire(t, "post_lock", "post")
    \/ Acquire(t, "poll_lock", "poll")
    \/ Acquire(t, "wait_lock", "wait")
    \/ Acquire(t, "pw_lock", "pw")

-----------------------------------------------------------------------------
(* ve_dma_post *)

PostStart(t) ==
    /\ pc[t] = "post"
    /\ Reclaimable(vedma_index)
    /\ Start(vedma_index, cur[t])
    /\ handle_status' = [SavedStatus(vedma_index) EXCEPT ![cur[t]] = "pending"]
    /\ handle_index' = [handle_index EXCEPT ![cur[t]] = vedma_index]
    /\ live' = live \cup {cur[t]}
    /\ Return(t)
    /\ UNCHANGED <<slot, ret>>

\* -EAGAIN: the table is full at its next descriptor.
PostBusy(t) ==
    /\ pc[t] = "post"
    /\ ~Reclaimable(vedma_index)
    /\ Return(t)
    /\ UNCHANGED <<vedma_index, engine, handles, slot, live, ret>>

-----------------------------------------------------------------------------
(* ve_dma_poll, and ve_dma_wait, which polls until the answer is no longer *)
(* -EAGAIN.                                                                *)

Polling(t) == pc[t] \in {"poll", "wait"}

Reports(t, e) ==
    /\ ret' = [ret EXCEPT ![t] = e]
    /\ live' = live \ {cur[t]}
    /\ Return(t)
    /\ UNCHANGED <<vedma_index, desc, handles, slot>>

PollSaved(t) ==
    /\ Polling(t)
    /\ Saved(cur[t])
    /\ Reports(t, handle_status[cur[t]])
    /\ UNCHANGED vedma_status

\* Mutant: the slot keeps pointing at a handle that was reported.
PollDoneKeepsSlot(t) ==
    LET i == handle_index[cur[t]] IN
    /\ Polling(t)
    /\ ~Saved(cur[t])
    /\ Done(i)
    /\ UNCHANGED vedma_status
    /\ Reports(t, desc[i])

PollDone(t) ==
    LET i == handle_index[cur[t]] IN
    /\ Polling(t)
    /\ ~Saved(cur[t])
    /\ Done(i)
    /\ vedma_status' = [vedma_status EXCEPT ![i] = Null]
    /\ Reports(t, desc[i])

NotDone(t) == Polling(t) /\ ~Saved(cur[t]) /\ ~Done(handle_index[cur[t]])

PollAgain(t) ==
    /\ NotDone(t)
    /\ pc[t] = "poll"
    /\ ret' = [ret EXCEPT ![t] = "again"]
    /\ Return(t)
    /\ UNCHANGED <<vedma_index, engine, handles, slot, live>>

WaitAgain(t) ==
    /\ NotDone(t)
    /\ pc[t] = "wait"
    /\ Unlock(t, "wait_lock")
    /\ UNCHANGED <<vedma_index, engine, handles, cur, slot, live, ret>>

-----------------------------------------------------------------------------
(* ve_dma_post_wait: spins, holding the lock, until the next descriptor is *)
(* reclaimable; waits for its own DMA and clears its slot without the lock.*)

PwStart(t) ==
    /\ pc[t] = "pw"
    /\ Reclaimable(vedma_index)
    /\ Start(vedma_index, Sync)
    /\ handle_status' = SavedStatus(vedma_index)
    /\ slot' = [slot EXCEPT ![t] = vedma_index]
    /\ Unlock(t, "pw_wait")
    /\ UNCHANGED <<handle_index, cur, live, ret>>

\* Mutant: waits on the descriptor that is next rather than on its own.
PwDoneElsewhere(t) ==
    /\ pc[t] = "pw_wait"
    /\ Done(vedma_index)
    /\ ret' = [ret EXCEPT ![t] = desc[vedma_index]]
    /\ pc' = [pc EXCEPT ![t] = "pw_clear"]
    /\ UNCHANGED <<vedma_lock, vedma_index, engine, handles, cur, slot, live>>

PwDone(t) ==
    /\ pc[t] = "pw_wait"
    /\ Done(slot[t])
    /\ ret' = [ret EXCEPT ![t] = desc[slot[t]]]
    /\ pc' = [pc EXCEPT ![t] = "pw_clear"]
    /\ UNCHANGED <<vedma_lock, vedma_index, engine, handles, cur, slot, live>>

PwClear(t) ==
    /\ pc[t] = "pw_clear"
    /\ vedma_status' = [vedma_status EXCEPT ![slot[t]] = Null]
    /\ pc' = [pc EXCEPT ![t] = "idle"]
    /\ UNCHANGED <<vedma_lock, vedma_index, desc, handles, cur, slot, live, ret>>

-----------------------------------------------------------------------------
\* The engine finishes a running descriptor; order among them is not fixed.
Complete(i, e) ==
    /\ desc[i] = "run"
    /\ desc' = [desc EXCEPT ![i] = e]
    /\ UNCHANGED <<vedma_lock, vedma_index, vedma_status, handles, pc, cur,
                   slot, live, ret>>

Engine == \E i \in Slot, e \in Exc : Complete(i, e)

\* What a thread does once it is inside a routine.
Proceed(t) ==
    \/ PostStart(t) \/ PostBusy(t)
    \/ PollSaved(t) \/ PollDone(t) \/ PollAgain(t) \/ WaitAgain(t)
    \/ PwStart(t) \/ PwDone(t) \/ PwClear(t)

Enter(t) ==
    \/ \E h \in Handle : CallPost(t, h) \/ CallPoll(t, h) \/ CallWait(t, h)
    \/ CallPostWait(t)

Init ==
    /\ vedma_lock = Null
    /\ vedma_index = 0
    /\ vedma_status = [i \in Slot |-> Null]
    /\ desc = [i \in Slot |-> "idle"]
    /\ handle_status = [h \in Handle |-> "unset"]
    /\ handle_index = [h \in Handle |-> 0]
    /\ pc = [t \in Thread |-> "idle"]
    /\ cur = [t \in Thread |-> Null]
    /\ slot = [t \in Thread |-> 0]
    /\ live = {}
    /\ ret = [t \in Thread |-> "none"]

Next ==
    \/ \E t \in Thread : Enter(t) \/ AcquireAny(t) \/ Proceed(t)
    \/ Engine

Spec == Init /\ [][Next]_vars

\* The engine finishes what it runs and a thread inside a routine keeps
\* running.  Nothing orders the threads that spin on the lock, so no
\* fairness is assumed of Acquire beyond the weak one.
Fairness ==
    /\ \A i \in Slot : WF_vars(\E e \in Exc : Complete(i, e))
    /\ \A t \in Thread : WF_vars(AcquireAny(t)) /\ WF_vars(Proceed(t))

FairSpec == Spec /\ Fairness

-----------------------------------------------------------------------------
(* Properties *)

TypeOK ==
    /\ vedma_lock \in Thread \cup {Null}
    /\ vedma_index \in Slot
    /\ vedma_status \in [Slot -> Handle \cup {Null, Sync}]
    /\ desc \in [Slot -> Exc \cup {"idle", "run"}]
    /\ handle_status \in [Handle -> Exc \cup {"unset", "pending"}]
    /\ handle_index \in [Handle -> Slot]
    /\ pc \in [Thread -> {"idle"} \cup LockPC \cup CriticalPC \cup SyncPC]
    /\ cur \in [Thread -> Handle \cup {Null}]
    /\ slot \in [Thread -> Slot]
    /\ live \subseteq Handle
    /\ ret \in [Thread -> Exc \cup {"none", "again"}]

\* Whom the outcome of descriptor i is still owed to.
AsyncOwners(i) == {h \in live : ~Saved(h) /\ handle_index[h] = i}
SyncOwners(i) == {t \in Thread : pc[t] \in SyncPC /\ slot[t] = i}

\* vedma_status names exactly the party a descriptor's outcome is still
\* owed to: a live handle whose result is not saved, or a synchronous
\* caller, and never two parties at once.  A slot wrongly cleared, reused
\* or doubly owned (two threads posting around a full table) breaks it.
OwnersTracked ==
    \A i \in Slot :
        /\ AsyncOwners(i) = {vedma_status[i]} \cap Handle
        /\ (SyncOwners(i) # {}) <=> (vedma_status[i] = Sync)
        /\ \A s, t \in SyncOwners(i) : s = t

\* While a DMA runs in a descriptor nobody takes the descriptor away from
\* its owner: ve_dma_post answers -EAGAIN and ve_dma_post_wait spins.
RunningOwnerKept ==
    [][\A i \in Slot : desc[i] = "run" => vedma_status'[i] = vedma_status[i]]_vars

\* The library writes to a handle only between its post and the report of
\* its result; afterwards the memory, usually a stack frame, is the
\* caller's again.  The delayed save of ve_dma_post and ve_dma_post_wait
\* is the write that could come too late.
NoLateHandleWrite ==
    [][\A h \in Handle :
         handle_status'[h] # handle_status[h] => h \in live \cup live']_vars

\* Refinement: whatever reuse, saving and clearing the table goes through,
\* each request's code reaches its caller once, and -EAGAIN is told only
\* of a DMA that still runs.
RequestOf(c) ==
    IF c \in Handle
    THEN IF c \notin live THEN "none"
         ELSE IF Saved(c) THEN handle_status[c]
         ELSE desc[handle_index[c]]
    ELSE IF pc[c] = "pw_wait" THEN desc[slot[c]] ELSE "none"

Outstanding == [c \in Handle \cup Thread |-> RequestOf(c)]

Requests == INSTANCE DmaRequests WITH
    Caller <- Thread,
    Client <- Handle \cup Thread,
    req <- Outstanding,
    got <- ret

Implements == Requests!Spec

\* A thread that got the lock for a synchronous DMA returns with its result.
\* It spins with the lock held until the engine finished the DMA of another,
\* and nobody else may be needed for it to go on.
SyncReturns == \A t \in Thread : (pc[t] = "pw") ~> (pc[t] = "idle")
=============================================================================
