--------------------------- MODULE AccIoResources --------------------------
(***************************************************************************)
(* The buffers behind accelerated I/O (accelerated_io.c): each thread gets *)
(* its own on its first request, keeps them in thread-specific data and in *)
(* a process-wide doubly linked list, and gives them up when it exits; a   *)
(* forked child frees what the list holds.  A request of a signal handler  *)
(* may interrupt a request of its own thread at any step where signals are *)
(* not masked: level 1 is the thread's own code, level 2 a handler on it.  *)
(***************************************************************************)
EXTENDS Integers, FiniteSets

CONSTANTS
    Thread,
    Res,        \* acc_io_resources structures, each with its buffers
    Null

ASSUME NamesAssumption ==
    Null \notin Res \cup Thread /\ "head" \notin Res \cup {Null}
ASSUME ResAssumption == IsFiniteSet(Res)

Level == {1, 2}
Node == Res \cup {"head"}

VARIABLES
    hooks,      \* the I/O hooks are installed
    using,      \* ve_buff_using_flag of each thread
    key,        \* thread-specific data: the thread's resource or Null
    state,      \* state[r]: "none", "alive" or "freed"
    owner,      \* the thread a resource was made for
    next, prev, \* the list, with "head" for list_head
    list_lock,  \* holder of acc_io_resources_list_lock
    masked,     \* all signals of the thread are blocked
    pc,         \* pc[t][l]: where thread t is at level l
    my,         \* my[t][l]: the resource that step works on
    leaked,     \* resources a forked child was left with
    init_lock,  \* whoever locked the mutex of ve_dma_init
    dma_ready,  \* ve_dma_initialized
    vedma_lock  \* holder of the spin lock of VE DMA

list == <<next, prev>>
dma == <<init_lock, dma_ready, vedma_lock>>
vars == <<hooks, using, key, state, owner, list, list_lock, masked, pc, my, leaked, dma>>

\* What the list holds, following next from the head.
Walk[n \in 0 .. Cardinality(Res)] ==
    IF n = 0 THEN {next["head"]}
    ELSE Walk[n - 1] \cup {next[r] : r \in Walk[n - 1] \ {Null}}
Listed == Walk[Cardinality(Res)] \ {Null}

\* Level 1 stands still while a handler runs on its thread.
Runs(t, l, from) == pc[t][l] = from /\ (l = 1 => pc[t][2] = "idle")
Goto(t, l, from, to) == Runs(t, l, from) /\ pc' = [pc EXCEPT ![t][l] = to]

-----------------------------------------------------------------------------
(* ve_accelerated_io_pre *)

\* A request: of the thread, or of a handler where signals are let through.
Begin(t, l) ==
    /\ hooks
    /\ pc[t][1] # "exited"
    /\ l = 2 => ~masked[t]
    /\ Goto(t, l, "idle", "swap")
    /\ UNCHANGED <<dma, hooks, using, key, state, owner, list, list_lock, masked, my, leaked>>

\* Mutant: does not look at what the flag was.
SwapUnchecked(t, l) ==
    /\ Goto(t, l, "swap", "lookup")
    /\ using' = [using EXCEPT ![t] = TRUE]
    /\ UNCHANGED <<dma, hooks, key, state, owner, list, list_lock, masked, my, leaked>>

\* NOBUF, and a plain system call, when the thread's buffers are in use.
Swap(t, l) ==
    /\ Goto(t, l, "swap", IF using[t] THEN "idle" ELSE "lookup")
    /\ using' = [using EXCEPT ![t] = TRUE]
    /\ UNCHANGED <<dma, hooks, key, state, owner, list, list_lock, masked, my, leaked>>

Lookup(t, l) ==
    /\ Goto(t, l, "lookup", IF key[t] = Null THEN "init" ELSE "io")
    /\ UNCHANGED <<dma, hooks, using, key, state, owner, list, list_lock, masked, my, leaked>>

\* Mutant: the error path keeps the flag.
SetupFailsKeepsFlag(t, l) ==
    /\ pc[t][l] \in {"init", "setup"} /\ Goto(t, l, pc[t][l], "unhook")
    /\ UNCHANGED <<dma, hooks, using, key, state, owner, list, list_lock, masked, my, leaked>>

\* The environment, before VE DMA is set up, or malloc, after it, says no: FAIL.
SetupFails(t, l) ==
    /\ pc[t][l] \in {"init", "setup"} /\ Goto(t, l, pc[t][l], "unhook")
    /\ using' = [using EXCEPT ![t] = FALSE]
    /\ UNCHANGED <<dma, hooks, key, state, owner, list, list_lock, masked, my, leaked>>

\* ve_dma_init, with signals let through
InitLock(t, l, from, to) ==
    /\ init_lock = Null
    /\ Goto(t, l, from, to)
    /\ init_lock' = t
    /\ UNCHANGED <<dma_ready, vedma_lock, hooks, using, key, state, owner, list, list_lock,
                   masked, my, leaked>>

\* Mutant: it does not unlock what it locked.
InitDoneKeepsLock(t, l, from, to) ==
    /\ Goto(t, l, from, to)
    /\ dma_ready' = TRUE
    /\ UNCHANGED <<init_lock, vedma_lock, hooks, using, key, state, owner, list, list_lock,
                   masked, my, leaked>>

\* Set up now or found to be set up; the mutex is unlocked.
InitDone(t, l, from, to) ==
    /\ Goto(t, l, from, to)
    /\ dma_ready' = TRUE
    /\ init_lock' = Null
    /\ UNCHANGED <<vedma_lock, hooks, using, key, state, owner, list, list_lock, masked, my,
                   leaked>>

\* ve_map_dmades fails, and init_lock stays locked: FAIL of a request.
InitFails(t, l) ==
    /\ ~dma_ready
    /\ Goto(t, l, "init_check", "unhook")
    /\ using' = [using EXCEPT ![t] = FALSE]
    /\ UNCHANGED <<dma, hooks, key, state, owner, list, list_lock, masked, my, leaked>>

\* After FAIL no request of the process is accelerated any more.
Unhook(t, l) ==
    /\ Goto(t, l, "unhook", "idle")
    /\ hooks' = FALSE
    /\ UNCHANGED <<dma, using, key, state, owner, list, list_lock, masked, my, leaked>>

\* VE_SYSVE_ACCELERATED_IO_INIT2 fails: NOBUF, this request is not accelerated.
NoBuffers(t, l) ==
    /\ Goto(t, l, "setup", "idle")
    /\ using' = [using EXCEPT ![t] = FALSE]
    /\ UNCHANGED <<dma, hooks, key, state, owner, list, list_lock, masked, my, leaked>>

Setup(t, l, r) ==
    /\ state[r] = "none"
    /\ Goto(t, l, "setup", "set_key")
    /\ state' = [state EXCEPT ![r] = "alive"]
    /\ owner' = [owner EXCEPT ![r] = t]
    /\ my' = [my EXCEPT ![t][l] = r]
    /\ UNCHANGED <<dma, hooks, using, key, list, list_lock, masked, leaked>>

\* pthread_setspecific
SetKey(t, l) ==
    /\ Goto(t, l, "set_key", "mask")
    /\ key' = [key EXCEPT ![t] = my[t][l]]
    /\ UNCHANGED <<dma, hooks, using, state, owner, list, list_lock, masked, my, leaked>>

SetKeyFails(t, l) ==
    /\ Goto(t, l, "set_key", "unhook")
    /\ state' = [state EXCEPT ![my[t][l]] = "freed"]
    /\ using' = [using EXCEPT ![t] = FALSE]
    /\ UNCHANGED <<dma, hooks, key, owner, list, list_lock, masked, my, leaked>>

\* Mutant: the list is locked with signals let through.
MaskNot(t, l, from, to) ==
    /\ Goto(t, l, from, to)
    /\ UNCHANGED <<dma, hooks, using, key, state, owner, list, list_lock, masked, my, leaked>>

Mask(t, l, from, to) ==
    /\ Goto(t, l, from, to)
    /\ masked' = [masked EXCEPT ![t] = TRUE]
    /\ UNCHANGED <<dma, hooks, using, key, state, owner, list, list_lock, my, leaked>>

Lock(t, l, from, to) ==
    /\ list_lock = Null
    /\ Goto(t, l, from, to)
    /\ list_lock' = t
    /\ UNCHANGED <<dma, hooks, using, key, state, owner, list, masked, my, leaked>>

Unmask(t, l, from, to) ==
    /\ Goto(t, l, from, to)
    /\ masked' = [masked EXCEPT ![t] = FALSE]
    /\ UNCHANGED <<dma, hooks, using, key, state, owner, list, list_lock, my, leaked>>

\* At the head of the list; the lock is released.
Insert(t, l) ==
    LET r == my[t][l]
        first == next["head"]
    IN
    /\ Goto(t, l, "insert", "unmask")
    /\ next' = [next EXCEPT ![r] = first, !["head"] = r]
    /\ prev' = [n \in Node |-> IF n = r THEN "head" ELSE IF n = first THEN r ELSE prev[n]]
    /\ list_lock' = Null
    /\ UNCHANGED <<dma, hooks, using, key, state, owner, masked, my, leaked>>

\* ve_accelerated_io_post
Post(t, l) ==
    /\ Goto(t, l, "io", "idle")
    /\ using' = [using EXCEPT ![t] = FALSE]
    /\ UNCHANGED <<dma, hooks, key, state, owner, list, list_lock, masked, my, leaked>>

\* The request posts and awaits DMAs: the spin lock of the descriptor table.
DmaLock(t, l) ==
    /\ vedma_lock = Null
    /\ Goto(t, l, "io", "dma")
    /\ vedma_lock' = t
    /\ UNCHANGED <<init_lock, dma_ready, hooks, using, key, state, owner, list, list_lock, masked,
                   my, leaked>>

DmaUnlock(t, l, from, to) ==
    /\ Goto(t, l, from, to)
    /\ vedma_lock' = Null
    /\ UNCHANGED <<init_lock, dma_ready, hooks, using, key, state, owner, list, list_lock, masked,
                   my, leaked>>

\* The program itself calls VE DMA, outside its accelerated requests: a post or
\* a poll where VE DMA has been set up, or ve_dma_init, which may fail.
DirectLock(t) ==
    /\ dma_ready
    /\ vedma_lock = Null
    /\ Goto(t, 1, "idle", "direct")
    /\ vedma_lock' = t
    /\ UNCHANGED <<init_lock, dma_ready, hooks, using, key, state, owner, list, list_lock, masked,
                   my, leaked>>

DirectInitFails(t) ==
    /\ ~dma_ready
    /\ Goto(t, 1, "direct_init", "idle")
    /\ UNCHANGED <<dma, hooks, using, key, state, owner, list, list_lock, masked, my, leaked>>

-----------------------------------------------------------------------------
(* Thread exit: pthread clears a key that is set and calls the destructor  *)
(* ve_accelerated_io_dstfunc, once or again as long as the key has been    *)
(* set anew.  How many rounds there are is up to pthread, and signals are  *)
(* let through until the thread is gone.                                   *)

CallDestructor(t, from) ==
    /\ key[t] # Null
    /\ Goto(t, 1, from, "exit_mask")
    /\ my' = [my EXCEPT ![t][1] = key[t]]
    /\ key' = [key EXCEPT ![t] = Null]
    /\ UNCHANGED <<dma, hooks, using, state, owner, list, list_lock, masked, leaked>>

\* The last look at the key: no round is owed, or none is left.
ExitEnds(t, from) ==
    /\ from = "idle" => key[t] = Null
    /\ Goto(t, 1, from, "ending")
    /\ UNCHANGED <<dma, hooks, using, key, state, owner, list, list_lock, masked, my, leaked>>

Gone(t) ==
    /\ Goto(t, 1, "ending", "exited")
    /\ UNCHANGED <<dma, hooks, using, key, state, owner, list, list_lock, masked, my, leaked>>

\* Mutant: unlinks in one direction only.
RemoveHalf(t) ==
    LET r == my[t][1] IN
    /\ Goto(t, 1, "exit_remove", "exit_unmask")
    /\ next' = [n \in Node |-> IF n = prev[r] THEN next[r] ELSE next[n]]
    /\ list_lock' = Null
    /\ UNCHANGED <<dma, hooks, using, key, state, owner, prev, masked, my, leaked>>

\* Its neighbours are linked to each other; the lock is released.
Remove(t) ==
    LET r == my[t][1] IN
    /\ Goto(t, 1, "exit_remove", "exit_unmask")
    /\ next' = [n \in Node |-> IF n = prev[r] THEN next[r] ELSE next[n]]
    /\ prev' = [n \in Node |-> IF n = next[r] THEN prev[r] ELSE prev[n]]
    /\ list_lock' = Null
    /\ UNCHANGED <<dma, hooks, using, key, state, owner, masked, my, leaked>>

\* Mutant: exits without releasing.
ReleaseNot(t) ==
    /\ Goto(t, 1, "exit_release", "exit")
    /\ UNCHANGED <<dma, hooks, using, key, state, owner, list, list_lock, masked, my, leaked>>

\* ve_accelerated_io_release_resource
Release(t) ==
    /\ Goto(t, 1, "exit_release", "exit")
    /\ state' = [state EXCEPT ![my[t][1]] = "freed"]
    /\ UNCHANGED <<dma, hooks, using, key, owner, list, list_lock, masked, my, leaked>>

-----------------------------------------------------------------------------
\* fork by a thread outside its requests.  Before it the list is locked, in
\* the parent it is unlocked after it, and in the child every resource on
\* the list is freed; of the child only what is left over matters here.
Fork(t) ==
    /\ list_lock = Null
    /\ Runs(t, 1, "idle")
    /\ leaked' = {r \in Res : state[r] = "alive"} \ Listed
    /\ UNCHANGED <<dma, hooks, using, key, state, owner, list, list_lock, masked, pc, my>>

Init ==
    /\ hooks = TRUE
    /\ using = [t \in Thread |-> FALSE]
    /\ key = [t \in Thread |-> Null]
    /\ state = [r \in Res |-> "none"]
    /\ owner = [r \in Res |-> Null]
    /\ next = [n \in Node |-> Null]
    /\ prev = [n \in Node |-> Null]
    /\ list_lock = Null
    /\ masked = [t \in Thread |-> FALSE]
    /\ pc = [t \in Thread |-> [l \in Level |-> "idle"]]
    /\ my = [t \in Thread |-> [l \in Level |-> Null]]
    /\ leaked = {}
    /\ init_lock = Null
    /\ dma_ready = FALSE
    /\ vedma_lock = Null

Request(t, l) ==
    \/ Swap(t, l) \/ Lookup(t, l) \/ SetupFails(t, l)
    \/ InitLock(t, l, "init", "init_check") \/ InitDone(t, l, "init_check", "setup")
    \/ InitFails(t, l) \/ Unhook(t, l) \/ NoBuffers(t, l)
    \/ \E r \in Res : Setup(t, l, r)
    \/ SetKey(t, l) \/ SetKeyFails(t, l)
    \/ Mask(t, l, "mask", "lock") \/ Lock(t, l, "lock", "insert")
    \/ Insert(t, l) \/ Unmask(t, l, "unmask", "io")
    \/ DmaLock(t, l) \/ DmaUnlock(t, l, "dma", "io")
    \/ Post(t, l)

Direct(t) ==
    \/ InitLock(t, 1, "idle", "direct_init") \/ InitDone(t, 1, "direct_init", "idle")
    \/ DirectInitFails(t)
    \/ DirectLock(t) \/ DmaUnlock(t, 1, "direct", "idle")

Exiting(t) ==
    \/ \E from \in {"idle", "exit"} : CallDestructor(t, from) \/ ExitEnds(t, from)
    \/ Mask(t, 1, "exit_mask", "exit_lock") \/ Lock(t, 1, "exit_lock", "exit_remove")
    \/ Remove(t) \/ Unmask(t, 1, "exit_unmask", "exit_release")
    \/ Release(t) \/ Gone(t)

Next ==
    \E t \in Thread :
        \/ \E l \in Level : Begin(t, l) \/ Request(t, l)
        \/ Direct(t) \/ Exiting(t) \/ Fork(t)

Spec == Init /\ [][Next]_vars

-----------------------------------------------------------------------------
(* Properties *)

RequestPC == {"lookup", "init", "init_check", "setup", "set_key", "mask", "lock", "insert",
              "unmask", "io", "dma"}
ExitPC == {"exit_mask", "exit_lock", "exit_remove", "exit_unmask", "exit_release", "exit",
           "ending", "exited"}
PC == {"idle", "swap", "unhook", "direct_init", "direct"} \cup RequestPC \cup ExitPC

FlagHeld == \A t \in Thread : using[t] <=> \E l \in Level : pc[t][l] \in RequestPC

\* Types, and the flag is set exactly while a request has the buffers.
TypeOK ==
    /\ hooks \in BOOLEAN
    /\ using \in [Thread -> BOOLEAN]
    /\ key \in [Thread -> Res \cup {Null}]
    /\ state \in [Res -> {"none", "alive", "freed"}]
    /\ owner \in [Res -> Thread \cup {Null}]
    /\ next \in [Node -> Res \cup {Null}]
    /\ prev \in [Node -> Node \cup {Null}]
    /\ list_lock \in Thread \cup {Null}
    /\ masked \in [Thread -> BOOLEAN]
    /\ pc \in [Thread -> [Level -> PC]]
    /\ my \in [Thread -> [Level -> Res \cup {Null}]]
    /\ leaked \subseteq Res
    /\ init_lock \in Thread \cup {Null}
    /\ dma_ready \in BOOLEAN
    /\ vedma_lock \in Thread \cup {Null}
    /\ FlagHeld

\* A thread's buffers serve one request at a time, also when a handler's
\* request comes while the thread's own is being set up or carried out, and
\* they are alive and its own.
BuffersExclusive ==
    \A t \in Thread :
        /\ ~(pc[t][1] \in RequestPC /\ pc[t][2] \in RequestPC)
        /\ \A l \in Level : pc[t][l] \in {"io", "dma"} =>
               key[t] # Null /\ state[key[t]] = "alive" /\ owner[key[t]] = t

\* Whenever the list is unlocked it is well linked, holds live resources only
\* and all those that requests have been using: what the child of a fork
\* walks through and frees.
ListSound ==
    list_lock = Null =>
        /\ \A r \in Listed : state[r] = "alive" /\ next[prev[r]] = r
        /\ \A t \in Thread, l \in Level : pc[t][l] \in {"io", "dma"} => key[t] \in Listed

\* Thread t locked init_lock in a call of ve_dma_init that failed and is over.
InitAbandoned(t) ==
    /\ init_lock = t /\ ~dma_ready
    /\ pc[t][1] # "direct_init" /\ \A l \in Level : pc[t][l] # "init_check"

\* Of the three locks of the library no request, be it a thread's own or that
\* of a handler on it, waits for one its own thread holds: not for the list's,
\* which is taken with signals masked, and not for those of VE DMA, because a
\* request that holds one has the buffers in use, and the handler's becomes a
\* plain system call.  There are two exceptions.  On top of a VE DMA call of
\* the program itself, ve_dma_init or another, a handler's request would wait
\* for ever, and so would any request for an init_lock left behind by a failed
\* ve_dma_init.
NoSelfWait ==
    \A t \in Thread, l \in Level :
        /\ pc[t][l] \in {"lock", "exit_lock"} => list_lock # t
        /\ pc[t][l] = "io" /\ vedma_lock = t => l = 2 /\ pc[t][1] = "direct"
        /\ pc[t][l] = "init" /\ init_lock = t =>
               (l = 2 /\ pc[t][1] = "direct_init") \/ InitAbandoned(t)

\* Of an exited thread no buffers are left but those its key names: a handler's
\* request on it got them after the last look at the key.  Whatever the
\* destructor was called with is released, and nothing is lost in between,
\* handlers' requests during the exit included.
ExitReleases ==
    \A t \in Thread, r \in Res :
        pc[t][1] = "exited" /\ pc[t][2] = "idle" /\ owner[r] = t =>
            state[r] = "freed" \/ r = key[t]

\* "This function clear all accelerated IO resources copied from parent" (the
\* fork handler of the child, accelerated_io.c).
ChildClean == leaked = {}
=============================================================================
