------------------------------- MODULE VeAio -------------------------------
(***************************************************************************)
(* VE AIO (libveaio.c): contexts, each for one request at a time, shared   *)
(* by threads that submit, query, wait and release.  The requests are      *)
(* carried out by VEOS on the host, which writes retval, errnoval and the  *)
(* cleared "active" bit of a context as one word when a request is over.   *)
(*                                                                         *)
(* Requests are numbered; a value in a context is the number of the        *)
(* request it tells the outcome of, 0 before the first one.  The numbers   *)
(* end at MaxRequest, which bounds the model.                              *)
(***************************************************************************)
EXTENDS Integers, FiniteSets

CONSTANTS
    Thread,
    Ctx,        \* the context structures that can be allocated
    MaxRequest, \* bound on the requests the host accepts
    None        \* no thread, no context

ASSUME MaxRequestAssumption == MaxRequest \in Nat
ASSUME NoneAssumption == None \notin Thread \cup Ctx

Request == 0 .. MaxRequest

VARIABLES
    ve_aio_setup,   \* VE_SYSVE_AIO2_INIT was done
    life,           \* life[c]: "none", "live", or "freed"
    status_lock,    \* holder of c's ve_aio_status_lock
    active,         \* result.active; result.binary < 0 while it is set
    retval,         \* result.retval
    errnoval,       \* result.errnoval
    vh,             \* vh[c]: requests on c the host has accepted
    accepted,       \* the number of the last request the host accepted
    last,           \* last[c]: the last request accepted on c
    pc,
    ctx,            \* the context a thread's call is about
    floor,          \* the last request accepted on it when the call began
    got             \* [retval, errnoval] a query or wait stores for its caller

result == <<active, retval, errnoval>>
host == <<vh, accepted, last>>
vars == <<ve_aio_setup, life, status_lock, active, retval, errnoval, vh,
          accepted, last, pc, ctx, floor, got>>

Goto(t, from, to) == pc[t] = from /\ pc' = [pc EXCEPT ![t] = to]

\* A call on context c by a thread that is in no call.
Call(t, c, to) ==
    /\ life[c] = "live"
    /\ Goto(t, "idle", to)
    /\ ctx' = [ctx EXCEPT ![t] = c]
    /\ floor' = [floor EXCEPT ![t] = last[c]]

-----------------------------------------------------------------------------
(* ve_aio_init: the setup is done once, under ve_aio_setup_lock, and then  *)
(* a context is allocated.                                                 *)

SetUp(t) ==
    /\ Goto(t, "idle", "alloc")
    /\ ve_aio_setup' = TRUE
    /\ UNCHANGED <<life, status_lock, result, host, ctx, floor, got>>

\* VE_SYSVE_AIO2_INIT fails, or there is no memory for the context: NULL.
InitFails(t) ==
    /\ \/ Goto(t, "idle", "idle") /\ ~ve_aio_setup
       \/ Goto(t, "alloc", "idle")
    /\ UNCHANGED <<ve_aio_setup, life, status_lock, result, host, ctx, floor, got>>

Alloc(t, c) ==
    /\ life[c] = "none"
    /\ Goto(t, "alloc", "idle")
    /\ life' = [life EXCEPT ![c] = "live"]
    /\ active' = [active EXCEPT ![c] = FALSE]
    /\ retval' = [retval EXCEPT ![c] = 0]
    /\ errnoval' = [errnoval EXCEPT ![c] = 0]
    /\ UNCHANGED <<ve_aio_setup, status_lock, host, ctx, floor, got>>

-----------------------------------------------------------------------------
(* ve_aio_read and ve_aio_write *)

CallSubmit(t, c) ==
    /\ Call(t, c, "submit")
    /\ UNCHANGED <<ve_aio_setup, life, status_lock, result, host, got>>

\* Mutant: checks and marks the context without its lock.
SubmitCheckUnlocked(t) ==
    /\ Goto(t, "submit", IF active[ctx[t]] THEN "idle" ELSE "mark")
    /\ UNCHANGED <<ve_aio_setup, life, status_lock, result, host, ctx, floor, got>>

\* Lock, and check: -EBUSY while a request is in progress.
SubmitCheck(t) ==
    /\ Goto(t, "submit", IF active[ctx[t]] THEN "idle" ELSE "mark")
    /\ status_lock[ctx[t]] = None
    /\ status_lock' = IF active[ctx[t]] THEN status_lock
                      ELSE [status_lock EXCEPT ![ctx[t]] = t]
    /\ UNCHANGED <<ve_aio_setup, life, result, host, ctx, floor, got>>

\* Mutant: leaves the lock locked.
SubmitMarkKeepsLock(t) ==
    /\ Goto(t, "mark", "syscall")
    /\ active' = [active EXCEPT ![ctx[t]] = TRUE]
    /\ UNCHANGED <<ve_aio_setup, life, status_lock, retval, errnoval, host, ctx,
                   floor, got>>

SubmitMark(t) ==
    /\ Goto(t, "mark", "syscall")
    /\ active' = [active EXCEPT ![ctx[t]] = TRUE]
    /\ status_lock' = [status_lock EXCEPT ![ctx[t]] = None]
    /\ UNCHANGED <<ve_aio_setup, life, retval, errnoval, host, ctx, floor, got>>

\* The host accepts the request, and may finish it before the call returns.
Accept(t) ==
    LET r == accepted + 1 IN
    /\ accepted < MaxRequest
    /\ Goto(t, "syscall", "idle")
    /\ accepted' = r
    /\ vh' = [vh EXCEPT ![ctx[t]] = @ \cup {r}]
    /\ last' = [last EXCEPT ![ctx[t]] = r]
    /\ UNCHANGED <<ve_aio_setup, life, status_lock, result, ctx, floor, got>>

\* EAGAIN or ENOMEM on the host.
Reject(t) ==
    /\ Goto(t, "syscall", "unmark")
    /\ UNCHANGED <<ve_aio_setup, life, status_lock, result, host, ctx, floor, got>>

\* Mutant: returns the error and leaves the context marked.
UnmarkForgotten(t) ==
    /\ Goto(t, "unmark", "idle")
    /\ UNCHANGED <<ve_aio_setup, life, status_lock, result, host, ctx, floor, got>>

Unmark(t) ==
    /\ Goto(t, "unmark", "idle")
    /\ status_lock[ctx[t]] = None
    /\ active' = [active EXCEPT ![ctx[t]] = FALSE]
    /\ UNCHANGED <<ve_aio_setup, life, status_lock, retval, errnoval, host, ctx,
                   floor, got>>

-----------------------------------------------------------------------------
(* ve_aio_query and ve_aio_wait.  Neither takes the lock; both load retval *)
(* and errnoval one after the other after looking at the active bit.       *)

CallQuery(t, c) ==
    /\ Call(t, c, "query")
    /\ UNCHANGED <<ve_aio_setup, life, status_lock, result, host, got>>

CallWait(t, c) ==
    /\ Call(t, c, "wait")
    /\ UNCHANGED <<ve_aio_setup, life, status_lock, result, host, got>>

\* Mutant: does not look at the active bit.
QueryCheckNot(t) ==
    /\ Goto(t, "query", "load_retval")
    /\ UNCHANGED <<ve_aio_setup, life, status_lock, result, host, ctx, floor, got>>

\* 1 while the request is in progress.
QueryCheck(t) ==
    /\ Goto(t, "query", IF active[ctx[t]] THEN "idle" ELSE "load_retval")
    /\ UNCHANGED <<ve_aio_setup, life, status_lock, result, host, ctx, floor, got>>

WaitCheck(t) ==
    /\ Goto(t, "wait", IF active[ctx[t]] THEN "wait_vh" ELSE "load_retval")
    /\ UNCHANGED <<ve_aio_setup, life, status_lock, result, host, ctx, floor, got>>

\* VE_SYSVE_AIO2_WAIT blocks until the host has no request on the context.
WaitVh(t) ==
    /\ Goto(t, "wait_vh", "recheck")
    /\ vh[ctx[t]] = {}
    /\ UNCHANGED <<ve_aio_setup, life, status_lock, result, host, ctx, floor, got>>

\* The system call fails and its result is returned.
WaitVhFails(t) ==
    /\ Goto(t, "wait_vh", "idle")
    /\ UNCHANGED <<ve_aio_setup, life, status_lock, result, host, ctx, floor, got>>

\* -EBUSY when the context has been reused by now.
WaitRecheck(t) ==
    /\ Goto(t, "recheck", IF active[ctx[t]] THEN "idle" ELSE "load_retval")
    /\ UNCHANGED <<ve_aio_setup, life, status_lock, result, host, ctx, floor, got>>

LoadRetval(t) ==
    /\ Goto(t, "load_retval", "load_errnoval")
    /\ got' = [got EXCEPT ![t] = [retval |-> retval[ctx[t]], errnoval |-> 0]]
    /\ UNCHANGED <<ve_aio_setup, life, status_lock, result, host, ctx, floor>>

LoadErrnoval(t) ==
    /\ Goto(t, "load_errnoval", "answered")
    /\ got' = [got EXCEPT ![t].errnoval = errnoval[ctx[t]]]
    /\ UNCHANGED <<ve_aio_setup, life, status_lock, result, host, ctx, floor>>

\* The caller has its answer.
Answered(t) ==
    /\ Goto(t, "answered", "idle")
    /\ got' = [got EXCEPT ![t] = [retval |-> 0, errnoval |-> 0]]
    /\ floor' = [floor EXCEPT ![t] = 0]
    /\ UNCHANGED <<ve_aio_setup, life, status_lock, result, host, ctx>>

-----------------------------------------------------------------------------
(* ve_aio_fini.  A caller releases a context when no other thread is in a  *)
(* call on it; the check against the host's request is the library's.      *)

Unused(c) == \A t \in Thread : pc[t] \notin {"idle", "alloc"} => ctx[t] # c

\* Mutant: frees without checking.
FiniUnchecked(t, c) ==
    /\ life[c] = "live" /\ pc[t] = "idle" /\ Unused(c)
    /\ life' = [life EXCEPT ![c] = "freed"]
    /\ UNCHANGED <<ve_aio_setup, status_lock, result, host, pc, ctx, floor, got>>

\* EBUSY, and nothing changes, while the context is active.
Fini(t, c) ==
    /\ life[c] = "live" /\ pc[t] = "idle" /\ Unused(c)
    /\ ~active[c]
    /\ life' = [life EXCEPT ![c] = "freed"]
    /\ UNCHANGED <<ve_aio_setup, status_lock, result, host, pc, ctx, floor, got>>

-----------------------------------------------------------------------------
\* A worker of the host finishes a request and writes the context's word.
Work(c) ==
    \E r \in vh[c] :
        /\ vh' = [vh EXCEPT ![c] = @ \ {r}]
        /\ active' = [active EXCEPT ![c] = FALSE]
        /\ retval' = [retval EXCEPT ![c] = r]
        /\ errnoval' = [errnoval EXCEPT ![c] = r]
        /\ UNCHANGED <<ve_aio_setup, life, status_lock, accepted, last, pc, ctx,
                       floor, got>>

Init ==
    /\ ve_aio_setup = FALSE
    /\ life = [c \in Ctx |-> "none"]
    /\ status_lock = [c \in Ctx |-> None]
    /\ active = [c \in Ctx |-> FALSE]
    /\ retval = [c \in Ctx |-> 0]
    /\ errnoval = [c \in Ctx |-> 0]
    /\ vh = [c \in Ctx |-> {}]
    /\ accepted = 0
    /\ last = [c \in Ctx |-> 0]
    /\ pc = [t \in Thread |-> "idle"]
    /\ ctx = [t \in Thread |-> None]
    /\ floor = [t \in Thread |-> 0]
    /\ got = [t \in Thread |-> [retval |-> 0, errnoval |-> 0]]

Begin(t) ==
    \/ SetUp(t)
    \/ \E c \in Ctx : CallSubmit(t, c) \/ CallQuery(t, c) \/ CallWait(t, c) \/ Fini(t, c)

Proceed(t) ==
    \/ SubmitCheck(t) \/ SubmitMark(t) \/ Accept(t) \/ Reject(t) \/ Unmark(t)
    \/ QueryCheck(t) \/ WaitCheck(t) \/ WaitVh(t) \/ WaitVhFails(t)
    \/ WaitRecheck(t) \/ LoadRetval(t) \/ LoadErrnoval(t) \/ Answered(t)
    \/ InitFails(t)
    \/ \E c \in Ctx : Alloc(t, c)

Next ==
    \/ \E t \in Thread : Begin(t) \/ Proceed(t)
    \/ \E c \in Ctx : Work(c)

Spec == Init /\ [][Next]_vars

\* The host finishes what it accepted, and a thread in a call keeps running.
FairSpec ==
    /\ Spec
    /\ \A c \in Ctx : WF_vars(Work(c))
    /\ \A t \in Thread : WF_vars(pc[t] # "idle" /\ Proceed(t))

-----------------------------------------------------------------------------
(* Properties *)

\* A locked context has a thread in its critical section.
LockHeld ==
    \A c \in Ctx : status_lock[c] # None =>
        pc[status_lock[c]] = "mark" /\ ctx[status_lock[c]] = c

\* Types, and locks are held by threads that will release them.
TypeOK ==
    /\ ve_aio_setup \in BOOLEAN
    /\ life \in [Ctx -> {"none", "live", "freed"}]
    /\ status_lock \in [Ctx -> Thread \cup {None}]
    /\ active \in [Ctx -> BOOLEAN]
    /\ retval \in [Ctx -> Request]
    /\ errnoval \in [Ctx -> Request]
    /\ vh \in [Ctx -> SUBSET Request]
    /\ accepted \in Request
    /\ last \in [Ctx -> Request]
    /\ pc \in [Thread -> {"idle", "alloc", "submit", "mark", "syscall", "unmark",
                          "query", "wait", "wait_vh", "recheck", "load_retval",
                          "load_errnoval", "answered"}]
    /\ ctx \in [Thread -> Ctx \cup {None}]
    /\ floor \in [Thread -> Request]
    /\ got \in [Thread -> [retval : Request, errnoval : Request]]
    /\ LockHeld

\* A context never has two requests on the host, and is marked active as long
\* as it has one: two threads that submit at once do not both get through.
OneRequest ==
    \A c \in Ctx : Cardinality(vh[c]) <= 1 /\ (vh[c] # {} => active[c])

\* A query or wait that returns 0 tells nothing older than the last request
\* accepted when it was called ("this function gets result of latest request
\* for ve_aio_ctx", libveaio.c), although it reads the context unlocked.
NotStale ==
    \A t \in Thread : pc[t] = "answered" =>
        got[t].retval >= floor[t] /\ got[t].errnoval >= floor[t]

\* The host never writes to a context that was released: ve_aio_fini, which
\* checks without the lock, refuses as long as a request is on its way.
ReleasedQuiet == \A c \in Ctx : life[c] = "freed" => vh[c] = {}

\* An active context becomes free again, also when the host refuses.
ActiveEnds == \A c \in Ctx : active[c] ~> ~active[c]

\* What a query or wait stores is the outcome of one request ("0 on completion
\* of read/write and set retval and errnoval", libveaio.c).
OneOutcome ==
    \A t \in Thread : pc[t] = "answered" => got[t].retval = got[t].errnoval
=============================================================================
