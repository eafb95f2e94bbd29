----------------------------- MODULE VeDmaInit -----------------------------
(***************************************************************************)
(* Setting up VE DMA: ve_dma_init, the fork handler that forgets the setup *)
(* in a child, and the ring lock a child inherits as a copy.  A process is *)
(* its own copy of init_lock, ve_dma_initialized and vedma_vars; fork      *)
(* copies them in whatever state the parent's other threads left them and  *)
(* takes only the forking thread along.  Names differ from those of VeDma, *)
(* so that one module can speak of both.                                   *)
(***************************************************************************)
EXTENDS Integers

CONSTANTS
    Caller,     \* threads of the parent; one of them lives on in the child
    None        \* an unlocked lock

ASSUME NoneAssumption == None \notin Caller

Process == {"parent", "child"}

VARIABLES
    alive,          \* the threads of a process, {} before the child is forked
    init_lock,      \* holder of the mutex init_lock
    initialized,    \* ve_dma_initialized
    mapped,         \* vedma_desc and vedma_ctrl map this process's hardware
    ring_lock,      \* vedma_lock, the holder of the ring's spin lock
    in_use,         \* some slot of vedma_status records a DMA
    stage,          \* where each thread of each process is
    usable          \* ve_dma_init returned 0 in this process

setup_vars == <<alive, init_lock, initialized, mapped, ring_lock, in_use, stage, usable>>
ring == <<mapped, ring_lock, in_use>>

Goto(p, t, from, to) ==
    /\ t \in alive[p]
    /\ stage[p][t] = from
    /\ stage' = [stage EXCEPT ![p][t] = to]

-----------------------------------------------------------------------------
(* ve_dma_init *)

CallInit(p, t) ==
    /\ Goto(p, t, "idle", "init_lock")
    /\ UNCHANGED <<alive, init_lock, initialized, ring, usable>>

\* Mutant: enters without the mutex.
InitLockNot(p, t) ==
    /\ Goto(p, t, "init_lock", "init_check")
    /\ init_lock' = [init_lock EXCEPT ![p] = t]
    /\ UNCHANGED <<alive, initialized, ring, usable>>

InitLock(p, t) ==
    /\ init_lock[p] = None
    /\ Goto(p, t, "init_lock", "init_check")
    /\ init_lock' = [init_lock EXCEPT ![p] = t]
    /\ UNCHANGED <<alive, initialized, ring, usable>>

InitSkip(p, t) ==
    /\ initialized[p]
    /\ Goto(p, t, "init_check", "init_unlock")
    /\ UNCHANGED <<alive, init_lock, initialized, ring, usable>>

\* Mutant: maps, and so resets the ring, without looking at the flag.
MapAlways(p, t) ==
    /\ Goto(p, t, "init_check", "init_reset")
    /\ mapped' = [mapped EXCEPT ![p] = TRUE]
    /\ UNCHANGED <<alive, init_lock, initialized, ring_lock, in_use, usable>>

Map(p, t) ==
    /\ ~initialized[p]
    /\ Goto(p, t, "init_check", "init_reset")
    /\ mapped' = [mapped EXCEPT ![p] = TRUE]
    /\ UNCHANGED <<alive, init_lock, initialized, ring_lock, in_use, usable>>

\* ve_map_dmades fails: the call returns and init_lock stays locked.
MapFails(p, t) ==
    /\ ~initialized[p]
    /\ Goto(p, t, "init_check", "idle")
    /\ UNCHANGED <<alive, init_lock, initialized, ring, usable>>

\* Mutant: the lock word is left as it is.
ResetNotLock(p, t) ==
    /\ Goto(p, t, "init_reset", "init_unlock")
    /\ in_use' = [in_use EXCEPT ![p] = FALSE]
    /\ initialized' = [initialized EXCEPT ![p] = TRUE]
    /\ UNCHANGED <<alive, init_lock, ring_lock, mapped, usable>>

Reset(p, t) ==
    /\ Goto(p, t, "init_reset", "init_unlock")
    /\ ring_lock' = [ring_lock EXCEPT ![p] = None]
    /\ in_use' = [in_use EXCEPT ![p] = FALSE]
    /\ initialized' = [initialized EXCEPT ![p] = TRUE]
    /\ UNCHANGED <<alive, init_lock, mapped, usable>>

InitUnlock(p, t) ==
    /\ Goto(p, t, "init_unlock", "idle")
    /\ init_lock' = [init_lock EXCEPT ![p] = None]
    /\ usable' = [usable EXCEPT ![p] = TRUE]
    /\ UNCHANGED <<alive, initialized, ring>>

-----------------------------------------------------------------------------
(* A ring operation of VeDma, by a thread that knows the ring is usable.   *)

RingLock(p, t) ==
    /\ usable[p]
    /\ ring_lock[p] = None
    /\ Goto(p, t, "idle", "critical")
    /\ ring_lock' = [ring_lock EXCEPT ![p] = t]
    /\ UNCHANGED <<alive, init_lock, initialized, mapped, in_use, usable>>

RingUnlock(p, t) ==
    /\ Goto(p, t, "critical", "idle")
    /\ ring_lock' = [ring_lock EXCEPT ![p] = None]
    /\ in_use' \in {[in_use EXCEPT ![p] = b] : b \in BOOLEAN}
    /\ UNCHANGED <<alive, init_lock, initialized, mapped, usable>>

-----------------------------------------------------------------------------
\* What the child finds in ve_dma_initialized: ve_dma_clear_skip_flag cleared
\* it.  The mutant is the library without that handler.
FlagInChildCopied == initialized["parent"]
FlagInChild == FALSE

\* fork by thread t.  The mapping of DMA descriptors is not inherited
\* ("the state of VE DMA is not inherited to the child process", vedma.h).
Fork(t) ==
    /\ alive["child"] = {}
    /\ t \in alive["parent"] /\ stage["parent"][t] = "idle"
    /\ alive' = [alive EXCEPT !["child"] = {t}]
    /\ initialized' = [initialized EXCEPT !["child"] = FlagInChild]
    /\ init_lock' = [init_lock EXCEPT !["child"] = init_lock["parent"]]
    /\ ring_lock' = [ring_lock EXCEPT !["child"] = ring_lock["parent"]]
    /\ in_use' = [in_use EXCEPT !["child"] = in_use["parent"]]
    /\ UNCHANGED <<mapped, stage, usable>>

SetupInit ==
    /\ alive = [p \in Process |-> IF p = "parent" THEN Caller ELSE {}]
    /\ init_lock = [p \in Process |-> None]
    /\ initialized = [p \in Process |-> FALSE]
    /\ mapped = [p \in Process |-> FALSE]
    /\ ring_lock = [p \in Process |-> None]
    /\ in_use = [p \in Process |-> FALSE]
    /\ stage = [p \in Process |-> [t \in Caller |-> "idle"]]
    /\ usable = [p \in Process |-> FALSE]

\* What a thread that called ve_dma_init does until it returns.
InitStep(p, t) ==
    \/ InitLock(p, t) \/ InitSkip(p, t) \/ Map(p, t) \/ MapFails(p, t)
    \/ Reset(p, t) \/ InitUnlock(p, t)

SetupNext ==
    \/ \E p \in Process, t \in Caller :
        CallInit(p, t) \/ InitStep(p, t) \/ RingLock(p, t) \/ RingUnlock(p, t)
    \/ \E t \in Caller : Fork(t)

SetupSpec == SetupInit /\ [][SetupNext]_setup_vars

\* A thread inside ve_dma_init keeps running, and of those waiting for
\* init_lock none is passed over for ever.
SetupFairSpec ==
    /\ SetupSpec
    /\ \A p \in Process, t \in Caller :
        WF_setup_vars(InitStep(p, t)) /\ SF_setup_vars(InitLock(p, t))

-----------------------------------------------------------------------------
(* Properties *)

Stage == {"idle", "init_lock", "init_check", "init_reset", "init_unlock", "critical"}

\* Types, and a thread setting up holds init_lock.
SetupTypeOK ==
    /\ alive \in [Process -> SUBSET Caller]
    /\ init_lock \in [Process -> Caller \cup {None}]
    /\ initialized \in [Process -> BOOLEAN]
    /\ mapped \in [Process -> BOOLEAN]
    /\ ring_lock \in [Process -> Caller \cup {None}]
    /\ in_use \in [Process -> BOOLEAN]
    /\ stage \in [Process -> [Caller -> Stage]]
    /\ usable \in [Process -> BOOLEAN]
    /\ \A p \in Process, t \in Caller :
        stage[p][t] \in {"init_check", "init_reset", "init_unlock"} => init_lock[p] = t

\* Nobody works on a descriptor table that is not mapped in its own process:
\* a child that skipped the setup would use its parent's addresses.
RingUsedMapped ==
    \A p \in Process, t \in Caller :
        stage[p][t] = "critical" => mapped[p] /\ initialized[p]

\* Where VE DMA is set up, the ring lock is held only by a thread of this
\* process that is at work in the ring, never by the copy of a thread that
\* stayed behind in the parent.
RingLockAlive ==
    \A p \in Process :
        initialized[p] /\ ring_lock[p] # None =>
            /\ ring_lock[p] \in alive[p]
            /\ stage[p][ring_lock[p]] = "critical"

\* Thread t takes the ring lock, or gives back the one it holds.
TakesRing(p, t) ==
    /\ ring_lock[p] = None /\ ring_lock'[p] = t
    /\ stage[p][t] = "idle" /\ stage'[p][t] = "critical"
LeavesRing(p, t) ==
    /\ ring_lock[p] = t /\ ring_lock'[p] = None
    /\ stage[p][t] = "critical" /\ stage'[p][t] = "idle"

\* Calling ve_dma_init again does no harm: once the ring is set up, its lock is
\* taken and given back by the threads that use it and by nothing else, and its
\* slots change only by the step in which such a thread gives back the lock.
RingKept ==
    [][\A p \in Process : initialized[p] =>
         /\ ring_lock'[p] # ring_lock[p] =>
              \E t \in Caller : TakesRing(p, t) \/ LeavesRing(p, t)
         /\ in_use'[p] # in_use[p] => \E t \in Caller : LeavesRing(p, t)]_setup_vars

\* ve_dma_init returns, with 0 or -1 (vedma.h: "@retval -1 On failure").
InitReturns ==
    \A t \in Caller : (stage["parent"][t] = "init_lock") ~> (stage["parent"][t] = "idle")
=============================================================================
