------------------------ MODULE AccIoResourcesProofs -----------------------
(***************************************************************************)
(* AccIoResources for every set of threads and every finite set of         *)
(* resources: buffers have one request at a time and one owner, requests   *)
(* wait for their own thread in no other than the cases named, an exit     *)
(* releases, and the list of buffers is well linked whenever unlocked.     *)
(***************************************************************************)
EXTENDS AccIoResources, FiniteSetTheorems, WellFoundedInduction, TLAPS

-----------------------------------------------------------------------------
(* The inductive invariant behind the properties.                          *)

\* A request whose resource is not on the list yet, an exit that works on one,
\* and an exit whose resource has left the list.
SetupPC == {"set_key", "mask", "lock", "insert"}
LeavingPC == {"exit_mask", "exit_lock", "exit_remove", "exit_unmask", "exit_release"}
UnlinkedPC == SetupPC \cup {"exit_unmask", "exit_release"}

\* Where signals are masked.
MaskedPC == {"lock", "insert", "unmask", "exit_lock", "exit_remove", "exit_unmask"}

\* What a handler may find its thread doing, and what it does itself.
LevelInv ==
    \A t \in Thread :
        /\ pc[t][2] \in {"idle", "swap", "unhook"} \cup RequestPC
        /\ ~(pc[t][1] \in RequestPC /\ pc[t][2] \in RequestPC)
        /\ pc[t][1] \in MaskedPC => masked[t] /\ pc[t][2] = "idle"
        /\ pc[t][1] = "exited" => pc[t][2] = "idle"

\* These locks are held by whoever is in a critical section.
LockInv ==
    \A t \in Thread :
        /\ list_lock = t <=> pc[t][1] \in {"insert", "exit_remove"} \/ pc[t][2] = "insert"
        /\ vedma_lock = t <=> pc[t][1] \in {"dma", "direct"} \/ pc[t][2] = "dma"
        /\ ~(pc[t][1] = "direct" /\ pc[t][2] = "dma")

\* So is that of ve_dma_init, but a call that failed keeps it; then VE DMA is
\* not set up, and never will be.
InitLockInv ==
    \A t \in Thread :
        /\ pc[t][1] \in {"init_check", "direct_init"} \/ pc[t][2] = "init_check" => init_lock = t
        /\ ~(pc[t][1] = "direct_init" /\ pc[t][2] = "init_check")
        /\ init_lock = t /\ dma_ready =>
               pc[t][1] \in {"init_check", "direct_init"} \/ pc[t][2] = "init_check"

\* A resource of thread t that is to be released at the end.
Own(t, r) == r \in Res /\ state[r] = "alive" /\ owner[r] = t

\* Each live resource is its thread's present one, or on the way to be, or on
\* its way out, and only one of these.
KeyInv(t) ==
    /\ key[t] # Null => Own(t, key[t])
    /\ \A l \in Level :
        /\ pc[t][l] \in {"init", "init_check", "setup", "set_key"} => key[t] = Null
        /\ pc[t][l] = "set_key" => Own(t, my[t][l])
        /\ pc[t][l] \in {"mask", "lock", "insert"} => key[t] = my[t][l]
        /\ pc[t][l] \in {"mask", "lock", "insert", "unmask", "io", "dma"} => key[t] # Null
    /\ pc[t][1] \in LeavingPC =>
        /\ Own(t, my[t][1])
        /\ key[t] # my[t][1]
        /\ pc[t][2] = "set_key" => my[t][2] # my[t][1]

Placed(t, r) ==
    \/ r = key[t]
    \/ \E l \in Level : pc[t][l] = "set_key" /\ my[t][l] = r
    \/ pc[t][1] \in LeavingPC /\ my[t][1] = r

OwnerInv ==
    /\ \A r \in Res : state[r] = "none" <=> owner[r] = Null
    /\ \A t \in Thread : KeyInv(t) /\ \A r \in Res : Own(t, r) => Placed(t, r)

\* The resources that are on the list.
Linked ==
    {r \in Res : /\ state[r] = "alive"
                 /\ \A t \in Thread, l \in Level :
                       pc[t][l] \in UnlinkedPC => my[t][l] # r}

\* The list is path[1], ..., path[n], linked in both directions.
Chain(n, path) ==
    /\ \A x, y \in 1 .. n : path[x] = path[y] => x = y
    /\ Linked = {path[x] : x \in 1 .. n}
    /\ next["head"] = IF n = 0 THEN Null ELSE path[1]
    /\ \A x \in 1 .. n :
        /\ next[path[x]] = IF x = n THEN Null ELSE path[x + 1]
        /\ prev[path[x]] = IF x = 1 THEN "head" ELSE path[x - 1]

ListInv == \E n \in 0 .. Cardinality(Res) : \E path \in [1 .. n -> Res] : Chain(n, path)

IInv == TypeOK /\ LevelInv /\ LockInv /\ InitLockInv /\ OwnerInv /\ ListInv

-----------------------------------------------------------------------------
\* Every step keeps the program counters in range, and the flag set exactly
\* while a request has the buffers.
LEMMA FlagStep ==
    ASSUME TypeOK, LevelInv, [Next]_vars
    PROVE  pc' \in [Thread -> [Level -> PC]] /\ using' \in [Thread -> BOOLEAN] /\ FlagHeld'
<1> DEFINE Goal ==
        pc' \in [Thread -> [Level -> PC]] /\ using' \in [Thread -> BOOLEAN] /\ FlagHeld'
<1> HIDE DEF Goal
<1> USE DEF TypeOK, Level
<1>1. ASSUME NEW t \in Thread, NEW l \in Level, NEW from, NEW to \in PC,
             Goto(t, l, from, to), from \in RequestPC <=> to \in RequestPC,
             UNCHANGED using
      PROVE  Goal
  BY <1>1 DEF Goto, Runs, FlagHeld, Goal
<1>2. ASSUME NEW t \in Thread, NEW l \in Level, Swap(t, l) PROVE Goal
  <2>1. CASE using[t]
    BY <1>2, <2>1 DEF Swap, Goto, Runs, FlagHeld, Goal, PC, RequestPC
  <2>2. CASE ~using[t]
    BY <1>2, <2>2 DEF Swap, Goto, Runs, FlagHeld, Goal, PC, RequestPC
  <2> QED
    BY <2>1, <2>2
<1>3. ASSUME NEW t \in Thread, NEW l \in Level, NEW from \in RequestPC,
             NEW to \in PC \ RequestPC, Goto(t, l, from, to),
             using' = [using EXCEPT ![t] = FALSE]
      PROVE  Goal
  BY <1>3 DEF Goto, Runs, FlagHeld, LevelInv, Goal
<1>4. ASSUME pc' = pc, using' = using PROVE Goal
  BY <1>4 DEF FlagHeld, Goal
<1>5. ASSUME NEW t \in Thread, NEW l \in Level, Begin(t, l) \/ Request(t, l) PROVE Goal
  <2>1. CASE Begin(t, l) \/ Lookup(t, l) \/ Unhook(t, l) \/ SetKey(t, l)
    BY <1>1, <2>1 DEF Begin, Lookup, Unhook, SetKey, PC, RequestPC
  <2>2. CASE \E r \in Res : Setup(t, l, r)
    BY <1>1, <2>2 DEF Setup, PC, RequestPC
  <2>3. CASE \/ Mask(t, l, "mask", "lock") \/ Lock(t, l, "lock", "insert")
             \/ Insert(t, l) \/ Unmask(t, l, "unmask", "io")
    BY <1>1, <2>3 DEF Mask, Lock, Insert, Unmask, PC, RequestPC
  <2>4. CASE DmaLock(t, l) \/ DmaUnlock(t, l, "dma", "io")
    BY <1>1, <2>4 DEF DmaLock, DmaUnlock, PC, RequestPC
  <2>5. CASE NoBuffers(t, l) \/ SetKeyFails(t, l) \/ Post(t, l)
    BY <1>3, <2>5 DEF NoBuffers, SetKeyFails, Post, PC, RequestPC
  <2>6. CASE SetupFails(t, l) \/ InitFails(t, l)
    BY <1>3, <2>6 DEF SetupFails, InitFails, PC, RequestPC
  <2>7. CASE InitLock(t, l, "init", "init_check") \/ InitDone(t, l, "init_check", "setup")
    BY <1>1, <2>7 DEF InitLock, InitDone, PC, RequestPC
  <2> QED
    BY <1>2, <1>5, <2>1, <2>2, <2>3, <2>4, <2>5, <2>6, <2>7 DEF Request
<1>6. ASSUME NEW t \in Thread, Exiting(t) PROVE Goal
  <2>1. CASE \/ Mask(t, 1, "exit_mask", "exit_lock") \/ Lock(t, 1, "exit_lock", "exit_remove")
             \/ Remove(t) \/ Unmask(t, 1, "exit_unmask", "exit_release") \/ Release(t)
    BY <1>1, <2>1 DEF Mask, Lock, Remove, Unmask, Release, PC, RequestPC, ExitPC
  <2>2. CASE \E from \in {"idle", "exit"} : CallDestructor(t, from) \/ ExitEnds(t, from)
    BY <1>1, <2>2 DEF CallDestructor, ExitEnds, PC, RequestPC, ExitPC
  <2>3. CASE Gone(t)
    BY <1>1, <2>3 DEF Gone, PC, RequestPC, ExitPC
  <2> QED
    BY <1>6, <2>1, <2>2, <2>3 DEF Exiting
<1>7. ASSUME NEW t \in Thread, Direct(t) PROVE Goal
  <2>1. CASE InitLock(t, 1, "idle", "direct_init") \/ InitDone(t, 1, "direct_init", "idle")
    BY <1>1, <2>1 DEF InitLock, InitDone, PC, RequestPC
  <2>2. CASE DirectInitFails(t) \/ DirectLock(t) \/ DmaUnlock(t, 1, "direct", "idle")
    BY <1>1, <2>2 DEF DirectInitFails, DirectLock, DmaUnlock, PC, RequestPC
  <2> QED
    BY <1>7, <2>1, <2>2 DEF Direct
<1>8. ASSUME NEW t \in Thread, Fork(t) PROVE Goal
  BY <1>4, <1>8 DEF Fork
<1>9. ASSUME UNCHANGED vars PROVE Goal
  BY <1>4, <1>9 DEF vars
<1> QED
  <2>1. Goal
    BY <1>5, <1>6, <1>7, <1>8, <1>9 DEF Next
  <2> QED
    BY <2>1 DEF Goal

\* Every step keeps the types: no pointer outside the resources, no lock flag
\* without its holder.
LEMMA TypeStep == IInv /\ [Next]_vars => TypeOK'
<1> SUFFICES ASSUME TypeOK, LevelInv, OwnerInv, [Next]_vars PROVE TypeOK'
  BY DEF IInv
<1> DEFINE Rest == <<hooks, key, state, owner, next, prev, list_lock, masked, my, leaked,
                     init_lock, dma_ready, vedma_lock>>
<1> USE FlagStep, NamesAssumption DEF TypeOK, list, dma
<1>1. CASE UNCHANGED Rest
  BY <1>1
<1>2. ASSUME NEW t \in Thread, NEW l \in Level,
             \/ Begin(t, l) \/ Swap(t, l) \/ Lookup(t, l)
             \/ SetupFails(t, l) \/ InitFails(t, l) \/ NoBuffers(t, l)
      PROVE  TypeOK'
  BY <1>1, <1>2 DEF Begin, Swap, Lookup, SetupFails, InitFails, NoBuffers
<1>3. ASSUME NEW t \in Thread, NEW l \in Level, Unhook(t, l) PROVE TypeOK'
  BY <1>3 DEF Unhook
<1>4. ASSUME NEW t \in Thread, NEW l \in Level, NEW r \in Res, Setup(t, l, r) PROVE TypeOK'
  BY <1>4 DEF Setup
<1>5. ASSUME NEW t \in Thread, NEW l \in Level, SetKey(t, l) PROVE TypeOK'
  BY <1>5 DEF SetKey
<1>6. ASSUME NEW t \in Thread, NEW l \in Level, SetKeyFails(t, l) PROVE TypeOK'
  BY <1>6 DEF SetKeyFails
<1>7. ASSUME NEW t \in Thread, NEW l \in Level, NEW from, NEW to,
             Mask(t, l, from, to) \/ Unmask(t, l, from, to)
      PROVE  TypeOK'
  BY <1>7 DEF Mask, Unmask
<1>8. ASSUME NEW t \in Thread, NEW l \in Level, NEW from, NEW to, Lock(t, l, from, to)
      PROVE  TypeOK'
  BY <1>8 DEF Lock
<1>9. ASSUME NEW t \in Thread, NEW l \in Level, Insert(t, l) PROVE TypeOK'
  <2>1. my[t][l] \in Res
    BY <1>9 DEF Insert, Goto, Runs, OwnerInv, KeyInv, Own
  <2> QED
    BY <1>9, <2>1 DEF Insert, Node
<1>10. ASSUME NEW t \in Thread, NEW l \in Level, DmaLock(t, l) \/ Post(t, l) PROVE TypeOK'
  BY <1>10 DEF DmaLock, Post
<1>11. ASSUME NEW t \in Thread, NEW l \in Level, NEW from, NEW to, DmaUnlock(t, l, from, to)
       PROVE  TypeOK'
  BY <1>11 DEF DmaUnlock
<1>12. ASSUME NEW t \in Thread, DirectLock(t) PROVE TypeOK'
  BY <1>12 DEF DirectLock
<1>13. ASSUME NEW t \in Thread, NEW from, CallDestructor(t, from) PROVE TypeOK'
  <2>1. my' = [my EXCEPT ![t][1] = key[t]]
    BY <1>13 DEF CallDestructor
  <2>2. key[t] \in Res \cup {Null} /\ my[t] \in [Level -> Res \cup {Null}]
    OBVIOUS
  <2>3. my' \in [Thread -> [Level -> Res \cup {Null}]]
    BY <2>1, <2>2 DEF Level
  <2> QED
    BY <1>13, <2>3 DEF CallDestructor
<1>14. ASSUME NEW t \in Thread, Remove(t) PROVE TypeOK'
  <2>1. my[t][1] \in Res
    BY <1>14 DEF Remove, Goto, Runs, OwnerInv, KeyInv, Own, LeavingPC, Level
  <2>2. next' \in [Node -> Res \cup {Null}] /\ prev' \in [Node -> Node \cup {Null}]
    BY <1>14, <2>1 DEF Remove, Node
  <2> QED
    BY <1>14, <2>2 DEF Remove
<1>15. ASSUME NEW t \in Thread, Release(t) PROVE TypeOK'
  BY <1>15 DEF Release
<1>16. ASSUME NEW t \in Thread, Fork(t) PROVE TypeOK'
  BY <1>16 DEF Fork
<1>17. CASE UNCHANGED vars
  BY <1>1, <1>17 DEF vars
<1>18. ASSUME NEW t \in Thread, NEW from, ExitEnds(t, from) \/ Gone(t) \/ DirectInitFails(t)
       PROVE  TypeOK'
  BY <1>1, <1>18 DEF ExitEnds, Gone, DirectInitFails
<1>19. ASSUME NEW t \in Thread, NEW l \in Level, NEW from, NEW to,
              InitLock(t, l, from, to) \/ InitDone(t, l, from, to)
       PROVE  TypeOK'
  BY <1>19 DEF InitLock, InitDone
<1>20. ASSUME NEW t \in Thread, NEW l \in Level, Request(t, l) PROVE TypeOK'
  BY <1>20, <1>2, <1>3, <1>4, <1>5, <1>6, <1>7, <1>8, <1>9, <1>10, <1>11, <1>19 DEF Request
<1>21. ASSUME NEW t \in Thread, Direct(t) \/ Exiting(t) PROVE TypeOK'
  BY <1>21, <1>7, <1>8, <1>11, <1>12, <1>13, <1>14, <1>15, <1>18, <1>19
     DEF Direct, Exiting, Level
<1> QED
  BY <1>2, <1>16, <1>17, <1>20, <1>21 DEF Next

\* A handler's request begins only where signals are let through, and one that
\* finds the buffers in use does not get past the flag.
LEMMA LevelStep == IInv /\ [Next]_vars => LevelInv'
<1> SUFFICES ASSUME TypeOK, LevelInv, [Next]_vars PROVE LevelInv'
  BY DEF IInv
<1> USE DEF TypeOK, Level, LevelInv, Runs, Goto
<1>1. ASSUME NEW t \in Thread, NEW l \in Level, NEW from, NEW to, Goto(t, l, from, to),
             from # "idle" \/ l = 1, to # "exited",
             to \in RequestPC => from \in RequestPC,
             to \in MaskedPC => from \in MaskedPC,
             to \in {"idle", "unhook"} \cup RequestPC \/ l = 1,
             UNCHANGED masked
      PROVE  LevelInv'
  BY <1>1
<1>2. ASSUME NEW t \in Thread, NEW l \in Level, Begin(t, l) PROVE LevelInv'
  BY <1>2 DEF Begin, RequestPC, MaskedPC
<1>3. ASSUME NEW t \in Thread, NEW l \in Level, Swap(t, l) PROVE LevelInv'
  BY <1>3 DEF Swap, FlagHeld, RequestPC, MaskedPC
<1>4. ASSUME NEW t \in Thread, NEW l \in Level, SetKey(t, l) PROVE LevelInv'
  BY <1>4 DEF SetKey, RequestPC, MaskedPC
<1>5. ASSUME NEW t \in Thread, NEW l \in Level,
             Mask(t, l, "mask", "lock") \/ Unmask(t, l, "unmask", "io")
      PROVE  LevelInv'
  <2>1. CASE Mask(t, l, "mask", "lock")
    BY <2>1 DEF Mask, RequestPC, MaskedPC
  <2>2. CASE Unmask(t, l, "unmask", "io")
    BY <2>2 DEF Unmask, RequestPC, MaskedPC
  <2> QED
    BY <1>5, <2>1, <2>2
<1>6. ASSUME NEW t \in Thread, \/ Mask(t, 1, "exit_mask", "exit_lock")
                               \/ Unmask(t, 1, "exit_unmask", "exit_release")
      PROVE  LevelInv'
  BY <1>6 DEF Mask, Unmask, RequestPC, MaskedPC
<1>7. ASSUME NEW t \in Thread, Gone(t) PROVE LevelInv'
  BY <1>7 DEF Gone, RequestPC, MaskedPC
<1> HIDE DEF Goto, LevelInv
<1>8. ASSUME NEW t \in Thread, NEW l \in Level, Begin(t, l) \/ Request(t, l)
      PROVE  LevelInv'
  <2>1. CASE Lookup(t, l) \/ Unhook(t, l) \/ NoBuffers(t, l)
    BY <1>1, <2>1 DEF Lookup, Unhook, NoBuffers, RequestPC, MaskedPC
  <2>2. CASE SetKeyFails(t, l) \/ Post(t, l) \/ \E r \in Res : Setup(t, l, r)
    BY <1>1, <2>2 DEF Setup, SetKeyFails, Post, RequestPC, MaskedPC
  <2>3. CASE Lock(t, l, "lock", "insert") \/ Insert(t, l)
    BY <1>1, <2>3 DEF Lock, Insert, RequestPC, MaskedPC
  <2>4. CASE DmaLock(t, l) \/ DmaUnlock(t, l, "dma", "io")
    BY <1>1, <2>4 DEF DmaLock, DmaUnlock, RequestPC, MaskedPC
  <2>5. CASE SetupFails(t, l) \/ InitFails(t, l)
    BY <1>1, <2>5 DEF SetupFails, InitFails, RequestPC, MaskedPC
  <2>6. CASE InitLock(t, l, "init", "init_check") \/ InitDone(t, l, "init_check", "setup")
    BY <1>1, <2>6 DEF InitLock, InitDone, RequestPC, MaskedPC
  <2> QED
    BY <1>2, <1>3, <1>4, <1>5, <1>8, <2>1, <2>2, <2>3, <2>4, <2>5, <2>6 DEF Request
<1>9. ASSUME NEW t \in Thread, Exiting(t) PROVE LevelInv'
  <2>1. CASE Lock(t, 1, "exit_lock", "exit_remove") \/ Remove(t) \/ Release(t)
    BY <1>1, <2>1 DEF Lock, Remove, Release, RequestPC, MaskedPC
  <2>2. CASE \E from \in {"idle", "exit"} : CallDestructor(t, from) \/ ExitEnds(t, from)
    BY <1>1, <2>2 DEF CallDestructor, ExitEnds, RequestPC, MaskedPC
  <2> QED
    BY <1>6, <1>7, <1>9, <2>1, <2>2 DEF Exiting
<1>10. ASSUME NEW t \in Thread, Direct(t) PROVE LevelInv'
  <2>1. CASE InitLock(t, 1, "idle", "direct_init") \/ InitDone(t, 1, "direct_init", "idle")
    BY <1>1, <2>1 DEF InitLock, InitDone, RequestPC, MaskedPC
  <2>2. CASE DirectInitFails(t) \/ DirectLock(t) \/ DmaUnlock(t, 1, "direct", "idle")
    BY <1>1, <2>2 DEF DirectInitFails, DirectLock, DmaUnlock, RequestPC, MaskedPC
  <2> QED
    BY <1>10, <2>1, <2>2 DEF Direct
<1>11. ASSUME NEW t \in Thread, Fork(t) PROVE LevelInv'
  BY <1>11 DEF Fork, LevelInv
<1>12. ASSUME UNCHANGED vars PROVE LevelInv'
  BY <1>12 DEF vars, LevelInv
<1> QED
  BY <1>8, <1>9, <1>10, <1>11, <1>12 DEF Next

\* Critical sections of one thread do not overlap, so the lock that a section
\* gives back is the one it took.
LEMMA LockStep == IInv /\ [Next]_vars => LockInv'
<1> SUFFICES ASSUME TypeOK, LevelInv, LockInv, [Next]_vars PROVE LockInv'
  BY DEF IInv
<1> USE NamesAssumption DEF TypeOK, Level, Runs, Goto, dma
<1>1. ASSUME NEW t \in Thread, NEW l \in Level, NEW from, NEW to, Goto(t, l, from, to),
             from \notin {"insert", "exit_remove", "dma", "direct"},
             to \notin {"insert", "exit_remove", "dma", "direct"},
             UNCHANGED <<list_lock, vedma_lock>>
      PROVE  LockInv'
  BY <1>1 DEF LockInv
<1>2. ASSUME NEW t \in Thread, NEW l \in Level, Lock(t, l, "lock", "insert")
      PROVE  LockInv'
  BY <1>2 DEF Lock, LockInv
<1>3. ASSUME NEW t \in Thread, Lock(t, 1, "exit_lock", "exit_remove") PROVE LockInv'
  BY <1>3 DEF Lock, LockInv
<1>4. ASSUME NEW t \in Thread, NEW l \in Level, Insert(t, l) PROVE LockInv'
  <2>1. Goto(t, l, "insert", "unmask") /\ list_lock' = Null /\ UNCHANGED vedma_lock
    BY <1>4 DEF Insert
  <2> QED
    BY <2>1 DEF LockInv, LevelInv, MaskedPC, RequestPC
<1>5. ASSUME NEW t \in Thread, Remove(t) PROVE LockInv'
  <2>1. /\ Goto(t, 1, "exit_remove", "exit_unmask")
        /\ list_lock' = Null /\ UNCHANGED vedma_lock
    BY <1>5 DEF Remove
  <2> QED
    BY <2>1 DEF LockInv
<1>6. ASSUME NEW t \in Thread, NEW l \in Level, DmaLock(t, l) PROVE LockInv'
  BY <1>6 DEF DmaLock, LockInv
<1>7. ASSUME NEW t \in Thread, NEW l \in Level, DmaUnlock(t, l, "dma", "io")
      PROVE  LockInv'
  BY <1>7 DEF DmaUnlock, LockInv, LevelInv, RequestPC
<1>8. ASSUME NEW t \in Thread, DirectLock(t) \/ DmaUnlock(t, 1, "direct", "idle")
      PROVE  LockInv'
  BY <1>8 DEF DirectLock, DmaUnlock, LockInv
<1> HIDE DEF Goto
<1>9. ASSUME NEW t \in Thread, NEW l \in Level, Begin(t, l) \/ Request(t, l)
      PROVE  LockInv'
  <2>1. CASE Begin(t, l) \/ Unhook(t, l) \/ NoBuffers(t, l)
    BY <1>1, <2>1 DEF Begin, Unhook, NoBuffers
  <2>7. CASE SetupFails(t, l)
    <3>1. PICK from \in {"init", "setup"} : Goto(t, l, from, "unhook")
      BY <2>7 DEF SetupFails
    <3> QED
      BY <1>1, <2>7, <3>1 DEF SetupFails
  <2>2. ASSUME NEW r \in Res, Setup(t, l, r) PROVE LockInv'
    BY <1>1, <2>2 DEF Setup
  <2>3. CASE SetKey(t, l) \/ Post(t, l)
    BY <1>1, <2>3 DEF SetKey, Post
  <2>8. CASE SetKeyFails(t, l)
    BY <1>1, <2>8 DEF SetKeyFails
  <2>4. CASE Mask(t, l, "mask", "lock") \/ Unmask(t, l, "unmask", "io")
    BY <1>1, <2>4 DEF Mask, Unmask
  <2>5. CASE Swap(t, l) \/ Lookup(t, l)
    <3>1. PICK from \in {"swap", "lookup"}, to \in {"idle", "lookup", "init", "io"} :
              Goto(t, l, from, to)
      BY <2>5 DEF Swap, Lookup
    <3> QED
      BY <1>1, <2>5, <3>1 DEF Swap, Lookup
  <2>6. CASE \/ InitLock(t, l, "init", "init_check") \/ InitDone(t, l, "init_check", "setup")
             \/ InitFails(t, l)
    BY <1>1, <2>6 DEF InitLock, InitDone, InitFails
  <2> QED
    BY <1>2, <1>4, <1>6, <1>7, <1>9, <2>1, <2>2, <2>3, <2>4, <2>5, <2>6, <2>7, <2>8 DEF Request
<1>10. ASSUME NEW t \in Thread, Exiting(t) PROVE LockInv'
  <2>1. CASE \/ Mask(t, 1, "exit_mask", "exit_lock")
             \/ Unmask(t, 1, "exit_unmask", "exit_release") \/ Release(t)
    BY <1>1, <2>1 DEF Mask, Unmask, Release
  <2>2. CASE \E from \in {"idle", "exit"} : CallDestructor(t, from) \/ ExitEnds(t, from)
    BY <1>1, <2>2 DEF CallDestructor, ExitEnds
  <2>3. CASE Gone(t)
    BY <1>1, <2>3 DEF Gone
  <2> QED
    BY <1>3, <1>5, <1>10, <2>1, <2>2, <2>3 DEF Exiting
<1>13. ASSUME NEW t \in Thread, Direct(t) PROVE LockInv'
  <2>1. CASE InitLock(t, 1, "idle", "direct_init") \/ InitDone(t, 1, "direct_init", "idle")
    BY <1>1, <2>1 DEF InitLock, InitDone
  <2>2. CASE DirectInitFails(t)
    BY <1>1, <2>2 DEF DirectInitFails
  <2> QED
    BY <1>8, <1>13, <2>1, <2>2 DEF Direct
<1>11. ASSUME NEW t \in Thread, Fork(t) PROVE LockInv'
  BY <1>11 DEF Fork, LockInv
<1>12. ASSUME UNCHANGED vars PROVE LockInv'
  BY <1>12 DEF vars, LockInv
<1> QED
  BY <1>9, <1>10, <1>11, <1>12, <1>13 DEF Next

\* init_lock is not taken while it is locked, so a call of ve_dma_init that is
\* under way is the only one, and one that failed is the last.
LEMMA InitLockStep == IInv /\ [Next]_vars => InitLockInv'
<1> SUFFICES ASSUME TypeOK, LevelInv, InitLockInv, [Next]_vars PROVE InitLockInv'
  BY DEF IInv
<1> USE NamesAssumption DEF TypeOK, Level, Runs, Goto
<1>1. ASSUME NEW t \in Thread, NEW l \in Level, NEW from, NEW to, Goto(t, l, from, to),
             from \notin {"init_check", "direct_init"}, to \notin {"init_check", "direct_init"},
             UNCHANGED dma
      PROVE  InitLockInv'
  <2>1. UNCHANGED <<init_lock, dma_ready>>
    BY <1>1 DEF dma
  <2> QED
    BY <1>1, <2>1 DEF InitLockInv
<1>2. ASSUME NEW t \in Thread, NEW l \in Level, InitLock(t, l, "init", "init_check")
      PROVE  InitLockInv'
  BY <1>2 DEF InitLock, InitLockInv
<1>3. ASSUME NEW t \in Thread, InitLock(t, 1, "idle", "direct_init") PROVE InitLockInv'
  BY <1>3 DEF InitLock, InitLockInv
<1>4. ASSUME NEW t \in Thread, NEW l \in Level, InitDone(t, l, "init_check", "setup")
      PROVE  InitLockInv'
  BY <1>4 DEF InitDone, InitLockInv, LevelInv, RequestPC
<1>5. ASSUME NEW t \in Thread, InitDone(t, 1, "direct_init", "idle") PROVE InitLockInv'
  BY <1>5 DEF InitDone, InitLockInv
<1>6. ASSUME NEW t \in Thread, NEW l \in Level, InitFails(t, l) PROVE InitLockInv'
  BY <1>6 DEF InitFails, InitLockInv, dma
<1>7. ASSUME NEW t \in Thread, DirectInitFails(t) PROVE InitLockInv'
  BY <1>7 DEF DirectInitFails, InitLockInv, dma
<1>12. ASSUME NEW t \in Thread, NEW l \in Level,
              DmaLock(t, l) \/ DmaUnlock(t, l, "dma", "io")
       PROVE  InitLockInv'
  BY <1>12 DEF DmaLock, DmaUnlock, InitLockInv
<1>13. ASSUME NEW t \in Thread, DirectLock(t) \/ DmaUnlock(t, 1, "direct", "idle")
       PROVE  InitLockInv'
  BY <1>13 DEF DirectLock, DmaUnlock, InitLockInv
<1> HIDE DEF Goto, TypeOK
<1>8. ASSUME NEW t \in Thread, NEW l \in Level, Begin(t, l) \/ Request(t, l)
      PROVE  InitLockInv'
  <2>1. CASE Begin(t, l) \/ Unhook(t, l) \/ NoBuffers(t, l)
    BY <1>1, <2>1 DEF Begin, Unhook, NoBuffers
  <2>7. CASE SetupFails(t, l)
    <3>1. PICK from \in {"init", "setup"} : Goto(t, l, from, "unhook")
      BY <2>7 DEF SetupFails
    <3> QED
      BY <1>1, <2>7, <3>1 DEF SetupFails
  <2>2. ASSUME NEW r \in Res, Setup(t, l, r) PROVE InitLockInv'
    BY <1>1, <2>2 DEF Setup
  <2>3. CASE SetKey(t, l) \/ SetKeyFails(t, l) \/ Post(t, l)
    BY <1>1, <2>3 DEF SetKey, SetKeyFails, Post
  <2>4. CASE \/ Mask(t, l, "mask", "lock") \/ Unmask(t, l, "unmask", "io")
             \/ Lock(t, l, "lock", "insert") \/ Insert(t, l)
    BY <1>1, <2>4 DEF Mask, Unmask, Lock, Insert
  <2>5. CASE Swap(t, l) \/ Lookup(t, l)
    <3>1. PICK from \in {"swap", "lookup"}, to \in {"idle", "lookup", "init", "io"} :
              Goto(t, l, from, to)
      BY <2>5 DEF Swap, Lookup
    <3> QED
      BY <1>1, <2>5, <3>1 DEF Swap, Lookup
  <2> QED
    BY <1>2, <1>4, <1>6, <1>8, <1>12, <2>1, <2>2, <2>3, <2>4, <2>5, <2>7 DEF Request
<1>9. ASSUME NEW t \in Thread, Exiting(t) PROVE InitLockInv'
  <2>1. CASE \/ Mask(t, 1, "exit_mask", "exit_lock") \/ Lock(t, 1, "exit_lock", "exit_remove")
             \/ Remove(t) \/ Unmask(t, 1, "exit_unmask", "exit_release") \/ Release(t)
    BY <1>1, <2>1 DEF Mask, Lock, Remove, Unmask, Release
  <2>2. CASE \E from \in {"idle", "exit"} : CallDestructor(t, from) \/ ExitEnds(t, from)
    BY <1>1, <2>2 DEF CallDestructor, ExitEnds
  <2>3. CASE Gone(t)
    BY <1>1, <2>3 DEF Gone
  <2> QED
    BY <1>9, <2>1, <2>2, <2>3 DEF Exiting
<1>10. ASSUME NEW t \in Thread, Direct(t) PROVE InitLockInv'
  BY <1>3, <1>5, <1>7, <1>10, <1>13 DEF Direct
<1>11. ASSUME UNCHANGED <<pc, dma>> PROVE InitLockInv'
  BY <1>11 DEF InitLockInv, dma
<1> QED
  BY <1>8, <1>9, <1>10, <1>11 DEF Next, Fork, vars

\* What the steps that only go on mean for a resource and its place.
LEMMA OwnerMoveStep ==
    ASSUME TypeOK, OwnerInv, NEW t \in Thread, NEW l \in Level, NEW from, NEW to,
           Goto(t, l, from, to), UNCHANGED <<key, state, owner, my>>,
           from # "set_key", to # "set_key",
           to \in {"init", "init_check", "setup"} => from \in {"init", "init_check"} \/ key[t] = Null,
           to \in {"mask", "lock", "insert"} => from \in {"mask", "lock"},
           to \in {"unmask", "io", "dma"} => from \in {"insert", "unmask", "io", "dma"} \/ key[t] # Null,
           from \in LeavingPC <=> to \in LeavingPC
    PROVE  OwnerInv'
<1> USE DEF TypeOK, Level, Runs, Goto
<1>1. ASSUME NEW u \in Thread PROVE KeyInv(u)'
  BY DEF OwnerInv, KeyInv, Own
<1>2. ASSUME NEW u \in Thread, NEW r \in Res, Own(u, r)' PROVE Placed(u, r)'
  BY <1>2 DEF OwnerInv, Placed, Own
<1> QED
  BY <1>1, <1>2 DEF OwnerInv

\* A resource changes hands only in these six steps.
LEMMA SetupStep ==
    ASSUME TypeOK, LevelInv, OwnerInv, NEW t \in Thread, NEW l \in Level, NEW r \in Res,
           Setup(t, l, r)
    PROVE  OwnerInv'
<1> USE NamesAssumption DEF TypeOK, Level, Runs, Goto, Own
<1>1. owner[r] = Null /\ key[t] = Null
  BY DEF Setup, OwnerInv, KeyInv
<1>2. ASSUME NEW u \in Thread PROVE KeyInv(u)'
  BY <1>1 DEF Setup, OwnerInv, KeyInv
<1>3. ASSUME NEW u \in Thread, NEW q \in Res, Own(u, q)' PROVE Placed(u, q)'
  <2>1. CASE q = r
    BY <1>3, <2>1 DEF Setup, Placed
  <2>2. CASE q # r
    <3>1. Placed(u, q)
      BY <1>3, <2>2 DEF Setup, OwnerInv
    <3> QED
      BY <2>2, <3>1 DEF Setup, Placed, LeavingPC
  <2> QED
    BY <2>1, <2>2
<1>4. \A q \in Res : state'[q] = "none" <=> owner'[q] = Null
  BY DEF Setup, OwnerInv
<1> QED
  BY <1>2, <1>3, <1>4 DEF OwnerInv

\* A thread takes the resource it initialised for its own.
LEMMA SetKeyStep ==
    ASSUME TypeOK, LevelInv, OwnerInv, NEW t \in Thread, NEW l \in Level, SetKey(t, l)
    PROVE  OwnerInv'
<1> USE NamesAssumption DEF TypeOK, Level, Runs, Goto, Own
<1>1. key[t] = Null /\ my[t][l] \in Res
  BY DEF SetKey, OwnerInv, KeyInv
<1>2. ASSUME NEW u \in Thread PROVE KeyInv(u)'
  <2>1. CASE u = t
    <3>1. \A m \in Level : m # l => pc[t][m] \notin RequestPC
      BY DEF SetKey, LevelInv, RequestPC
    <3>2. KeyInv(t)
      BY DEF OwnerInv
    <3> QED
      BY <1>1, <2>1, <3>1, <3>2 DEF SetKey, KeyInv, RequestPC, LeavingPC
  <2>2. CASE u # t
    <3>1. KeyInv(u)
      BY DEF OwnerInv
    <3> QED
      BY <1>1, <2>2, <3>1 DEF SetKey, KeyInv
  <2> QED
    BY <2>1, <2>2
<1>3. ASSUME NEW u \in Thread, NEW q \in Res, Own(u, q)' PROVE Placed(u, q)'
  BY <1>1, <1>3 DEF SetKey, OwnerInv, Placed
<1>4. \A q \in Res : state'[q] = "none" <=> owner'[q] = Null
  BY DEF SetKey, OwnerInv
<1> QED
  BY <1>2, <1>3, <1>4 DEF OwnerInv

\* When pthread_setspecific fails the resource is the caller's to give up.
LEMMA SetKeyFailsStep ==
    ASSUME TypeOK, LevelInv, OwnerInv, NEW t \in Thread, NEW l \in Level, SetKeyFails(t, l)
    PROVE  OwnerInv'
<1> USE NamesAssumption DEF TypeOK, Level, Runs, Goto, Own
<1>1. key[t] = Null /\ Own(t, my[t][l])
  BY DEF SetKeyFails, OwnerInv, KeyInv
<1>2. ASSUME NEW u \in Thread PROVE KeyInv(u)'
  <2>1. CASE u = t
    <3>1. \A m \in Level : m # l => pc[t][m] \notin RequestPC
      BY DEF SetKeyFails, LevelInv, RequestPC
    <3>2. KeyInv(t)
      BY DEF OwnerInv
    <3> QED
      BY <1>1, <2>1, <3>1, <3>2 DEF SetKeyFails, KeyInv, RequestPC, LeavingPC
  <2>2. CASE u # t
    <3>1. KeyInv(u)
      BY DEF OwnerInv
    <3> QED
      BY <1>1, <2>2, <3>1 DEF SetKeyFails, KeyInv
  <2> QED
    BY <2>1, <2>2
<1>3. ASSUME NEW u \in Thread, NEW q \in Res, Own(u, q)' PROVE Placed(u, q)'
  BY <1>1, <1>3 DEF SetKeyFails, OwnerInv, Placed
<1>4. \A q \in Res : state'[q] = "none" <=> owner'[q] = Null
  BY <1>1 DEF SetKeyFails, OwnerInv
<1> QED
  BY <1>2, <1>3, <1>4 DEF OwnerInv

\* The destructor takes over the resource of the exiting thread.
LEMMA DestructorStep ==
    ASSUME TypeOK, OwnerInv, NEW t \in Thread, NEW from \in {"idle", "exit"},
           CallDestructor(t, from)
    PROVE  OwnerInv'
<1> USE NamesAssumption DEF TypeOK, Level, Runs, Goto, Own
<1>1. ASSUME NEW u \in Thread PROVE KeyInv(u)'
  BY DEF CallDestructor, OwnerInv, KeyInv, LeavingPC
<1>2. ASSUME NEW u \in Thread, NEW q \in Res, Own(u, q)' PROVE Placed(u, q)'
  BY <1>2 DEF CallDestructor, OwnerInv, Placed, LeavingPC
<1> QED
  BY <1>1, <1>2 DEF CallDestructor, OwnerInv

\* A released resource was the releasing thread's and its key is clear.
LEMMA ReleaseStep ==
    ASSUME TypeOK, OwnerInv, NEW t \in Thread, Release(t)
    PROVE  OwnerInv'
<1> USE NamesAssumption DEF TypeOK, Level, Runs, Goto, Own
<1>1. Own(t, my[t][1]) /\ key[t] # my[t][1]
  BY DEF Release, OwnerInv, KeyInv, LeavingPC
<1>2. ASSUME NEW u \in Thread PROVE KeyInv(u)'
  BY <1>1 DEF Release, OwnerInv, KeyInv, LeavingPC
<1>3. ASSUME NEW u \in Thread, NEW q \in Res, Own(u, q)' PROVE Placed(u, q)'
  BY <1>1, <1>3 DEF Release, OwnerInv, Placed, LeavingPC
<1>4. \A q \in Res : state'[q] = "none" <=> owner'[q] = Null
  BY <1>1 DEF Release, OwnerInv
<1> QED
  BY <1>2, <1>3, <1>4 DEF OwnerInv

\* A live resource has one thread and one place.
LEMMA OwnerStep == IInv /\ [Next]_vars => OwnerInv'
<1> SUFFICES ASSUME TypeOK, LevelInv, OwnerInv, [Next]_vars PROVE OwnerInv'
  BY DEF IInv
<1>1. ASSUME NEW t \in Thread, NEW l \in Level, Begin(t, l) \/ Request(t, l)
      PROVE  OwnerInv'
  <2>1. CASE Begin(t, l) \/ Unhook(t, l) \/ NoBuffers(t, l)
    BY <2>1, OwnerMoveStep DEF Begin, Unhook, NoBuffers, LeavingPC
  <2>2. CASE Swap(t, l) \/ Lookup(t, l)
    <3>1. PICK from \in {"swap", "lookup"}, to \in {"idle", "lookup", "init", "io"} :
              /\ Goto(t, l, from, to)
              /\ to = "init" => key[t] = Null
              /\ to = "io" => key[t] # Null
      BY <2>2 DEF Swap, Lookup
    <3>2. UNCHANGED <<key, state, owner, my>>
      BY <2>2 DEF Swap, Lookup
    <3> QED
      BY <3>1, <3>2, OwnerMoveStep DEF LeavingPC
  <2>3. CASE Mask(t, l, "mask", "lock") \/ Lock(t, l, "lock", "insert")
    BY <2>3, OwnerMoveStep DEF Mask, Lock, LeavingPC
  <2>4. CASE Insert(t, l) \/ Unmask(t, l, "unmask", "io") \/ Post(t, l)
    BY <2>4, OwnerMoveStep DEF Insert, Unmask, Post, LeavingPC
  <2>5. CASE DmaLock(t, l) \/ DmaUnlock(t, l, "dma", "io")
    BY <2>5, OwnerMoveStep DEF DmaLock, DmaUnlock, LeavingPC
  <2>6. CASE SetupFails(t, l) \/ InitFails(t, l)
    BY <2>6, OwnerMoveStep DEF SetupFails, InitFails, LeavingPC
  <2>7. CASE InitLock(t, l, "init", "init_check") \/ InitDone(t, l, "init_check", "setup")
    BY <2>7, OwnerMoveStep DEF InitLock, InitDone, LeavingPC
  <2> QED
    BY <1>1, <2>1, <2>2, <2>3, <2>4, <2>5, <2>6, <2>7, SetupStep, SetKeyStep, SetKeyFailsStep
       DEF Request
<1>2. ASSUME NEW t \in Thread, Exiting(t) PROVE OwnerInv'
  <2>1. CASE Mask(t, 1, "exit_mask", "exit_lock") \/ Lock(t, 1, "exit_lock", "exit_remove")
    BY <2>1, OwnerMoveStep DEF Mask, Lock, Level, LeavingPC
  <2>2. CASE Remove(t) \/ Unmask(t, 1, "exit_unmask", "exit_release")
    BY <2>2, OwnerMoveStep DEF Remove, Unmask, Level, LeavingPC
  <2>3. CASE Gone(t) \/ \E from \in {"idle", "exit"} : ExitEnds(t, from)
    BY <2>3, OwnerMoveStep DEF ExitEnds, Gone, Level, LeavingPC
  <2> QED
    BY <1>2, <2>1, <2>2, <2>3, DestructorStep, ReleaseStep DEF Exiting
<1>3. ASSUME NEW t \in Thread, Direct(t) PROVE OwnerInv'
  <2>1. CASE InitLock(t, 1, "idle", "direct_init") \/ InitDone(t, 1, "direct_init", "idle")
    BY <2>1, OwnerMoveStep DEF InitLock, InitDone, Level, LeavingPC
  <2>2. CASE DirectInitFails(t) \/ DirectLock(t) \/ DmaUnlock(t, 1, "direct", "idle")
    BY <2>2, OwnerMoveStep DEF DirectInitFails, DirectLock, DmaUnlock, Level, LeavingPC
  <2> QED
    BY <1>3, <2>1, <2>2 DEF Direct
<1>4. ASSUME UNCHANGED <<pc, key, state, owner, my>> PROVE OwnerInv'
  BY <1>4 DEF OwnerInv, KeyInv, Placed, Own
<1>5. ASSUME NEW t \in Thread, Fork(t) PROVE OwnerInv'
  BY <1>4, <1>5 DEF Fork
<1>6. ASSUME UNCHANGED vars PROVE OwnerInv'
  BY <1>4, <1>6 DEF vars
<1> QED
  BY <1>1, <1>2, <1>3, <1>5, <1>6 DEF Next

\* Two steps that work on a resource work on different ones.
LEMMA HolderUnique ==
    ASSUME TypeOK, LevelInv, OwnerInv,
           NEW t \in Thread, NEW l \in Level, pc[t][l] \in SetupPC \cup LeavingPC,
           NEW u \in Thread, NEW m \in Level, pc[u][m] \in SetupPC \cup LeavingPC,
           my[t][l] = my[u][m]
    PROVE  t = u /\ l = m
<1>1. ASSUME NEW v \in Thread, NEW k \in Level, pc[v][k] \in SetupPC \cup LeavingPC
      PROVE  Own(v, my[v][k]) /\ (pc[v][k] \in LeavingPC => k = 1)
  <2>1. KeyInv(v) /\ pc[v][2] \in {"idle", "swap", "unhook"} \cup RequestPC
    BY DEF OwnerInv, LevelInv
  <2> QED
    BY <1>1, <2>1 DEF KeyInv, SetupPC, LeavingPC, RequestPC, Level
<1>2. t = u
  BY <1>1 DEF Own
<1>3. l = m
  <2>1. KeyInv(t) /\ ~(pc[t][1] \in RequestPC /\ pc[t][2] \in RequestPC)
    BY DEF OwnerInv, LevelInv
  <2>2. SetupPC \subseteq RequestPC
    BY DEF SetupPC, RequestPC
  <2>3. CASE pc[t][1] \in LeavingPC /\ pc[t][2] \in SetupPC
    BY <1>2, <2>1, <2>3 DEF KeyInv, SetupPC, Level
  <2> QED
    BY <1>1, <1>2, <2>1, <2>2, <2>3 DEF Level
<1> QED
  BY <1>2, <1>3

\* A step that leaves the links and the linked resources alone.
LEMMA ListKept ==
    ASSUME ListInv, UNCHANGED <<next, prev>>, Linked' = Linked
    PROVE  ListInv'
BY DEF ListInv, Chain

\* A step that neither links nor unlinks a resource leaves the list sound.
LEMMA ListMoveStep ==
    ASSUME TypeOK, ListInv, NEW t \in Thread, NEW l \in Level, NEW from, NEW to,
           Goto(t, l, from, to), UNCHANGED <<state, my, next, prev>>,
           from \in UnlinkedPC <=> to \in UnlinkedPC
    PROVE  ListInv'
<1>1. \A u \in Thread, m \in Level : pc'[u][m] \in UnlinkedPC <=> pc[u][m] \in UnlinkedPC
  BY DEF TypeOK, Goto, Runs, Level
<1>2. Linked' = Linked
  BY <1>1 DEF Linked
<1> QED
  BY <1>2, ListKept

\* The new resource comes before the first.
LEMMA InsertStep ==
    ASSUME TypeOK, LevelInv, OwnerInv, ListInv,
           NEW t \in Thread, NEW l \in Level, Insert(t, l)
    PROVE  ListInv'
<1> USE NamesAssumption DEF TypeOK
<1>0. PICK r \in Res : r = my[t][l]
  BY DEF Insert, Goto, Runs, OwnerInv, KeyInv, Own
<1>1. Own(t, r) /\ r \in Res /\ r # "head" /\ r # Null
  BY <1>0 DEF Insert, Goto, Runs, OwnerInv, KeyInv, Own
<1>2. r \notin Linked
  BY <1>0 DEF Linked, Insert, Goto, Runs, UnlinkedPC, SetupPC
<1>3. ASSUME NEW u \in Thread, NEW m \in Level
      PROVE  pc'[u][m] \in UnlinkedPC <=> pc[u][m] \in UnlinkedPC /\ <<u, m>> # <<t, l>>
  BY DEF Insert, Goto, Runs, Level, UnlinkedPC, SetupPC
<1>4. Linked' = Linked \cup {r}
  <2>1. ASSUME NEW u \in Thread, NEW m \in Level, pc'[u][m] \in UnlinkedPC
        PROVE  my[u][m] # r
    BY <1>0, <1>3, <2>1, HolderUnique DEF Insert, Goto, Runs, UnlinkedPC, SetupPC, LeavingPC
  <2> QED
    BY <1>0, <1>1, <1>3, <2>1 DEF Linked, Insert, Own
<1>5a. PICK n \in 0 .. Cardinality(Res) : \E path \in [1 .. n -> Res] : Chain(n, path)
  BY DEF ListInv
<1>5. PICK path \in [1 .. n -> Res] : Chain(n, path)
  BY <1>5a
<1> DEFINE path2 == [x \in 1 .. n + 1 |-> IF x = 1 THEN r ELSE path[x - 1]]
<1>6. Cardinality(Res) \in Nat /\ n \in Nat
  BY ResAssumption, FS_CardinalityType
<1>7. path2 \in [1 .. n + 1 -> Res]
  BY <1>1, <1>5, <1>6
<1>8. \A x, y \in 1 .. n + 1 : path2[x] = path2[y] => x = y
  BY <1>2, <1>5, <1>6 DEF Chain
<1>9. n + 1 \in 0 .. Cardinality(Res)
  <2>1. path2 \in Injection(1 .. n + 1, Res)
    BY <1>7, <1>8 DEF Injection, IsInjective
  <2>2. Cardinality(1 .. n + 1) = n + 1
    BY <1>6, FS_Interval
  <2> QED
    BY <1>6, <2>1, <2>2, ResAssumption, FS_Injection
<1>10. Linked' = {path2[x] : x \in 1 .. n + 1}
  <2>1. ASSUME NEW q \in Linked' PROVE q \in {path2[x] : x \in 1 .. n + 1}
    <3>1. CASE q = r
      <4>1. 1 \in 1 .. n + 1 /\ path2[1] = r
        BY <1>6
      <4> QED
        BY <3>1, <4>1
    <3>2. CASE q \in Linked
      <4>1. PICK x \in 1 .. n : q = path[x]
        BY <1>5, <3>2 DEF Chain
      <4>2. x + 1 \in 1 .. n + 1 /\ q = path2[x + 1]
        BY <1>6, <4>1
      <4> QED
        BY <4>2
    <3> QED
      BY <1>4, <3>1, <3>2
  <2>2. ASSUME NEW x \in 1 .. n + 1 PROVE path2[x] \in Linked'
    <3>1. CASE x = 1
      BY <1>4, <3>1
    <3>2. CASE x # 1
      <4>1. x - 1 \in 1 .. n /\ path2[x] = path[x - 1]
        BY <1>6, <3>2
      <4> QED
        BY <1>4, <1>5, <4>1 DEF Chain
    <3> QED
      BY <3>1, <3>2
  <2> QED
    BY <2>1, <2>2
<1>11. ASSUME NEW x \in 1 .. n + 1
       PROVE  /\ next'[path2[x]] = IF x = n + 1 THEN Null ELSE path2[x + 1]
              /\ prev'[path2[x]] = IF x = 1 THEN "head" ELSE path2[x - 1]
  <2>1. /\ next' = [next EXCEPT ![r] = next["head"], !["head"] = r]
        /\ prev' = [q \in Node |-> IF q = r THEN "head"
                                   ELSE IF q = next["head"] THEN r ELSE prev[q]]
    BY <1>0 DEF Insert
  <2>2. path2[x] \in Res /\ path2[x] # "head" /\ path2[x] \in Node /\ r \in Node
    BY <1>1, <1>7 DEF Node
  <2>3. CASE x = 1
    <3>1. path2[x] = r
      BY <2>3
    <3>2. next'[r] = next["head"] /\ prev'[r] = "head"
      BY <1>1, <2>1, <2>2
    <3>3. next["head"] = IF n = 0 THEN Null ELSE path[1]
      BY <1>5 DEF Chain
    <3>4. n # 0 => path2[2] = path[1]
      BY <1>6
    <3> QED
      BY <1>6, <2>3, <3>1, <3>2, <3>3, <3>4
  <2>4. CASE x # 1
    <3>1. x - 1 \in 1 .. n /\ path2[x] = path[x - 1]
      BY <1>6, <2>4
    <3>2. path2[x] # r
      BY <1>2, <1>5, <3>1 DEF Chain
    <3>3. /\ next[path[x - 1]] = IF x - 1 = n THEN Null ELSE path[(x - 1) + 1]
          /\ prev[path[x - 1]] = IF x - 1 = 1 THEN "head" ELSE path[(x - 1) - 1]
          /\ next["head"] = path[1]
          /\ path[x - 1] = path[1] <=> x - 1 = 1
      BY <1>5, <1>6, <3>1 DEF Chain
    <3>4. next'[path2[x]] = next[path[x - 1]]
      BY <2>1, <2>2, <3>1, <3>2
    <3>5. prev'[path2[x]] = IF x - 1 = 1 THEN r ELSE prev[path[x - 1]]
      BY <2>1, <2>2, <3>1, <3>2, <3>3
    <3>6. x # n + 1 => path2[x + 1] = path[(x - 1) + 1]
      BY <1>6, <2>4
    <3>7. path2[x - 1] = IF x - 1 = 1 THEN r ELSE path[(x - 1) - 1]
      BY <1>6, <2>4
    <3> QED
      BY <1>6, <2>4, <3>3, <3>4, <3>5, <3>6, <3>7
  <2> QED
    BY <2>3, <2>4
<1>12. next'["head"] = path2[1] /\ n + 1 # 0
  BY <1>0, <1>1, <1>6 DEF Insert, Node
<1>13. Chain(n + 1, path2)'
  BY <1>8, <1>10, <1>11, <1>12 DEF Chain
<1> QED
  BY <1>7, <1>9, <1>13 DEF ListInv

\* The neighbours of a resource that leaves are neighbours after it.
LEMMA RemoveStep ==
    ASSUME TypeOK, LevelInv, OwnerInv, ListInv, NEW t \in Thread, Remove(t)
    PROVE  ListInv'
<1> USE NamesAssumption DEF TypeOK
<1>1. PICK r \in Res : r = my[t][1]
  BY DEF Remove, Goto, Runs, OwnerInv, KeyInv, Own, LeavingPC
<1>2. Own(t, r) /\ r # "head" /\ r # Null
  BY <1>1 DEF Remove, Goto, Runs, OwnerInv, KeyInv, Own, LeavingPC
<1>3. ASSUME NEW u \in Thread, NEW m \in Level
      PROVE  pc'[u][m] \in UnlinkedPC <=> pc[u][m] \in UnlinkedPC \/ <<u, m>> = <<t, 1>>
  BY DEF Remove, Goto, Runs, Level, UnlinkedPC, SetupPC
<1>4. r \in Linked
  <2>1. ASSUME NEW u \in Thread, NEW m \in Level, pc[u][m] \in UnlinkedPC, my[u][m] = r
        PROVE  FALSE
    BY <1>1, <2>1, HolderUnique
       DEF Remove, Goto, Runs, UnlinkedPC, SetupPC, LeavingPC, Level
  <2> QED
    BY <1>2, <2>1 DEF Linked, Own
<1>5. Linked' = Linked \ {r}
  BY <1>1, <1>3 DEF Linked, Remove, Level
<1>6. PICK n \in 0 .. Cardinality(Res) : \E path \in [1 .. n -> Res] : Chain(n, path)
  BY DEF ListInv
<1>7. PICK path \in [1 .. n -> Res] : Chain(n, path)
  BY <1>6
<1>8. PICK k \in 1 .. n : path[k] = r
  BY <1>4, <1>7 DEF Chain
<1>9. Cardinality(Res) \in Nat /\ n \in Nat /\ n # 0 /\ n - 1 \in 0 .. Cardinality(Res)
  BY <1>8, ResAssumption, FS_CardinalityType
<1> DEFINE path2 == [x \in 1 .. n - 1 |-> IF x < k THEN path[x] ELSE path[x + 1]]
<1>10. path2 \in [1 .. n - 1 -> Res]
  BY <1>9
<1>11. \A x, y \in 1 .. n - 1 : path2[x] = path2[y] => x = y
  BY <1>7, <1>9 DEF Chain
<1>12. \A x \in 1 .. n - 1 : path2[x] \in Linked \ {r}
  BY <1>7, <1>8, <1>9 DEF Chain
<1>13. Linked' = {path2[x] : x \in 1 .. n - 1}
  <2>1. ASSUME NEW q \in Linked' PROVE \E x \in 1 .. n - 1 : q = path2[x]
    <3>1. PICK x \in 1 .. n : q = path[x] /\ x # k
      BY <1>5, <1>7, <1>8, <2>1 DEF Chain
    <3>2. CASE x < k
      <4>1. x \in 1 .. n - 1 /\ q = path2[x]
        BY <1>9, <3>1, <3>2
      <4> QED
        BY <4>1
    <3>3. CASE x > k
      <4>1. x - 1 \in 1 .. n - 1 /\ q = path2[x - 1]
        BY <1>9, <3>1, <3>3
      <4> QED
        BY <4>1
    <3> QED
      BY <3>1, <3>2, <3>3
  <2> QED
    BY <1>5, <1>12, <2>1
<1>14. /\ next' = [q \in Node |-> IF q = prev[r] THEN next[r] ELSE next[q]]
       /\ prev' = [q \in Node |-> IF q = next[r] THEN prev[r] ELSE prev[q]]
  BY <1>1 DEF Remove
<1>15. /\ next[r] = IF k = n THEN Null ELSE path[k + 1]
       /\ prev[r] = IF k = 1 THEN "head" ELSE path[k - 1]
       /\ next["head"] = path[1]
  BY <1>7, <1>8, <1>9 DEF Chain
<1>16. ASSUME NEW x \in 1 .. n - 1
       PROVE  /\ next'[path2[x]] = IF x = n - 1 THEN Null ELSE path2[x + 1]
              /\ prev'[path2[x]] = IF x = 1 THEN "head" ELSE path2[x - 1]
  <2>1. path2[x] \in Res /\ path2[x] # "head" /\ path2[x] \in Node
    BY <1>10 DEF Node
  <2>2. CASE x < k
    <3>1. x \in 1 .. n /\ path2[x] = path[x]
      BY <1>9, <2>2
    <3>2. /\ next[path[x]] = path[x + 1]
          /\ prev[path[x]] = IF x = 1 THEN "head" ELSE path[x - 1]
      BY <1>7, <1>9, <2>2, <3>1 DEF Chain
    <3>3. /\ path[x] = prev[r] <=> x = k - 1
          /\ path[x] # next[r]
      BY <1>7, <1>9, <1>15, <2>1, <2>2, <3>1 DEF Chain
    <3>4. next'[path2[x]] = IF x = k - 1 THEN next[r] ELSE path[x + 1]
      BY <1>14, <2>1, <3>1, <3>2, <3>3
    <3>5. prev'[path2[x]] = prev[path[x]]
      BY <1>14, <2>1, <3>1, <3>3
    <3>6. x # n - 1 => path2[x + 1] = IF x = k - 1 THEN path[k + 1] ELSE path[x + 1]
      BY <1>9, <2>2
    <3>7. x # 1 => path2[x - 1] = path[x - 1]
      BY <1>9, <2>2
    <3>8. next'[path2[x]] = IF x = n - 1 THEN Null ELSE path2[x + 1]
      BY <1>9, <1>15, <2>2, <3>4, <3>6
    <3>9. prev'[path2[x]] = IF x = 1 THEN "head" ELSE path2[x - 1]
      BY <3>2, <3>5, <3>7
    <3> QED
      BY <3>8, <3>9
  <2>3. CASE x >= k
    <3>1. x + 1 \in 1 .. n /\ path2[x] = path[x + 1]
      BY <1>9, <2>3
    <3>2. /\ next[path[x + 1]] = IF x + 1 = n THEN Null ELSE path[(x + 1) + 1]
          /\ prev[path[x + 1]] = path[x]
      BY <1>7, <1>9, <2>3, <3>1 DEF Chain
    <3>3. /\ path[x + 1] = next[r] <=> x = k
          /\ path[x + 1] # prev[r]
      BY <1>7, <1>9, <1>15, <2>1, <2>3, <3>1 DEF Chain
    <3>4. next'[path2[x]] = next[path[x + 1]]
      BY <1>14, <2>1, <3>1, <3>3
    <3>5. prev'[path2[x]] = IF x = k THEN prev[r] ELSE path[x]
      BY <1>14, <2>1, <3>1, <3>2, <3>3
    <3>6. x # n - 1 => path2[x + 1] = path[(x + 1) + 1]
      BY <1>9, <2>3
    <3>7. x # 1 => path2[x - 1] = IF x = k THEN path[k - 1] ELSE path[x]
      BY <1>9, <2>3
    <3>8. next'[path2[x]] = IF x = n - 1 THEN Null ELSE path2[x + 1]
      BY <1>9, <2>3, <3>2, <3>4, <3>6
    <3>9. prev'[path2[x]] = IF x = 1 THEN "head" ELSE path2[x - 1]
      BY <1>9, <1>15, <2>3, <3>5, <3>7
    <3> QED
      BY <3>8, <3>9
  <2> QED
    BY <1>9, <2>2, <2>3
<1>17. next'["head"] = IF n - 1 = 0 THEN Null ELSE path2[1]
  <2>1. "head" \in Node /\ (k # 1 => prev[r] # "head")
    BY <1>9, <1>15 DEF Node
  <2>2. next'["head"] = IF k = 1 THEN next[r] ELSE path[1]
    BY <1>14, <1>15, <2>1
  <2>3. n - 1 # 0 => path2[1] = IF k = 1 THEN path[k + 1] ELSE path[1]
    BY <1>9
  <2> QED
    BY <1>9, <1>15, <2>2, <2>3
<1>18. Chain(n - 1, path2)'
  BY <1>11, <1>13, <1>16, <1>17 DEF Chain
<1> QED
  BY <1>9, <1>10, <1>18 DEF ListInv

\* A resource that is not linked yet, or no longer, is made or freed.
LEMMA UnlinkedStep ==
    ASSUME TypeOK, LevelInv, OwnerInv, ListInv, NEW t \in Thread,
           \/ \E l \in Level : SetKeyFails(t, l) \/ \E r \in Res : Setup(t, l, r)
           \/ Release(t) \/ \E from \in {"idle", "exit"} : CallDestructor(t, from)
    PROVE  ListInv'
<1> USE NamesAssumption DEF TypeOK, Level, Runs, Goto
<1>1. ASSUME NEW l \in Level, NEW r \in Res, Setup(t, l, r) PROVE ListInv'
  <2>1. \A u \in Thread, m \in Level :
            /\ pc'[u][m] \in UnlinkedPC <=> pc[u][m] \in UnlinkedPC \/ <<u, m>> = <<t, l>>
            /\ <<u, m>> # <<t, l>> => my'[u][m] = my[u][m]
    BY <1>1 DEF Setup, UnlinkedPC, SetupPC
  <2>2. my'[t][l] = r /\ pc[t][l] \notin UnlinkedPC /\ r \notin Linked
    BY <1>1 DEF Setup, Linked, UnlinkedPC, SetupPC
  <2>3. Linked' = Linked
    BY <1>1, <2>1, <2>2 DEF Setup, Linked
  <2> QED
    BY <1>1, <2>3, ListKept DEF Setup, list
<1>2. ASSUME NEW l \in Level, SetKeyFails(t, l) PROVE ListInv'
  <2>1. \A u \in Thread, m \in Level :
            pc'[u][m] \in UnlinkedPC <=> pc[u][m] \in UnlinkedPC /\ <<u, m>> # <<t, l>>
    BY <1>2 DEF SetKeyFails, UnlinkedPC, SetupPC
  <2>2. my[t][l] \in Res /\ pc[t][l] \in UnlinkedPC
    BY <1>2 DEF SetKeyFails, UnlinkedPC, SetupPC, OwnerInv, KeyInv, Own
  <2>3. Linked' = Linked
    BY <1>2, <2>1, <2>2 DEF SetKeyFails, Linked
  <2> QED
    BY <1>2, <2>3, ListKept DEF SetKeyFails, list
<1>3. CASE Release(t)
  <2>1. \A u \in Thread, m \in Level :
            pc'[u][m] \in UnlinkedPC <=> pc[u][m] \in UnlinkedPC /\ <<u, m>> # <<t, 1>>
    BY <1>3 DEF Release, UnlinkedPC, SetupPC
  <2>2. my[t][1] \in Res /\ pc[t][1] \in UnlinkedPC
    BY <1>3 DEF Release, UnlinkedPC, LeavingPC, OwnerInv, KeyInv, Own
  <2>3. Linked' = Linked
    BY <1>3, <2>1, <2>2 DEF Release, Linked
  <2> QED
    BY <1>3, <2>3, ListKept DEF Release, list
<1>4. ASSUME NEW from \in {"idle", "exit"}, CallDestructor(t, from) PROVE ListInv'
  <2>1. \A u \in Thread, m \in Level : <<u, m>> # <<t, 1>> => my'[u][m] = my[u][m]
    BY <1>4 DEF CallDestructor
  <2>2. \A u \in Thread, m \in Level :
            pc'[u][m] \in UnlinkedPC <=> pc[u][m] \in UnlinkedPC /\ <<u, m>> # <<t, 1>>
    BY <1>4 DEF CallDestructor, UnlinkedPC, SetupPC
  <2>3. pc[t][1] \notin UnlinkedPC
    BY <1>4 DEF CallDestructor, UnlinkedPC, SetupPC
  <2>4. UNCHANGED <<state, next, prev>>
    BY <1>4 DEF CallDestructor, list
  <2>5. \A u \in Thread, m \in Level : pc[u][m] \in UnlinkedPC => <<u, m>> # <<t, 1>>
    BY <2>3
  <2>6. \A u \in Thread, m \in Level :
            /\ pc'[u][m] \in UnlinkedPC <=> pc[u][m] \in UnlinkedPC
            /\ pc[u][m] \in UnlinkedPC => my'[u][m] = my[u][m]
    BY <2>1, <2>2, <2>5
  <2>7. Linked' = Linked
    BY <2>4, <2>6 DEF Linked
  <2> QED
    BY <2>4, <2>7, ListKept
<1> QED
  BY <1>1, <1>2, <1>3, <1>4

\* The list holds the linked resources, well linked, whatever happens.
LEMMA ListStep == IInv /\ [Next]_vars => ListInv'
<1> SUFFICES ASSUME TypeOK, LevelInv, OwnerInv, ListInv, [Next]_vars PROVE ListInv'
  BY DEF IInv
<1> USE DEF UnlinkedPC, SetupPC
<1>1. ASSUME NEW t \in Thread, NEW l \in Level, Begin(t, l) \/ Request(t, l)
      PROVE  ListInv'
  <2>1. CASE Begin(t, l) \/ Unhook(t, l) \/ NoBuffers(t, l)
    BY <2>1, ListMoveStep DEF Begin, Unhook, NoBuffers, list
  <2>2. CASE Swap(t, l) \/ Lookup(t, l)
    <3>1. PICK from \in {"swap", "lookup"}, to \in {"idle", "lookup", "init", "io"} :
              Goto(t, l, from, to)
      BY <2>2 DEF Swap, Lookup
    <3>2. UNCHANGED <<state, my, next, prev>>
      BY <2>2 DEF Swap, Lookup, list
    <3> QED
      BY <3>1, <3>2, ListMoveStep
  <2>3. CASE SetKey(t, l) \/ Mask(t, l, "mask", "lock") \/ Lock(t, l, "lock", "insert")
    BY <2>3, ListMoveStep DEF SetKey, Mask, Lock, list
  <2>4. CASE Unmask(t, l, "unmask", "io") \/ Post(t, l)
    BY <2>4, ListMoveStep DEF Unmask, Post, list
  <2>5. CASE DmaLock(t, l) \/ DmaUnlock(t, l, "dma", "io")
    BY <2>5, ListMoveStep DEF DmaLock, DmaUnlock, list
  <2>6. CASE SetupFails(t, l) \/ InitFails(t, l)
    BY <2>6, ListMoveStep DEF SetupFails, InitFails, list
  <2>7. CASE InitLock(t, l, "init", "init_check") \/ InitDone(t, l, "init_check", "setup")
    BY <2>7, ListMoveStep DEF InitLock, InitDone, list
  <2> QED
    BY <1>1, <2>1, <2>2, <2>3, <2>4, <2>5, <2>6, <2>7, InsertStep, UnlinkedStep DEF Request
<1>2. ASSUME NEW t \in Thread, Exiting(t) PROVE ListInv'
  <2>1. CASE \/ Mask(t, 1, "exit_mask", "exit_lock") \/ Lock(t, 1, "exit_lock", "exit_remove")
             \/ Unmask(t, 1, "exit_unmask", "exit_release")
    BY <2>1, ListMoveStep DEF Mask, Lock, Unmask, Level, list
  <2>2. CASE Gone(t) \/ \E from \in {"idle", "exit"} : ExitEnds(t, from)
    BY <2>2, ListMoveStep DEF ExitEnds, Gone, Level, list
  <2> QED
    BY <1>2, <2>1, <2>2, RemoveStep, UnlinkedStep DEF Exiting
<1>3. ASSUME NEW t \in Thread, Direct(t) PROVE ListInv'
  <2>1. CASE InitLock(t, 1, "idle", "direct_init") \/ InitDone(t, 1, "direct_init", "idle")
    BY <2>1, ListMoveStep DEF InitLock, InitDone, Level, list
  <2>2. CASE DirectInitFails(t) \/ DirectLock(t) \/ DmaUnlock(t, 1, "direct", "idle")
    BY <2>2, ListMoveStep DEF DirectInitFails, DirectLock, DmaUnlock, Level, list
  <2> QED
    BY <1>3, <2>1, <2>2 DEF Direct
<1>4. ASSUME UNCHANGED <<pc, state, my, next, prev>> PROVE ListInv'
  BY <1>4, ListKept DEF Linked
<1>5. ASSUME NEW t \in Thread, Fork(t) PROVE ListInv'
  BY <1>4, <1>5 DEF Fork, list
<1>6. ASSUME UNCHANGED vars PROVE ListInv'
  BY <1>4, <1>6 DEF vars, list
<1> QED
  BY <1>1, <1>2, <1>3, <1>5, <1>6 DEF Next

\* No thread has a resource at first and the list is empty.
LEMMA InitHolds == Init => IInv
<1> SUFFICES ASSUME Init PROVE IInv
  OBVIOUS
<1> USE NamesAssumption DEF Init, Level
<1>1. TypeOK
  BY DEF TypeOK, FlagHeld, PC, RequestPC, Node
<1>2. LevelInv /\ LockInv /\ InitLockInv
  BY DEF LevelInv, LockInv, InitLockInv, RequestPC, MaskedPC
<1>3. OwnerInv
  BY DEF OwnerInv, KeyInv, Own, LeavingPC
<1>4. ListInv
  <2>1. Cardinality(Res) \in Nat
    BY ResAssumption, FS_CardinalityType
  <2>2. 0 \in 0 .. Cardinality(Res) /\ 1 .. 0 = {}
    BY <2>1
  <2>3. next["head"] = Null /\ Linked = {}
    BY DEF Linked, Node
  <2>4. [x \in 1 .. 0 |-> Null] \in [1 .. 0 -> Res] /\ Chain(0, [x \in 1 .. 0 |-> Null])
    BY <2>2, <2>3 DEF Chain
  <2> QED
    BY <2>2, <2>4 DEF ListInv
<1> QED
  BY <1>1, <1>2, <1>3, <1>4 DEF IInv

\* Everything below rests on this.
THEOREM Invariance == Spec => []IInv
<1>1. IInv /\ [Next]_vars => IInv'
  BY TypeStep, LevelStep, LockStep, InitLockStep, OwnerStep, ListStep DEF IInv
<1> QED
  BY InitHolds, <1>1, PTL DEF Spec

\* All variables keep their types, and the flag says who has the buffers.
THEOREM TypeCorrect == Spec => []TypeOK
<1>1. IInv => TypeOK
  BY DEF IInv
<1> QED
  BY <1>1, Invariance, PTL

\* No two requests of a thread, its own and a handler's, share its buffers.
THEOREM BuffersExclusiveCorrect == Spec => []BuffersExclusive
<1>1. IInv => BuffersExclusive
  BY DEF IInv, BuffersExclusive, LevelInv, OwnerInv, KeyInv, Own
<1> QED
  BY <1>1, Invariance, PTL

\* No request waits for a lock of its own thread: neither for the list's nor
\* for those of VE DMA, unless the thread is in a VE DMA call of the program
\* itself or a failed ve_dma_init left init_lock locked.
THEOREM NoSelfWaitCorrect == Spec => []NoSelfWait
<1>1. IInv => NoSelfWait
  <2> SUFFICES ASSUME IInv, NEW t \in Thread, NEW l \in Level
               PROVE  /\ pc[t][l] \in {"lock", "exit_lock"} => list_lock # t
                      /\ pc[t][l] = "io" /\ vedma_lock = t => l = 2 /\ pc[t][1] = "direct"
                      /\ pc[t][l] = "init" /\ init_lock = t =>
                             (l = 2 /\ pc[t][1] = "direct_init") \/ InitAbandoned(t)
    BY DEF NoSelfWait
  <2> USE DEF IInv, LevelInv, RequestPC, Level
  <2>1. pc[t][l] \in {"lock", "exit_lock"} => list_lock # t
    BY DEF LockInv, MaskedPC
  <2>2. pc[t][l] = "io" /\ vedma_lock = t => l = 2 /\ pc[t][1] = "direct"
    BY DEF LockInv
  <2>3. ASSUME pc[t][l] = "init", init_lock = t, ~(l = 2 /\ pc[t][1] = "direct_init")
        PROVE  InitAbandoned(t)
    <3>1. pc[t][1] # "direct_init" /\ pc[t][1] # "init_check" /\ pc[t][2] # "init_check"
      BY <2>3
    <3> QED
      BY <2>3, <3>1 DEF InitLockInv, InitAbandoned, TypeOK
  <2> QED
    BY <2>1, <2>2, <2>3
<1> QED
  BY <1>1, Invariance, PTL

\* Of an exited thread only buffers its key names may be left: all that the
\* destructor was called with, and all that never became the key, is released.
THEOREM ExitReleasesCorrect == Spec => []ExitReleases
<1>1. IInv => ExitReleases
  <2> SUFFICES ASSUME IInv, NEW t \in Thread, NEW r \in Res, pc[t][1] = "exited",
                      pc[t][2] = "idle", owner[r] = t, r # key[t]
               PROVE  state[r] = "freed"
    BY DEF ExitReleases
  <2>1. ~Placed(t, r)
    BY NamesAssumption DEF IInv, LevelInv, Placed, LeavingPC, Level
  <2>2. state[r] # "none"
    BY NamesAssumption DEF IInv, OwnerInv
  <2> QED
    BY <2>1, <2>2 DEF IInv, TypeOK, OwnerInv, Own
<1> QED
  BY <1>1, Invariance, PTL

\* A set of natural numbers has a least one: what proofs about Walk, which is
\* recursive, have instead of induction.
LEMMA LeastNat ==
    ASSUME NEW S, S \subseteq Nat, S # {}
    PROVE  \E m \in S : \A k \in S : m <= k
<1>1. PICK m \in S : \A k \in S : ~(<<k, m>> \in OpToRel(<, Nat))
  BY NatLessThanWellFounded, WFMin, Zenon
<1>2. \A k \in S : ~(k < m)
  BY <1>1 DEF OpToRel
<1> QED
  BY <1>2

\* After i steps from the first of the list the walk has seen the first i + 1,
\* and Null when it has gone beyond the last.
Seen(n, path, i) == {path[x] : x \in {y \in 1 .. n : y <= i + 1}} \cup {z \in {Null} : n <= i}

\* Those prefixes satisfy the equation that defines Walk.
LEMMA SeenSteps ==
    ASSUME TypeOK, NEW n \in Nat, NEW path \in [1 .. n -> Res], Chain(n, path)
    PROVE  /\ Seen(n, path, 0) = {next["head"]}
           /\ \A i \in Nat : i # 0 =>
                  Seen(n, path, i) = Seen(n, path, i - 1)
                      \cup {next[r] : r \in Seen(n, path, i - 1) \ {Null}}
<1> USE NamesAssumption
<1>1. Seen(n, path, 0) = {next["head"]}
  BY DEF Chain, Seen
<1>2. ASSUME NEW i \in Nat, i # 0
      PROVE  Seen(n, path, i) = Seen(n, path, i - 1)
                 \cup {next[r] : r \in Seen(n, path, i - 1) \ {Null}}
  <2> DEFINE Before == Seen(n, path, i - 1)
  <2>1. Before \ {Null} = {path[x] : x \in {y \in 1 .. n : y <= i}}
    BY <1>2 DEF Seen
  <2>2. ASSUME NEW z \in Seen(n, path, i)
        PROVE  z \in Before \/ \E r \in Before \ {Null} : z = next[r]
    <3>1. CASE z = Null
      <4>1. n <= i
        BY <3>1, <2>2 DEF Seen
      <4>2. CASE n <= i - 1
        BY <3>1, <4>2 DEF Seen
      <4>3. CASE n = i
        <5>1. n \in 1 .. n /\ path[n] \in Before \ {Null} /\ next[path[n]] = Null
          BY <1>2, <2>1, <4>3 DEF Chain
        <5> QED
          BY <3>1, <5>1
      <4> QED
        BY <1>2, <4>1, <4>2, <4>3
    <3>2. CASE z # Null
      <4>1. PICK x \in 1 .. n : x <= i + 1 /\ z = path[x]
        BY <3>2, <2>2 DEF Seen
      <4>2. CASE x <= i
        BY <2>1, <4>1, <4>2
      <4>3. CASE x = i + 1
        <5>1. i \in 1 .. n /\ next[path[i]] = path[x]
          BY <1>2, <4>1, <4>3 DEF Chain
        <5>2. path[i] \in Before \ {Null}
          BY <2>1, <5>1
        <5> QED
          BY <4>1, <5>1, <5>2
      <4> QED
        BY <1>2, <4>1, <4>2, <4>3
    <3> QED
      BY <3>1, <3>2
  <2>3. ASSUME NEW z \in Before PROVE z \in Seen(n, path, i)
    BY <1>2, <2>3 DEF Seen
  <2>4. ASSUME NEW r \in Before \ {Null} PROVE next[r] \in Seen(n, path, i)
    <3>1. PICK x \in 1 .. n : x <= i /\ r = path[x]
      BY <2>1, <2>4
    <3>2. next[r] = IF x = n THEN Null ELSE path[x + 1]
      BY <3>1 DEF Chain
    <3>3. x # n => x + 1 \in 1 .. n /\ x + 1 <= i + 1
      BY <3>1
    <3>4. x = n => n <= i
      BY <3>1
    <3> QED
      BY <3>2, <3>3, <3>4 DEF Seen
  <2> QED
    BY <2>2, <2>3, <2>4
<1> QED
  BY <1>1, <1>2

\* The walk from the head finds the linked resources.
LEMMA ListedIsLinked ==
    ASSUME TypeOK, ListInv
    PROVE  Listed = Linked
<1> DEFINE N == Cardinality(Res)
           Eq(f) == f = [k \in 0 .. N |->
                           IF k = 0 THEN {next["head"]}
                           ELSE f[k - 1] \cup {next[r] : r \in f[k - 1] \ {Null}}]
<1>1. N \in Nat
  BY ResAssumption, FS_CardinalityType
<1>2. PICK n \in 0 .. N : \E path \in [1 .. n -> Res] : Chain(n, path)
  BY DEF ListInv
<1>3. PICK path \in [1 .. n -> Res] : Chain(n, path)
  BY <1>2
<1> DEFINE W == [k \in 0 .. N |-> Seen(n, path, k)]
<1>4. \A k \in 0 .. N : W[k] = IF k = 0 THEN {next["head"]}
                               ELSE W[k - 1] \cup {next[r] : r \in W[k - 1] \ {Null}}
  <2>1. n \in Nat /\ \A k \in 0 .. N : k \in Nat /\ (k # 0 => k - 1 \in 0 .. N)
    BY <1>1, <1>2
  <2> QED
    BY <1>3, <2>1, SeenSteps
<1>5. Eq(W)
  BY <1>4
<1>6. Walk = CHOOSE f : Eq(f)
  BY Zenon DEF Walk
<1>7. Eq(Walk)
  <2> HIDE DEF Eq
  <2> QED
    BY <1>5, <1>6, Zenon
<1>8. \A k \in 0 .. N : Walk[k] = IF k = 0 THEN {next["head"]}
                            ELSE Walk[k - 1] \cup {next[r] : r \in Walk[k - 1] \ {Null}}
  BY <1>7
<1>9. \A k \in 0 .. N : Walk[k] = W[k]
  <2> DEFINE Differ == {k \in 0 .. N : Walk[k] # W[k]}
  <2> SUFFICES ASSUME Differ # {} PROVE FALSE
    OBVIOUS
  <2>1. Differ \subseteq Nat
    BY <1>1
  <2>2. PICK m \in Differ : \A k \in Differ : m <= k
    <3> HIDE DEF Differ
    <3> QED
      BY <2>1, LeastNat
  <2>3. m \in 0 .. N /\ Walk[m] # W[m]
    OBVIOUS
  <2>4. m # 0
    BY <1>1, <1>4, <1>8, <2>3
  <2>5. m - 1 \in 0 .. N /\ ~(m <= m - 1)
    BY <1>1, <2>3, <2>4
  <2>6. m - 1 \notin Differ
    BY <2>2, <2>5
  <2>7. Walk[m - 1] = W[m - 1]
    BY <2>5, <2>6
  <2> HIDE DEF W
  <2>8. W[m] = W[m - 1] \cup {next[r] : r \in W[m - 1] \ {Null}}
    BY <1>4, <2>3, <2>4
  <2>9. Walk[m] = Walk[m - 1] \cup {next[r] : r \in Walk[m - 1] \ {Null}}
    BY <1>8, <2>3, <2>4
  <2> QED
    BY <2>3, <2>7, <2>8, <2>9
<1>10. Walk[N] = Seen(n, path, N)
  <2>1. N \in 0 .. N
    BY <1>1
  <2> QED
    BY <1>9, <2>1
<1>11. Seen(n, path, N) \ {Null} = {path[x] : x \in 1 .. n}
  BY <1>1, <1>2, NamesAssumption DEF Seen
<1> QED
  BY <1>3, <1>10, <1>11 DEF Listed, Chain

\* What a fork finds on the list is live, well linked and all that the threads'
\* requests have been working with.
THEOREM ListSoundCorrect == Spec => []ListSound
<1>1. IInv => ListSound
  <2> SUFFICES ASSUME IInv PROVE ListSound
    OBVIOUS
  <2>1. Listed = Linked
    BY ListedIsLinked DEF IInv
  <2>2. ASSUME NEW r \in Linked PROVE state[r] = "alive" /\ next[prev[r]] = r
    <3>1. PICK n \in 0 .. Cardinality(Res) : \E path \in [1 .. n -> Res] : Chain(n, path)
      BY DEF IInv, ListInv
    <3>2. PICK path \in [1 .. n -> Res] : Chain(n, path)
      BY <3>1
    <3>3. PICK x \in 1 .. n : r = path[x]
      BY <2>2, <3>2 DEF Chain
    <3>4. Cardinality(Res) \in Nat
      BY ResAssumption, FS_CardinalityType
    <3>5. x = 1 => prev[r] = "head" /\ next["head"] = r
      BY <3>2, <3>3 DEF Chain
    <3>6. x # 1 => x - 1 \in 1 .. n /\ prev[r] = path[x - 1] /\ next[path[x - 1]] = r
      BY <3>2, <3>3, <3>4 DEF Chain
    <3> QED
      BY <2>2, <3>5, <3>6 DEF Linked
  <2>3. ASSUME NEW t \in Thread, NEW l \in Level, pc[t][l] \in {"io", "dma"}
        PROVE  key[t] \in Linked
    <3>1. Own(t, key[t]) /\ pc[t][l] \in RequestPC
      BY <2>3 DEF IInv, OwnerInv, KeyInv, RequestPC
    <3>2. ASSUME NEW u \in Thread, NEW m \in Level, pc[u][m] \in UnlinkedPC,
                 my[u][m] = key[t]
          PROVE  FALSE
      <4>1. KeyInv(u) /\ LevelInv
        BY DEF IInv, OwnerInv
      <4>2. Own(u, my[u][m])
        BY <3>2, <4>1
           DEF KeyInv, LevelInv, UnlinkedPC, SetupPC, LeavingPC, RequestPC, Level
      <4>3. u = t
        BY <3>1, <3>2, <4>2 DEF Own
      <4>4. m # l /\ (pc[t][m] \in SetupPC => pc[t][m] \in RequestPC)
        BY <2>3, <3>2, <4>3 DEF UnlinkedPC, SetupPC, RequestPC
      <4>5. pc[t][m] \notin SetupPC
        BY <3>1, <4>1, <4>4 DEF LevelInv, Level
      <4>6. m = 1 /\ pc[t][1] \in LeavingPC
        BY <3>2, <4>1, <4>3, <4>5 DEF LevelInv, UnlinkedPC, LeavingPC, RequestPC, Level
      <4> QED
        BY <3>2, <4>1, <4>3, <4>6 DEF KeyInv
    <3> QED
      BY <3>1, <3>2 DEF Linked, Own
  <2> QED
    BY <2>1, <2>2, <2>3 DEF ListSound
<1> QED
  BY <1>1, Invariance, PTL
=============================================================================
