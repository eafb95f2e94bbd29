---------------------------- MODULE VeDmaProofs ----------------------------
(***************************************************************************)
(* VeDma for every number of threads, handles, descriptors and codes: the  *)
(* type invariant, the ownership of descriptors, the two action properties *)
(* and the refinement of DmaRequests; and VeDmaInit, which sets the table  *)
(* up, for every number of threads: nobody works on a table that is not    *)
(* set up in its own process, the copy of a lock whose holder stayed in    *)
(* the parent does not last, and a ring in use is not reset.               *)
(***************************************************************************)
EXTENDS VeDma, VeDmaInit, TLAPS

-----------------------------------------------------------------------------
(* The inductive invariant behind the properties.                          *)

\* A thread in a routine has the handle its caller gave it, to itself.
CallInv ==
    /\ \A t \in Thread :
        /\ pc[t] \in {"post_lock", "post"} => cur[t] \in Handle \ live
        /\ pc[t] \in {"poll_lock", "poll", "wait_lock", "wait"} => cur[t] \in live
        /\ pc[t] \in {"idle", "pw_lock", "pw"} \cup SyncPC => cur[t] = Null
    /\ \A s, t \in Thread : cur[s] = cur[t] /\ cur[s] # Null => s = t

\* The lock word names the one thread in a critical section.
LockInv == \A t \in Thread : pc[t] \in CriticalPC <=> vedma_lock = t

\* Handles and vedma_status agree about who waits for which descriptor.
HandleInv ==
    /\ \A h \in live :
        /\ handle_status[h] # "unset"
        /\ ~Saved(h) => vedma_status[handle_index[h]] = h
    /\ \A i \in Slot : vedma_status[i] \in Handle =>
        /\ vedma_status[i] \in live
        /\ ~Saved(vedma_status[i])
        /\ handle_index[vedma_status[i]] = i

\* An owned descriptor was started, an unowned one does not run.
DescInv ==
    \A i \in Slot :
        /\ vedma_status[i] # Null => desc[i] \in Exc \cup {"run"}
        /\ vedma_status[i] = Null => desc[i] # "run"

\* Synchronous callers and slots marked Sync correspond one to one.
SyncInv ==
    /\ \A t \in Thread : pc[t] \in SyncPC => vedma_status[slot[t]] = Sync
    /\ \A t \in Thread : pc[t] = "pw_clear" => Done(slot[t])
    /\ \A s, t \in Thread :
        pc[s] \in SyncPC /\ pc[t] \in SyncPC /\ slot[s] = slot[t] => s = t
    /\ \A i \in Slot : vedma_status[i] = Sync =>
        \E t \in Thread : pc[t] \in SyncPC /\ slot[t] = i

IInv == TypeOK /\ CallInv /\ LockInv /\ HandleInv /\ DescInv /\ SyncInv

-----------------------------------------------------------------------------
\* The masked increment of vedma_index stays in the descriptor table.
LEMMA NextIndexInTable ==
    ASSUME TypeOK PROVE NextIndex \in Slot
  BY NDescAssumption DEF TypeOK, NextIndex, Slot

\* Reclaiming a slot stores an exception code, never the state of a running
\* descriptor, in the old handle.
LEMMA SavedStatusType ==
    ASSUME TypeOK, NEW i \in Slot, Reclaimable(i)
    PROVE  SavedStatus(i) \in [Handle -> Exc \cup {"unset", "pending"}]
  BY NamesAssumption DEF TypeOK, SavedStatus, Reclaimable, Done

\* Every step keeps the types.
LEMMA TypeStep == IInv /\ [Next]_vars => TypeOK'
<1> SUFFICES ASSUME TypeOK, CallInv, HandleInv, [Next]_vars PROVE TypeOK'
  BY DEF IInv
<1> USE DEF TypeOK, LockPC, CriticalPC, SyncPC, engine, handles
<1>1. ASSUME NEW t \in Thread, Enter(t) PROVE TypeOK'
  BY <1>1 DEF Enter, CallPost, CallPoll, CallWait, CallPostWait, Call
<1>2. ASSUME NEW t \in Thread, AcquireAny(t) PROVE TypeOK'
  BY <1>2 DEF AcquireAny, Acquire
<1>3. ASSUME NEW t \in Thread, PostStart(t) PROVE TypeOK'
  <2>1. cur[t] \in Handle
    BY <1>3 DEF CallInv, PostStart
  <2>2. vedma_index \in Slot /\ Reclaimable(vedma_index)
    BY <1>3 DEF PostStart
  <2>3. SavedStatus(vedma_index) \in [Handle -> Exc \cup {"unset", "pending"}]
    BY <2>2, SavedStatusType
  <2> QED
    BY <1>3, <2>1, <2>3, NextIndexInTable DEF PostStart, Start, Return, Unlock
<1>4. ASSUME NEW t \in Thread, PostBusy(t) PROVE TypeOK'
  BY <1>4 DEF PostBusy, Return, Unlock
<1>5. ASSUME NEW t \in Thread, PollSaved(t) PROVE TypeOK'
  <2>1. cur[t] \in live
    BY <1>5 DEF PollSaved, Polling, CallInv
  <2>2. handle_status[cur[t]] \in Exc
    BY <1>5, <2>1 DEF PollSaved, Saved, HandleInv
  <2> QED
    BY <1>5, <2>2 DEF PollSaved, Reports, Return, Unlock
<1>6. ASSUME NEW t \in Thread, PollDone(t) PROVE TypeOK'
  BY <1>6 DEF PollDone, Reports, Return, Unlock, Done
<1>7. ASSUME NEW t \in Thread, PollAgain(t) \/ WaitAgain(t) PROVE TypeOK'
  BY <1>7 DEF PollAgain, WaitAgain, Return, Unlock
<1>8. ASSUME NEW t \in Thread, PwStart(t) PROVE TypeOK'
  <2>1. SavedStatus(vedma_index) \in [Handle -> Exc \cup {"unset", "pending"}]
    BY <1>8, SavedStatusType DEF PwStart
  <2> QED
    BY <1>8, <2>1, NextIndexInTable DEF PwStart, Start, Unlock
<1>9. ASSUME NEW t \in Thread, PwDone(t) \/ PwClear(t) PROVE TypeOK'
  BY <1>9 DEF PwDone, PwClear, Done
<1>10. ASSUME Engine PROVE TypeOK'
  BY <1>10 DEF Engine, Complete
<1>11. CASE UNCHANGED vars
  BY <1>11 DEF vars
<1> QED
  BY <1>1, <1>2, <1>3, <1>4, <1>5, <1>6, <1>7, <1>8, <1>9, <1>10, <1>11
     DEF Next, Proceed

\* Every step keeps each call's handle to itself and in the right state.
LEMMA CallStep == IInv /\ [Next]_vars => CallInv'
<1> SUFFICES ASSUME TypeOK, CallInv, [Next]_vars PROVE CallInv'
  BY DEF IInv
<1> USE NamesAssumption DEF CallInv, TypeOK, SyncPC, engine, handles
<1>1. ASSUME NEW t \in Thread, Enter(t) PROVE CallInv'
  BY <1>1 DEF Enter, CallPost, CallPoll, CallWait, CallPostWait, Call, Free
<1>2. ASSUME NEW t \in Thread, AcquireAny(t) PROVE CallInv'
  BY <1>2 DEF AcquireAny, Acquire
<1>3. ASSUME NEW t \in Thread, PostStart(t) PROVE CallInv'
  BY <1>3 DEF PostStart, Return, Unlock
<1>4. ASSUME NEW t \in Thread, PostBusy(t) \/ PollAgain(t) \/ WaitAgain(t)
      PROVE CallInv'
  BY <1>4 DEF PostBusy, PollAgain, WaitAgain, Return, Unlock
<1>5. ASSUME NEW t \in Thread, PollSaved(t) \/ PollDone(t) PROVE CallInv'
  BY <1>5 DEF PollSaved, PollDone, Polling, Reports, Return, Unlock
<1>6. ASSUME NEW t \in Thread, PwStart(t) \/ PwDone(t) \/ PwClear(t)
      PROVE CallInv'
  BY <1>6 DEF PwStart, PwDone, PwClear, Unlock
<1>7. ASSUME Engine PROVE CallInv'
  BY <1>7 DEF Engine, Complete
<1>8. CASE UNCHANGED vars
  BY <1>8 DEF vars
<1> QED
  BY <1>1, <1>2, <1>3, <1>4, <1>5, <1>6, <1>7, <1>8 DEF Next, Proceed

\* Every step keeps the lock with the one thread in a critical section.
LEMMA LockStep == IInv /\ [Next]_vars => LockInv'
<1> SUFFICES ASSUME TypeOK, LockInv, [Next]_vars PROVE LockInv'
  BY DEF IInv
<1> USE NamesAssumption DEF LockInv, TypeOK, CriticalPC, engine, handles
<1>1. ASSUME NEW t \in Thread, Enter(t) PROVE LockInv'
  BY <1>1 DEF Enter, CallPost, CallPoll, CallWait, CallPostWait, Call
<1>2. ASSUME NEW t \in Thread, AcquireAny(t) PROVE LockInv'
  BY <1>2 DEF AcquireAny, Acquire
<1>3. ASSUME NEW t \in Thread,
             \/ PostStart(t) \/ PostBusy(t) \/ PollAgain(t) \/ WaitAgain(t)
             \/ PollSaved(t) \/ PollDone(t) \/ PwStart(t)
      PROVE LockInv'
  BY <1>3 DEF PostStart, PostBusy, PollAgain, WaitAgain, NotDone, PollSaved,
              PollDone, PwStart, Polling, Reports, Return, Unlock
<1>4. ASSUME NEW t \in Thread, PwDone(t) \/ PwClear(t) PROVE LockInv'
  BY <1>4 DEF PwDone, PwClear
<1>5. ASSUME Engine PROVE LockInv'
  BY <1>5 DEF Engine, Complete
<1>6. CASE UNCHANGED vars
  BY <1>6 DEF vars
<1> QED
  BY <1>1, <1>2, <1>3, <1>4, <1>5, <1>6 DEF Next, Proceed

\* Handles and slots keep agreeing.  The steps that change the agreement are
\* those of posting, reporting and the two ways a slot changes its owner.
LEMMA HandleStep == IInv /\ [Next]_vars => HandleInv'
<1> SUFFICES ASSUME TypeOK, CallInv, HandleInv, DescInv, SyncInv, [Next]_vars
             PROVE  HandleInv'
  BY DEF IInv
<1> USE NamesAssumption DEF TypeOK, engine, handles
<1>1. ASSUME NEW t \in Thread, Enter(t) PROVE HandleInv'
  BY <1>1 DEF Enter, CallPost, CallPoll, CallWait, CallPostWait, Call, HandleInv, Saved
<1>2. ASSUME NEW t \in Thread, AcquireAny(t) PROVE HandleInv'
  BY <1>2 DEF AcquireAny, Acquire, HandleInv, Saved
<1>3. ASSUME NEW t \in Thread, PostStart(t) PROVE HandleInv'
  <2> DEFINE i == vedma_index
  <2>1. cur[t] \in Handle /\ cur[t] \notin live
    BY <1>3 DEF CallInv, PostStart
  <2>2. i \in Slot /\ Reclaimable(i)
    BY <1>3 DEF PostStart
  <2>3. /\ vedma_status' = [vedma_status EXCEPT ![i] = cur[t]]
        /\ handle_index' = [handle_index EXCEPT ![cur[t]] = i]
        /\ handle_status' = [SavedStatus(i) EXCEPT ![cur[t]] = "pending"]
        /\ live' = live \cup {cur[t]}
    BY <1>3 DEF PostStart, Start
  <2>4. SavedStatus(i) \in [Handle -> Exc \cup {"unset", "pending"}]
    BY <2>2, SavedStatusType
  <2>5. \A h \in live : SavedStatus(i)[h] # "unset"
    BY <2>2 DEF SavedStatus, HandleInv, Reclaimable, Done
  <2>6. \A h \in live : SavedStatus(i)[h] = "pending" =>
           /\ handle_status[h] = "pending"
           /\ vedma_status[i] # h
    BY <2>2 DEF SavedStatus, HandleInv, Reclaimable, Done
  <2>7. \A j \in Slot : vedma_status[j] \in Handle /\ j # i =>
           SavedStatus(i)[vedma_status[j]] = handle_status[vedma_status[j]]
    BY <2>2 DEF SavedStatus, HandleInv
  <2>8. \A h \in live' :
           /\ handle_status'[h] # "unset"
           /\ ~Saved(h)' => vedma_status'[handle_index'[h]] = h
    BY <2>1, <2>2, <2>3, <2>4, <2>5, <2>6 DEF HandleInv, Saved
  <2>9. \A j \in Slot : vedma_status'[j] \in Handle =>
           /\ vedma_status'[j] \in live'
           /\ handle_status'[vedma_status'[j]] = "pending"
           /\ handle_index'[vedma_status'[j]] = j
    BY <2>1, <2>2, <2>3, <2>4, <2>7 DEF HandleInv, Saved
  <2> QED
    BY <2>8, <2>9 DEF HandleInv, Saved
<1>4. ASSUME NEW t \in Thread, PostBusy(t) \/ PollAgain(t) \/ WaitAgain(t)
      PROVE HandleInv'
  BY <1>4 DEF PostBusy, PollAgain, WaitAgain, Return, Unlock, HandleInv, Saved
<1>5. ASSUME NEW t \in Thread, PollSaved(t) PROVE HandleInv'
  BY <1>5 DEF PollSaved, Reports, Return, Unlock, HandleInv, Saved
<1>6. ASSUME NEW t \in Thread, PollDone(t) PROVE HandleInv'
  <2>1. cur[t] \in live
    BY <1>6 DEF CallInv, PollDone, Polling
  <2> QED
    BY <1>6, <2>1 DEF PollDone, Reports, Return, Unlock, HandleInv, Saved
<1>7. ASSUME NEW t \in Thread, PwStart(t) PROVE HandleInv'
  <2> DEFINE i == vedma_index
  <2>1. i \in Slot /\ Reclaimable(i)
    BY <1>7 DEF PwStart
  <2>2. /\ vedma_status' = [vedma_status EXCEPT ![i] = Sync]
        /\ handle_status' = SavedStatus(i)
        /\ UNCHANGED <<handle_index, live>>
    BY <1>7 DEF PwStart, Start
  <2> QED
    BY <2>1, <2>2 DEF HandleInv, SavedStatus, Reclaimable, Done, Saved
<1>8. ASSUME NEW t \in Thread, PwDone(t) PROVE HandleInv'
  BY <1>8 DEF PwDone, HandleInv, Saved
<1>9. ASSUME NEW t \in Thread, PwClear(t) PROVE HandleInv'
  <2>1. vedma_status[slot[t]] = Sync
    BY <1>9 DEF SyncInv, PwClear, SyncPC
  <2> QED
    BY <1>9, <2>1 DEF PwClear, HandleInv, Saved
<1>10. ASSUME Engine PROVE HandleInv'
  BY <1>10 DEF Engine, Complete, HandleInv, Saved
<1>11. CASE UNCHANGED vars
  BY <1>11 DEF vars, HandleInv, Saved
<1> QED
  BY <1>1, <1>2, <1>3, <1>4, <1>5, <1>6, <1>7, <1>8, <1>9, <1>10, <1>11
     DEF Next, Proceed

\* Every step keeps owned descriptors started and unowned ones at rest.
LEMMA DescStep == IInv /\ [Next]_vars => DescInv'
<1> SUFFICES ASSUME TypeOK, CallInv, DescInv, HandleInv, SyncInv, [Next]_vars
             PROVE  DescInv'
  BY DEF IInv
<1> USE NamesAssumption DEF TypeOK, engine, handles
<1>1. ASSUME NEW t \in Thread,
             \/ Enter(t) \/ AcquireAny(t) \/ PostBusy(t) \/ PollAgain(t)
             \/ WaitAgain(t) \/ PollSaved(t) \/ PwDone(t)
      PROVE  DescInv'
  BY <1>1 DEF Enter, CallPost, CallPoll, CallWait, CallPostWait, Call,
     AcquireAny, Acquire, PostBusy, PollAgain, WaitAgain, PollSaved, PwDone,
     Reports, Return, Unlock, DescInv
<1>2. ASSUME NEW t \in Thread, PostStart(t) \/ PwStart(t) PROVE DescInv'
  BY <1>2 DEF PostStart, PwStart, Start, CallInv, DescInv
<1>3. ASSUME NEW t \in Thread, PollDone(t) PROVE DescInv'
  BY <1>3 DEF PollDone, Reports, Done, DescInv
<1>4. ASSUME NEW t \in Thread, PwClear(t) PROVE DescInv'
  BY <1>4 DEF PwClear, SyncInv, Done, DescInv
<1>5. ASSUME Engine PROVE DescInv'
  BY <1>5 DEF Engine, Complete, DescInv
<1>6. CASE UNCHANGED vars
  BY <1>6 DEF vars, DescInv
<1> QED
  BY <1>1, <1>2, <1>3, <1>4, <1>5, <1>6 DEF Next, Proceed

\* Every step keeps synchronous callers and slots marked Sync one to one,
\* the clearing of a slot outside the lock included.
LEMMA SyncStep == IInv /\ [Next]_vars => SyncInv'
<1> SUFFICES ASSUME TypeOK, CallInv, SyncInv, DescInv, HandleInv, [Next]_vars
             PROVE  SyncInv'
  BY DEF IInv
<1> USE NamesAssumption DEF TypeOK, SyncPC, engine, handles
<1>1. ASSUME NEW t \in Thread, Enter(t) PROVE SyncInv'
  BY <1>1 DEF Enter, CallPost, CallPoll, CallWait, CallPostWait, Call, SyncInv, Done
<1>2. ASSUME NEW t \in Thread, AcquireAny(t) PROVE SyncInv'
  BY <1>2 DEF AcquireAny, Acquire, SyncInv, Done
<1>3. ASSUME NEW t \in Thread, PostBusy(t) \/ PollAgain(t) \/ WaitAgain(t)
      PROVE SyncInv'
  BY <1>3 DEF PostBusy, PollAgain, WaitAgain, NotDone, Polling, Return, Unlock, SyncInv, Done
<1>4. ASSUME NEW t \in Thread, PollSaved(t) PROVE SyncInv'
  BY <1>4 DEF PollSaved, Polling, Reports, Return, Unlock, SyncInv, Done
<1>5. ASSUME NEW t \in Thread, PollDone(t) PROVE SyncInv'
  <2>1. cur[t] \in live
    BY <1>5 DEF CallInv, PollDone, Polling
  <2>2. vedma_status[handle_index[cur[t]]] # Sync
    BY <1>5, <2>1 DEF PollDone, HandleInv
  <2> QED
    BY <1>5, <2>1, <2>2 DEF PollDone, Polling, Reports, Return, Unlock, SyncInv, Done
<1>6. ASSUME NEW t \in Thread, PostStart(t) PROVE SyncInv'
  <2>1. cur[t] \in Handle /\ vedma_status[vedma_index] # Sync
    BY <1>6 DEF CallInv, PostStart, Reclaimable
  <2> QED
    BY <1>6, <2>1 DEF PostStart, Start, Return, Unlock, SyncInv, Done
<1>7. ASSUME NEW t \in Thread, PwStart(t) PROVE SyncInv'
  <2>1. vedma_status[vedma_index] # Sync
    BY <1>7 DEF PwStart, Reclaimable
  <2> QED
    BY <1>7, <2>1 DEF PwStart, Start, Unlock, SyncInv, Done
<1>8. ASSUME NEW t \in Thread, PwDone(t) PROVE SyncInv'
  BY <1>8 DEF PwDone, SyncInv, Done
<1>9. ASSUME NEW t \in Thread, PwClear(t) PROVE SyncInv'
  BY <1>9 DEF PwClear, SyncInv, Done
<1>10. ASSUME Engine PROVE SyncInv'
  BY <1>10 DEF Engine, Complete, SyncInv, Done
<1>11. CASE UNCHANGED vars
  BY <1>11 DEF vars, SyncInv, Done
<1> QED
  BY <1>1, <1>2, <1>3, <1>4, <1>5, <1>6, <1>7, <1>8, <1>9, <1>10, <1>11
     DEF Next, Proceed

-----------------------------------------------------------------------------
\* The cleared table of ve_dma_init satisfies the invariant.
LEMMA InitIInv == Init => IInv
  BY NDescAssumption, NamesAssumption
     DEF Init, IInv, TypeOK, Slot, CallInv, LockInv, CriticalPC, SyncPC,
         HandleInv, DescInv, SyncInv

\* The inductive invariant of VeDma: calls have their handle to themselves,
\* the lock excludes, and table, handles and synchronous callers agree.
THEOREM Invariance == Spec => []IInv
<1>1. IInv /\ [Next]_vars => IInv'
  BY TypeStep, CallStep, LockStep, HandleStep, DescStep, SyncStep DEF IInv
<1> QED
  BY InitIInv, <1>1, PTL DEF Spec

\* VeDma's state variables keep their types.
THEOREM TypeCorrect == Spec => []TypeOK
<1>1. IInv => TypeOK
  BY DEF IInv
<1> QED
  BY Invariance, <1>1, PTL

\* vedma_status always names exactly the one party a descriptor's outcome is
\* still owed to, whatever posts, polls and synchronous callers interleave.
THEOREM OwnersCorrect == Spec => []OwnersTracked
<1>1. IInv => OwnersTracked
  <2> SUFFICES ASSUME IInv, NEW i \in Slot
               PROVE  /\ AsyncOwners(i) = {vedma_status[i]} \cap Handle
                      /\ (SyncOwners(i) # {}) <=> (vedma_status[i] = Sync)
                      /\ \A s, t \in SyncOwners(i) : s = t
    BY DEF OwnersTracked
  <2> USE NamesAssumption DEF IInv, TypeOK
  <2>1. AsyncOwners(i) = {vedma_status[i]} \cap Handle
    BY DEF AsyncOwners, HandleInv
  <2>2. (SyncOwners(i) # {}) <=> (vedma_status[i] = Sync)
    BY DEF SyncOwners, SyncInv
  <2>3. \A s, t \in SyncOwners(i) : s = t
    BY DEF SyncOwners, SyncInv
  <2> QED
    BY <2>1, <2>2, <2>3
<1> QED
  BY Invariance, <1>1, PTL

\* No step takes a descriptor from its owner while its DMA runs.
THEOREM RunningOwnerKeptCorrect == Spec => RunningOwnerKept
<1> DEFINE Kept == \A i \in Slot : desc[i] = "run" => vedma_status'[i] = vedma_status[i]
<1>1. IInv /\ [Next]_vars => [Kept]_vars
  <2> SUFFICES ASSUME IInv, Next PROVE Kept
    OBVIOUS
  <2> USE NamesAssumption DEF IInv, TypeOK, engine, handles
  <2>1. ASSUME NEW t \in Thread,
               \/ Enter(t) \/ AcquireAny(t) \/ PostBusy(t) \/ PollAgain(t)
               \/ WaitAgain(t) \/ PollSaved(t) \/ PwDone(t)
        PROVE  Kept
    BY <2>1 DEF Enter, CallPost, CallPoll, CallWait, CallPostWait, Call,
       AcquireAny, Acquire, PostBusy, PollAgain, WaitAgain, PollSaved, PwDone
  <2>2. ASSUME NEW t \in Thread, PostStart(t) \/ PwStart(t) PROVE Kept
    BY <2>2 DEF PostStart, PwStart, Start, Reclaimable, Done, DescInv
  <2>3. ASSUME NEW t \in Thread, PollDone(t) PROVE Kept
    BY <2>3 DEF PollDone, Done
  <2>4. ASSUME NEW t \in Thread, PwClear(t) PROVE Kept
    BY <2>4 DEF PwClear, SyncInv, Done
  <2>5. ASSUME Engine PROVE Kept
    BY <2>5 DEF Engine, Complete
  <2> QED
    BY <2>1, <2>2, <2>3, <2>4, <2>5 DEF Next, Proceed
<1> QED
  BY Invariance, <1>1, PTL DEF Spec, RunningOwnerKept

\* The library writes into a handle only from its post to its report.
THEOREM NoLateHandleWriteCorrect == Spec => NoLateHandleWrite
<1> DEFINE InTime == \A h \in Handle :
             handle_status'[h] # handle_status[h] => h \in live \cup live'
<1>1. IInv /\ [Next]_vars => [InTime]_vars
  <2> SUFFICES ASSUME IInv, Next PROVE InTime
    OBVIOUS
  <2> USE DEF IInv, TypeOK, engine, handles
  <2>1. \A i \in Slot, h \in Handle :
           SavedStatus(i)[h] # handle_status[h] => h \in live
    BY DEF SavedStatus, HandleInv
  <2>2. ASSUME NEW t \in Thread, PostStart(t) PROVE InTime
    <3>1. SavedStatus(vedma_index) \in [Handle -> Exc \cup {"unset", "pending"}]
      BY <2>2, SavedStatusType DEF PostStart
    <3> QED
      BY <2>1, <2>2, <3>1 DEF PostStart
  <2>3. ASSUME NEW t \in Thread, PwStart(t) PROVE InTime
    BY <2>1, <2>3 DEF PwStart
  <2>4. ASSUME NEW t \in Thread,
               \/ Enter(t) \/ AcquireAny(t) \/ PostBusy(t) \/ PollAgain(t)
               \/ WaitAgain(t) \/ PollSaved(t) \/ PollDone(t)
               \/ PwDone(t) \/ PwClear(t)
        PROVE  InTime
    BY <2>4 DEF Enter, CallPost, CallPoll, CallWait, CallPostWait, Call,
       AcquireAny, Acquire, PostBusy, PollAgain, WaitAgain, PollSaved,
       PollDone, Reports, PwDone, PwClear
  <2>5. ASSUME Engine PROVE InTime
    BY <2>5 DEF Engine, Complete
  <2> QED
    BY <2>2, <2>3, <2>4, <2>5 DEF Next, Proceed
<1> QED
  BY Invariance, <1>1, PTL DEF Spec, NoLateHandleWrite

-----------------------------------------------------------------------------
(* The refinement of DmaRequests.                                          *)

\* What the mapping gives for a handle and for a thread.
LEMMA RequestOfHandle ==
    ASSUME NEW h \in Handle
    PROVE  RequestOf(h) = IF h \notin live THEN "none"
                          ELSE IF Saved(h) THEN handle_status[h]
                          ELSE desc[handle_index[h]]
  BY DEF RequestOf

\* A thread's request is the descriptor it waits for in ve_dma_post_wait.
LEMMA RequestOfThread ==
    ASSUME NEW t \in Thread
    PROVE  RequestOf(t) = IF pc[t] = "pw_wait" THEN desc[slot[t]] ELSE "none"
  BY NamesAssumption DEF RequestOf

\* A step that changes one request changes the mapping at one point.
LEMMA OutstandingExcept ==
    ASSUME NEW c \in Handle \cup Thread, NEW v,
           \A d \in Handle \cup Thread :
               RequestOf(d)' = IF d = c THEN v ELSE RequestOf(d)
    PROVE  Outstanding' = [Outstanding EXCEPT ![c] = v]
  BY DEF Outstanding

\* A step that changes no request leaves the mapping alone.
LEMMA OutstandingSame ==
    ASSUME \A d \in Handle \cup Thread : RequestOf(d)' = RequestOf(d)
    PROVE  Outstanding' = Outstanding
  BY DEF Outstanding

\* ve_dma_post submits its handle's request; the result it saves for the
\* slot's old handle is the one that handle already had.
LEMMA PostSubmits ==
    ASSUME IInv, NEW t \in Thread, PostStart(t)
    PROVE  Requests!Submit(cur[t])
<1> DEFINE i == vedma_index
<1> USE NamesAssumption DEF IInv, TypeOK
<1>1. cur[t] \in Handle /\ cur[t] \notin live
  BY DEF CallInv, PostStart
<1>2. i \in Slot /\ Reclaimable(i)
  BY DEF PostStart
<1>3. /\ handle_index' = [handle_index EXCEPT ![cur[t]] = i]
      /\ handle_status' = [SavedStatus(i) EXCEPT ![cur[t]] = "pending"]
      /\ live' = live \cup {cur[t]}
      /\ desc' = [desc EXCEPT ![i] = "run"]
      /\ pc' = [pc EXCEPT ![t] = "idle"]
      /\ slot' = slot
      /\ ret' = ret
      /\ pc[t] = "post"
  BY DEF PostStart, Start, Return, Unlock
<1>4. SavedStatus(i) \in [Handle -> Exc \cup {"unset", "pending"}]
  BY <1>2, SavedStatusType
<1>5. ASSUME NEW h \in Handle PROVE RequestOf(h)' = IF h = cur[t] THEN "run" ELSE RequestOf(h)
  <2>1. CASE h = cur[t]
    BY <1>1, <1>2, <1>3, <1>4, <2>1 DEF RequestOf, Saved
  <2>2. CASE h # cur[t] /\ vedma_status[i] = h
    BY <1>1, <1>2, <1>3, <1>4, <2>2
       DEF RequestOf, Saved, HandleInv, SavedStatus, Reclaimable, Done
  <2>3. CASE h # cur[t] /\ vedma_status[i] # h
    <3>1. SavedStatus(i)[h] = handle_status[h]
      BY <1>2, <2>3 DEF SavedStatus
    <3>2. h \in live /\ ~Saved(h) => handle_index[h] # i
      BY <1>2, <2>3 DEF HandleInv
    <3> QED
      BY <1>1, <1>2, <1>3, <1>4, <2>3, <3>1, <3>2 DEF RequestOf, Saved
  <2> QED
    BY <2>1, <2>2, <2>3
<1>6. ASSUME NEW s \in Thread PROVE RequestOf(s)' = RequestOf(s)
  <2>1. pc[s] = "pw_wait" => slot[s] # i
    BY <1>2 DEF SyncInv, SyncPC, Reclaimable
  <2> QED
    BY <1>2, <1>3, <2>1 DEF RequestOf
<1>7. Outstanding' = [Outstanding EXCEPT ![cur[t]] = "run"]
  <2>1. \A d \in Handle \cup Thread :
           RequestOf(d)' = IF d = cur[t] THEN "run" ELSE RequestOf(d)
    BY <1>1, <1>5, <1>6
  <2> QED
    BY <1>1, <2>1, OutstandingExcept
<1>8. Outstanding[cur[t]] = "none"
  BY <1>1 DEF Outstanding, RequestOf
<1> QED
  BY <1>3, <1>7, <1>8 DEF Requests!Submit

\* ve_dma_post_wait submits its thread's request, saving likewise.
LEMMA PwSubmits ==
    ASSUME IInv, NEW t \in Thread, PwStart(t)
    PROVE  Requests!Submit(t)
<1> DEFINE i == vedma_index
<1> USE NamesAssumption DEF IInv, TypeOK
<1>1. i \in Slot /\ Reclaimable(i)
  BY DEF PwStart
<1>2. /\ handle_status' = SavedStatus(i)
      /\ desc' = [desc EXCEPT ![i] = "run"]
      /\ pc' = [pc EXCEPT ![t] = "pw_wait"]
      /\ slot' = [slot EXCEPT ![t] = i]
      /\ UNCHANGED <<handle_index, live, ret>>
      /\ pc[t] = "pw"
  BY DEF PwStart, Start, Unlock
<1>3. ASSUME NEW h \in Handle PROVE RequestOf(h)' = RequestOf(h)
  <2>1. CASE vedma_status[i] = h
    BY <1>1, <1>2, <2>1
       DEF RequestOf, Saved, HandleInv, SavedStatus, Reclaimable, Done
  <2>2. CASE vedma_status[i] # h
    <3>1. SavedStatus(i)[h] = handle_status[h]
      BY <1>1, <2>2 DEF SavedStatus
    <3>2. h \in live /\ ~Saved(h) => handle_index[h] # i
      BY <1>1, <2>2 DEF HandleInv
    <3> QED
      BY <1>1, <1>2, <2>2, <3>1, <3>2 DEF RequestOf, Saved
  <2> QED
    BY <2>1, <2>2
<1>4. ASSUME NEW s \in Thread
      PROVE  RequestOf(s)' = IF s = t THEN "run" ELSE RequestOf(s)
  <2>1. pc[s] = "pw_wait" => slot[s] # i
    BY <1>1 DEF SyncInv, SyncPC, Reclaimable
  <2> QED
    BY <1>1, <1>2, <2>1 DEF RequestOf
<1>5. Outstanding' = [Outstanding EXCEPT ![t] = "run"]
  <2>1. \A d \in Handle \cup Thread :
           RequestOf(d)' = IF d = t THEN "run" ELSE RequestOf(d)
    BY <1>3, <1>4
  <2> QED
    BY <2>1, OutstandingExcept
<1>6. Outstanding[t] = "none"
  BY <1>2 DEF Outstanding, RequestOf
<1> QED
  BY <1>2, <1>5, <1>6 DEF Requests!Submit

\* A poll that finds the handle's result, saved or in the descriptor,
\* reports it.
LEMMA PollReports ==
    ASSUME IInv, NEW t \in Thread, PollSaved(t) \/ PollDone(t)
    PROVE  Requests!Report(t, cur[t])
<1> USE NamesAssumption DEF IInv, TypeOK, handles
<1>1. cur[t] \in live
  BY DEF PollSaved, PollDone, Polling, CallInv
<1>2. /\ RequestOf(cur[t]) \in Exc
      /\ ret' = [ret EXCEPT ![t] = RequestOf(cur[t])]
  <2>1. CASE PollSaved(t)
    <3>1. handle_status[cur[t]] \in Exc
      BY <1>1, <2>1 DEF PollSaved, Saved, HandleInv
    <3>2. RequestOf(cur[t]) = handle_status[cur[t]]
      BY <1>1, <2>1 DEF PollSaved, RequestOf
    <3> QED
      BY <2>1, <3>1, <3>2 DEF PollSaved, Reports
  <2>2. CASE PollDone(t)
    BY <1>1, <2>2 DEF PollDone, Reports, RequestOf, Saved, Done
  <2> QED
    BY <2>1, <2>2
<1>3. /\ live' = live \ {cur[t]}
      /\ pc' = [pc EXCEPT ![t] = "idle"]
      /\ UNCHANGED <<desc, handle_status, handle_index, slot>>
      /\ pc[t] \in {"poll", "wait"}
  BY DEF PollSaved, PollDone, Reports, Return, Unlock, Polling
<1>4. \A d \in Handle \cup Thread :
         RequestOf(d)' = IF d = cur[t] THEN "none" ELSE RequestOf(d)
  BY <1>1, <1>3 DEF RequestOf, Saved
<1>5. Outstanding' = [Outstanding EXCEPT ![cur[t]] = "none"]
  BY <1>1, <1>4, OutstandingExcept
<1>6. Outstanding[cur[t]] = RequestOf(cur[t])
  BY <1>1 DEF Outstanding
<1> QED
  BY <1>2, <1>5, <1>6 DEF Requests!Report

\* A poll that answers -EAGAIN does so of a request that runs.
LEMMA PollTellsAgain ==
    ASSUME IInv, NEW t \in Thread, PollAgain(t)
    PROVE  Requests!NotYet(t, cur[t])
<1> USE NamesAssumption DEF IInv, TypeOK, handles, engine
<1>1. cur[t] \in live
  BY DEF PollAgain, CallInv
<1>2. Outstanding[cur[t]] = "run"
  BY <1>1 DEF Outstanding, RequestOf, PollAgain, NotDone, Done, HandleInv, DescInv
<1>3. Outstanding' = Outstanding
  <2>1. \A d \in Handle \cup Thread : RequestOf(d)' = RequestOf(d)
    BY DEF PollAgain, Return, Unlock, RequestOf, Saved
  <2> QED
    BY <2>1, OutstandingSame
<1> QED
  BY <1>2, <1>3 DEF Requests!NotYet, PollAgain

\* The end of ve_dma_post_wait's waiting reports its thread's request.
LEMMA PwReports ==
    ASSUME IInv, NEW t \in Thread, PwDone(t)
    PROVE  Requests!Report(t, t)
<1> USE NamesAssumption DEF IInv, TypeOK, handles, engine
<1>1. \A d \in Handle \cup Thread :
         RequestOf(d)' = IF d = t THEN "none" ELSE RequestOf(d)
  BY DEF PwDone, RequestOf, Saved
<1>2. Outstanding' = [Outstanding EXCEPT ![t] = "none"]
  BY <1>1, OutstandingExcept
<1>3. Outstanding[t] = desc[slot[t]]
  BY DEF Outstanding, RequestOf, PwDone
<1> QED
  BY <1>2, <1>3 DEF Requests!Report, PwDone, Done

\* The engine's step finishes the request of the slot's one owner.
LEMMA CompleteFinishes ==
    ASSUME IInv, NEW i \in Slot, NEW e \in Exc, Complete(i, e)
    PROVE  \E c \in Handle \cup Thread : Requests!Finish(c, e)
<1> USE NamesAssumption DEF IInv, TypeOK, handles
<1>1. /\ desc[i] = "run"
      /\ desc' = [desc EXCEPT ![i] = e]
      /\ UNCHANGED <<handle_status, handle_index, pc, slot, live, ret>>
  BY DEF Complete
<1>2. PICK c \in Handle \cup Thread :
         /\ c \in Handle => c = vedma_status[i]
         /\ c \in Thread => /\ vedma_status[i] = Sync
                            /\ pc[c] = "pw_wait" /\ slot[c] = i
  BY <1>1 DEF DescInv, SyncInv, SyncPC, Done
<1>3. \A d \in Handle : RequestOf(d)' = IF d = c THEN e ELSE RequestOf(d)
  BY <1>1, <1>2 DEF RequestOf, Saved, HandleInv
<1>4. \A d \in Thread : RequestOf(d)' = IF d = c THEN e ELSE RequestOf(d)
  <2>1. \A d \in Thread : d # c /\ pc[d] = "pw_wait" => slot[d] # i
    BY <1>2 DEF SyncInv, SyncPC
  <2> QED
    BY <1>1, <1>2, <2>1 DEF RequestOf
<1>5. Outstanding' = [Outstanding EXCEPT ![c] = e]
  BY <1>3, <1>4, OutstandingExcept
<1>6. Outstanding[c] = "run"
  BY <1>1, <1>2 DEF Outstanding, RequestOf, Saved, HandleInv
<1> QED
  BY <1>1, <1>2, <1>5, <1>6 DEF Requests!Finish

\* Calling, locking, a full table, spinning and clearing change no request.
LEMMA OtherStepsStutter ==
    ASSUME IInv,
           \/ UNCHANGED vars
           \/ \E t \in Thread : \/ Enter(t) \/ AcquireAny(t) \/ PostBusy(t)
                               \/ WaitAgain(t) \/ PwClear(t)
    PROVE  UNCHANGED Requests!vars
<1> USE NamesAssumption DEF IInv, TypeOK, handles, engine
<1>1. /\ UNCHANGED <<handle_status, handle_index, desc, live, slot, ret>>
      /\ pc' \in [Thread -> {"idle"} \cup LockPC \cup CriticalPC \cup SyncPC]
      /\ \A t \in Thread : pc[t] = "pw_wait" <=> pc'[t] = "pw_wait"
  <2>1. CASE UNCHANGED vars
    BY <2>1 DEF vars
  <2>2. ASSUME NEW t \in Thread, Enter(t) PROVE <1>1
    BY <2>2 DEF Enter, CallPost, CallPoll, CallWait, CallPostWait, Call, LockPC
  <2>3. ASSUME NEW t \in Thread, AcquireAny(t) PROVE <1>1
    BY <2>3 DEF AcquireAny, Acquire, CriticalPC
  <2>4. ASSUME NEW t \in Thread, PostBusy(t) \/ WaitAgain(t) PROVE <1>1
    BY <2>4 DEF PostBusy, WaitAgain, Return, Unlock, LockPC
  <2>5. ASSUME NEW t \in Thread, PwClear(t) PROVE <1>1
    BY <2>5 DEF PwClear
  <2> QED
    BY <2>1, <2>2, <2>3, <2>4, <2>5
<1>2. \A d \in Handle \cup Thread : RequestOf(d)' = RequestOf(d)
  BY <1>1 DEF RequestOf, Saved
<1>3. Outstanding' = Outstanding
  BY <1>2, OutstandingSame
<1> QED
  BY <1>1, <1>3 DEF Requests!vars

\* VeDma implements DmaRequests: reuse, delayed saving and lock-free clearing
\* of slots never lose, repeat, mix up or invent a result.
THEOREM Refinement == Spec => Implements
<1>1. Init => Requests!Init
  BY NamesAssumption DEF Init, Requests!Init, Outstanding, RequestOf
<1>2. IInv /\ [Next]_vars => [Requests!Next]_(Requests!vars)
  <2> SUFFICES ASSUME IInv, [Next]_vars
               PROVE  Requests!Next \/ UNCHANGED Requests!vars
    OBVIOUS
  <2>1. ASSUME NEW t \in Thread, PostStart(t) PROVE Requests!Next
    BY <2>1, PostSubmits DEF Requests!Next, IInv, CallInv, PostStart
  <2>2. ASSUME NEW t \in Thread, PwStart(t) PROVE Requests!Next
    BY <2>2, PwSubmits DEF Requests!Next
  <2>3. ASSUME NEW t \in Thread, Polling(t) PROVE cur[t] \in Handle
    BY <2>3 DEF Polling, IInv, TypeOK, CallInv
  <2>4. ASSUME NEW t \in Thread, PollSaved(t) \/ PollDone(t) PROVE Requests!Next
    BY <2>3, <2>4, PollReports DEF Requests!Next, PollSaved, PollDone
  <2>5. ASSUME NEW t \in Thread, PollAgain(t) PROVE Requests!Next
    BY <2>3, <2>5, PollTellsAgain DEF Requests!Next, PollAgain, NotDone
  <2>6. ASSUME NEW t \in Thread, PwDone(t) PROVE Requests!Next
    BY <2>6, PwReports DEF Requests!Next
  <2>7. ASSUME Engine PROVE Requests!Next
    BY <2>7, CompleteFinishes DEF Requests!Next, Engine
  <2> QED
    BY <2>1, <2>2, <2>4, <2>5, <2>6, <2>7, OtherStepsStutter DEF Next, Proceed
<1> QED
  BY Invariance, <1>1, <1>2, PTL DEF Spec, Implements, Requests!Spec

-----------------------------------------------------------------------------
(* Setting the table up: VeDmaInit.                                        *)

\* The threads that do anything are those of the process.
AliveInv == \A p \in Process, t \in Caller : stage[p][t] # "idle" => t \in alive[p]

\* The order of the setup: mapped, then initialized, then usable.
StageInv ==
    \A p \in Process :
        /\ usable[p] => initialized[p]
        /\ initialized[p] => mapped[p] /\ alive[p] # {}
        /\ \A t \in Caller :
            /\ stage[p][t] = "init_reset" => mapped[p] /\ ~initialized[p]
            /\ stage[p][t] = "init_unlock" => initialized[p]

\* A thread at work in the ring holds its lock, of a ring that is set up.
RingInv ==
    \A p \in Process, t \in Caller :
        stage[p][t] = "critical" => usable[p] /\ ring_lock[p] = t

SetupIInv == SetupTypeOK /\ AliveInv /\ StageInv /\ RingInv /\ RingLockAlive

-----------------------------------------------------------------------------
\* A process starts with nothing set up.
LEMMA SetupInitHolds == SetupInit => SetupIInv
  BY NoneAssumption
     DEF SetupInit, SetupIInv, SetupTypeOK, Stage, AliveInv, StageInv, RingInv,
         RingLockAlive, Process

\* Every step keeps the types, and init_lock with the thread that sets up.
LEMMA SetupTypeStep == SetupIInv /\ [SetupNext]_setup_vars => SetupTypeOK'
<1> SUFFICES ASSUME SetupTypeOK, AliveInv, [SetupNext]_setup_vars PROVE SetupTypeOK'
  BY DEF SetupIInv
<1> USE NoneAssumption DEF SetupTypeOK, ring, Stage
<1>1. ASSUME NEW p \in Process, NEW t \in Caller, CallInit(p, t) \/ MapFails(p, t)
      PROVE  SetupTypeOK'
  <2>1. PICK from \in {"idle", "init_check"}, to \in {"init_lock", "idle"} :
            Goto(p, t, from, to)
    BY <1>1 DEF CallInit, MapFails
  <2>2. UNCHANGED <<alive, init_lock, initialized, ring, usable>>
    BY <1>1 DEF CallInit, MapFails
  <2> QED
    BY <2>1, <2>2 DEF Goto
<1>2. ASSUME NEW p \in Process, NEW t \in Caller, InitLock(p, t) PROVE SetupTypeOK'
  BY <1>2 DEF InitLock, Goto
<1>3. ASSUME NEW p \in Process, NEW t \in Caller, InitSkip(p, t) \/ Map(p, t)
      PROVE  SetupTypeOK'
  <2>1. PICK to \in {"init_reset", "init_unlock"} : Goto(p, t, "init_check", to)
    BY <1>3 DEF InitSkip, Map
  <2>2. /\ mapped' \in [Process -> BOOLEAN]
        /\ UNCHANGED <<alive, init_lock, initialized, ring_lock, in_use, usable>>
    BY <1>3 DEF InitSkip, Map
  <2> QED
    BY <2>1, <2>2 DEF Goto
<1>4. ASSUME NEW p \in Process, NEW t \in Caller, Reset(p, t) PROVE SetupTypeOK'
  BY <1>4 DEF Reset, Goto
<1>5. ASSUME NEW p \in Process, NEW t \in Caller, InitUnlock(p, t) PROVE SetupTypeOK'
  BY <1>5 DEF InitUnlock, Goto
<1>6. ASSUME NEW p \in Process, NEW t \in Caller, RingLock(p, t) PROVE SetupTypeOK'
  BY <1>6 DEF RingLock, Goto
<1>7. ASSUME NEW p \in Process, NEW t \in Caller, RingUnlock(p, t) PROVE SetupTypeOK'
  BY <1>7 DEF RingUnlock, Goto
<1>8. ASSUME NEW t \in Caller, Fork(t) PROVE SetupTypeOK'
  BY <1>8 DEF Fork, FlagInChild, AliveInv, Process
<1>9. CASE UNCHANGED setup_vars
  BY <1>9 DEF setup_vars
<1> QED
  BY <1>1, <1>2, <1>3, <1>4, <1>5, <1>6, <1>7, <1>8, <1>9 DEF SetupNext, InitStep

\* Only threads of the process do anything in it.
LEMMA AliveStep == SetupIInv /\ [SetupNext]_setup_vars => AliveInv'
<1> SUFFICES ASSUME SetupTypeOK, AliveInv, [SetupNext]_setup_vars PROVE AliveInv'
  BY DEF SetupIInv
<1> USE DEF SetupTypeOK, AliveInv
<1>1. ASSUME NEW p \in Process, NEW t \in Caller, NEW from, NEW to,
             Goto(p, t, from, to), UNCHANGED alive
      PROVE  AliveInv'
  BY <1>1 DEF Goto
<1>2. ASSUME NEW t \in Caller, Fork(t) PROVE AliveInv'
  BY <1>2 DEF Fork, Process
<1>3. CASE UNCHANGED setup_vars
  BY <1>3 DEF setup_vars
<1> QED
  BY <1>1, <1>2, <1>3
     DEF SetupNext, InitStep, CallInit, InitLock, InitSkip, Map, MapFails, Reset,
         InitUnlock, RingLock, RingUnlock

\* The setup goes through its stages in order.  That two threads are never in
\* it at once is in the types: init_lock has one holder.
LEMMA StageStep == SetupIInv /\ [SetupNext]_setup_vars => StageInv'
<1> SUFFICES ASSUME SetupTypeOK, AliveInv, StageInv, [SetupNext]_setup_vars PROVE StageInv'
  BY DEF SetupIInv
<1> USE DEF SetupTypeOK, StageInv, ring
<1>1. ASSUME NEW p \in Process, NEW t \in Caller,
             CallInit(p, t) \/ InitLock(p, t) \/ MapFails(p, t)
      PROVE  StageInv'
  <2>1. PICK to \in {"init_lock", "init_check", "idle"} :
            stage' = [stage EXCEPT ![p][t] = to]
    BY <1>1 DEF CallInit, InitLock, MapFails, Goto
  <2>2. UNCHANGED <<alive, initialized, mapped, usable>>
    BY <1>1 DEF CallInit, InitLock, MapFails
  <2> QED
    BY <2>1, <2>2
<1>2. ASSUME NEW p \in Process, NEW t \in Caller, InitSkip(p, t) PROVE StageInv'
  BY <1>2 DEF InitSkip, Goto
<1>3. ASSUME NEW p \in Process, NEW t \in Caller, Map(p, t) PROVE StageInv'
  BY <1>3 DEF Map, Goto
<1>4. ASSUME NEW p \in Process, NEW t \in Caller, Reset(p, t) PROVE StageInv'
  BY <1>4 DEF Reset, Goto
<1>5. ASSUME NEW p \in Process, NEW t \in Caller, InitUnlock(p, t) PROVE StageInv'
  BY <1>5 DEF InitUnlock, Goto
<1>6. ASSUME NEW p \in Process, NEW t \in Caller, RingLock(p, t) \/ RingUnlock(p, t)
      PROVE  StageInv'
  BY <1>6 DEF RingLock, RingUnlock, Goto
<1>7. ASSUME NEW t \in Caller, Fork(t) PROVE StageInv'
  BY <1>7 DEF Fork, FlagInChild, AliveInv, Process
<1>8. CASE UNCHANGED setup_vars
  BY <1>8 DEF setup_vars
<1> QED
  BY <1>1, <1>2, <1>3, <1>4, <1>5, <1>6, <1>7, <1>8 DEF SetupNext, InitStep

\* A thread in the ring keeps its lock: the lock is reset by a setup only, and
\* while there is one the ring is not usable; a fork copies it into a process
\* that has no thread yet.
LEMMA RingStep == SetupIInv /\ [SetupNext]_setup_vars => RingInv' /\ RingLockAlive'
<1> SUFFICES ASSUME SetupTypeOK, AliveInv, StageInv, RingInv, RingLockAlive,
                    [SetupNext]_setup_vars
             PROVE  RingInv' /\ RingLockAlive'
  BY DEF SetupIInv
<1> USE NoneAssumption DEF SetupTypeOK, StageInv, RingInv, RingLockAlive, ring
<1>1. ASSUME NEW p \in Process, NEW t \in Caller,
             \/ CallInit(p, t) \/ InitLock(p, t) \/ InitSkip(p, t)
             \/ Map(p, t) \/ MapFails(p, t)
      PROVE  RingInv' /\ RingLockAlive'
  <2>1. PICK to \in Stage \ {"critical"} : stage' = [stage EXCEPT ![p][t] = to]
    BY <1>1 DEF CallInit, InitLock, InitSkip, Map, MapFails, Goto, Stage
  <2>2. stage[p][t] # "critical"
    BY <1>1 DEF CallInit, InitLock, InitSkip, Map, MapFails, Goto
  <2>3. UNCHANGED <<alive, initialized, ring_lock, usable>>
    BY <1>1 DEF CallInit, InitLock, InitSkip, Map, MapFails
  <2> QED
    BY <2>1, <2>2, <2>3
<1>2. ASSUME NEW p \in Process, NEW t \in Caller, Reset(p, t)
      PROVE  RingInv' /\ RingLockAlive'
  BY <1>2 DEF Reset, Goto
<1>3. ASSUME NEW p \in Process, NEW t \in Caller, InitUnlock(p, t)
      PROVE  RingInv' /\ RingLockAlive'
  BY <1>3 DEF InitUnlock, Goto
<1>4. ASSUME NEW p \in Process, NEW t \in Caller, RingLock(p, t)
      PROVE  RingInv' /\ RingLockAlive'
  BY <1>4 DEF RingLock, Goto
<1>5. ASSUME NEW p \in Process, NEW t \in Caller, RingUnlock(p, t)
      PROVE  RingInv' /\ RingLockAlive'
  BY <1>5 DEF RingUnlock, Goto
<1>6. ASSUME NEW t \in Caller, Fork(t) PROVE RingInv' /\ RingLockAlive'
  BY <1>6 DEF Fork, FlagInChild, AliveInv, Process
<1>7. CASE UNCHANGED setup_vars
  BY <1>7 DEF setup_vars
<1> QED
  BY <1>1, <1>2, <1>3, <1>4, <1>5, <1>6, <1>7 DEF SetupNext, InitStep

\* Everything the setup relies on holds in every reachable state.
THEOREM SetupInvariance == SetupSpec => []SetupIInv
<1>1. SetupIInv /\ [SetupNext]_setup_vars => SetupIInv'
  BY SetupTypeStep, AliveStep, StageStep, RingStep DEF SetupIInv
<1> QED
  BY SetupInitHolds, <1>1, PTL DEF SetupSpec

\* All variables keep their types, and setups exclude each other.
THEOREM SetupTypeCorrect == SetupSpec => []SetupTypeOK
<1>1. SetupIInv => SetupTypeOK
  BY DEF SetupIInv
<1> QED
  BY <1>1, SetupInvariance, PTL

\* A child that skipped the setup would work on its parent's addresses: no
\* thread of any process does.
THEOREM RingUsedMappedCorrect == SetupSpec => []RingUsedMapped
<1>1. SetupIInv => RingUsedMapped
  BY DEF SetupIInv, RingInv, StageInv, RingUsedMapped
<1> QED
  BY <1>1, SetupInvariance, PTL

\* A lock inherited from a thread that is not there is reset before the ring
\* can be used.
THEOREM RingLockAliveCorrect == SetupSpec => []RingLockAlive
<1>1. SetupIInv => RingLockAlive
  BY DEF SetupIInv
<1> QED
  BY <1>1, SetupInvariance, PTL

\* What a step may do to a ring that is set up.  A Reset does not happen to it:
\* whoever is about to do one has found it not set up, and holds init_lock.
LEMMA KeptStep ==
    ASSUME SetupIInv, [SetupNext]_setup_vars, NEW p \in Process, initialized[p]
    PROVE  /\ ring_lock'[p] # ring_lock[p] =>
                \E t \in Caller : TakesRing(p, t) \/ LeavesRing(p, t)
           /\ in_use'[p] # in_use[p] => \E t \in Caller : LeavesRing(p, t)
<1> USE DEF SetupIInv, SetupTypeOK, ring
<1>1. ASSUME NEW q \in Process, NEW t \in Caller, Reset(q, t)
      PROVE  UNCHANGED <<ring_lock[p], in_use[p]>>
  BY <1>1 DEF Reset, Goto, StageInv
<1>2. ASSUME NEW q \in Process, NEW t \in Caller, RingLock(q, t)
      PROVE  UNCHANGED in_use /\ (ring_lock'[p] # ring_lock[p] => TakesRing(p, t))
  BY <1>2 DEF RingLock, Goto, TakesRing
<1>3. ASSUME NEW q \in Process, NEW t \in Caller, RingUnlock(q, t)
      PROVE  LeavesRing(p, t) \/ UNCHANGED <<ring_lock[p], in_use[p]>>
  BY <1>3 DEF RingUnlock, Goto, LeavesRing, RingInv
<1>4. ASSUME NEW t \in Caller, Fork(t) PROVE UNCHANGED <<ring_lock[p], in_use[p]>>
  BY <1>4 DEF Fork, StageInv, Process
<1>5. CASE UNCHANGED <<ring_lock, in_use>>
  BY <1>5
<1> QED
  BY <1>1, <1>2, <1>3, <1>4, <1>5
     DEF SetupNext, InitStep, CallInit, InitLock, InitSkip, Map, MapFails,
         InitUnlock, setup_vars

\* A second initialisation leaves the lock and the slots of a ring alone: they
\* change by the steps of the thread that holds the lock only.
THEOREM RingKeptCorrect == SetupSpec => RingKept
<1> DEFINE Kept == \A p \in Process : initialized[p] =>
                      /\ ring_lock'[p] # ring_lock[p] =>
                           \E t \in Caller : TakesRing(p, t) \/ LeavesRing(p, t)
                      /\ in_use'[p] # in_use[p] => \E t \in Caller : LeavesRing(p, t)
<1>1. SetupIInv /\ [SetupNext]_setup_vars => [Kept]_setup_vars
  BY KeptStep
<1> QED
  BY <1>1, SetupInvariance, PTL DEF SetupSpec, RingKept
=============================================================================
