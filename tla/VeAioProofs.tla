---------------------------- MODULE VeAioProofs ----------------------------
(***************************************************************************)
(* VeAio for every number of threads, contexts and requests: a context is  *)
(* in use by one request, answers are not stale, and a released context is *)
(* left alone by the host.                                                 *)
(***************************************************************************)
EXTENDS VeAio, TLAPS, FiniteSetTheorems

-----------------------------------------------------------------------------
(* The inductive invariant behind the properties.                          *)

\* A thread inside a call on a context.
InCall(t) == pc[t] \notin {"idle", "alloc"}

\* A context in use by a call is not released below it, and a context that
\* was never handed out has had no request.
CallInv ==
    /\ \A t \in Thread : InCall(t) =>
        /\ ctx[t] \in Ctx
        /\ life[ctx[t]] = "live"
        /\ floor[t] <= last[ctx[t]]
    /\ \A c \in Ctx : life[c] = "none" => vh[c] = {} /\ last[c] = 0

\* From the check of the active bit to the host's answer a context belongs to
\* one thread: first by its lock, then by the bit.
SubmitInv ==
    \A t \in Thread :
        /\ pc[t] = "mark" => status_lock[ctx[t]] = t /\ ~active[ctx[t]]
        /\ pc[t] \in {"syscall", "unmark"} =>
            /\ active[ctx[t]] /\ vh[ctx[t]] = {}
            /\ \A s \in Thread \ {t} :
                pc[s] \in {"syscall", "unmark"} => ctx[s] # ctx[t]

\* The host has at most the last request, and a context it has none of tells
\* the outcome of the last one.
ResultOf(c) ==
    /\ vh[c] \subseteq {last[c]}
    /\ vh[c] # {} => active[c]
    /\ vh[c] = {} => retval[c] = last[c] /\ errnoval[c] = last[c]
    /\ retval[c] <= last[c] /\ errnoval[c] <= last[c] /\ last[c] <= accepted

ResultInv == \A c \in Ctx : ResultOf(c)

\* What a query or wait has loaded, and what it is going to load.
AnswerInv ==
    \A t \in Thread :
        /\ pc[t] = "load_retval" => retval[ctx[t]] >= floor[t]
        /\ pc[t] \in {"load_retval", "load_errnoval"} => errnoval[ctx[t]] >= floor[t]
        /\ pc[t] \in {"load_errnoval", "answered"} => got[t].retval >= floor[t]
        /\ pc[t] = "answered" => got[t].errnoval >= floor[t]

IInv == TypeOK /\ CallInv /\ SubmitInv /\ ResultInv /\ AnswerInv

-----------------------------------------------------------------------------
\* The contexts start free, with no call or request under way.
LEMMA InitHolds == Init => IInv
<1> SUFFICES ASSUME Init PROVE IInv
  OBVIOUS
<1> USE NoneAssumption, MaxRequestAssumption DEF Init
<1>1. TypeOK
  <2>1. LockHeld
    BY DEF LockHeld
  <2>2. got \in [Thread -> [retval : Request, errnoval : Request]]
    BY DEF Request
  <2>3. accepted \in Request /\ vh \in [Ctx -> SUBSET Request]
    BY DEF Request
  <2> QED
    BY <2>1, <2>2, <2>3 DEF TypeOK, Request
<1>2. CallInv /\ SubmitInv
  BY DEF CallInv, SubmitInv, InCall
<1>3. ResultInv /\ AnswerInv
  BY DEF ResultInv, ResultOf, AnswerInv
<1> QED
  BY <1>1, <1>2, <1>3 DEF IInv

\* Every step keeps the types, and a lock's holder in its critical section.
LEMMA TypeStep == IInv /\ [Next]_vars => TypeOK'
<1> SUFFICES ASSUME TypeOK, CallInv, [Next]_vars PROVE TypeOK'
  BY DEF IInv
<1> USE NoneAssumption, MaxRequestAssumption DEF TypeOK, result, host, Request
<1>1. ASSUME NEW t \in Thread, SetUp(t) PROVE TypeOK'
  BY <1>1 DEF SetUp, Goto, LockHeld
<1>2. ASSUME NEW t \in Thread, InitFails(t) PROVE TypeOK'
  <2>1. pc' = [pc EXCEPT ![t] = "idle"] /\ pc[t] # "mark"
    BY <1>2 DEF InitFails, Goto
  <2>2. UNCHANGED <<ve_aio_setup, life, status_lock, result, host, ctx, floor, got>>
    BY <1>2 DEF InitFails
  <2> QED
    BY <2>1, <2>2 DEF LockHeld
<1>3. ASSUME NEW t \in Thread, NEW c \in Ctx, Alloc(t, c) PROVE TypeOK'
  BY <1>3 DEF Alloc, Goto, LockHeld
<1>4. ASSUME NEW t \in Thread, NEW c \in Ctx,
             CallSubmit(t, c) \/ CallQuery(t, c) \/ CallWait(t, c)
      PROVE  TypeOK'
  <2>1. PICK to \in {"submit", "query", "wait"} : Call(t, c, to)
    BY <1>4 DEF CallSubmit, CallQuery, CallWait
  <2>2. UNCHANGED <<ve_aio_setup, life, status_lock, result, host, got>>
    BY <1>4 DEF CallSubmit, CallQuery, CallWait
  <2> QED
    BY <2>1, <2>2 DEF Call, Goto, LockHeld
<1>5. ASSUME NEW t \in Thread, NEW c \in Ctx, Fini(t, c) PROVE TypeOK'
  BY <1>5 DEF Fini, LockHeld
<1>6. ASSUME NEW t \in Thread, SubmitCheck(t) PROVE TypeOK'
  BY <1>6 DEF SubmitCheck, Goto, CallInv, InCall, LockHeld
<1>7. ASSUME NEW t \in Thread, SubmitMark(t) PROVE TypeOK'
  BY <1>7 DEF SubmitMark, Goto, CallInv, InCall, LockHeld
<1>8. ASSUME NEW t \in Thread, Accept(t) PROVE TypeOK'
  BY <1>8 DEF Accept, Goto, CallInv, InCall, LockHeld
<1>9. ASSUME NEW t \in Thread, Reject(t) PROVE TypeOK'
  BY <1>9 DEF Reject, Goto, LockHeld
<1>10. ASSUME NEW t \in Thread, Unmark(t) PROVE TypeOK'
  BY <1>10 DEF Unmark, Goto, CallInv, InCall, LockHeld
<1>11. ASSUME NEW t \in Thread, QueryCheck(t) \/ WaitCheck(t) \/ WaitVh(t)
              \/ WaitVhFails(t) \/ WaitRecheck(t)
       PROVE  TypeOK'
  BY <1>11 DEF QueryCheck, WaitCheck, WaitVh, WaitVhFails, WaitRecheck, Goto, LockHeld
<1>12. ASSUME NEW t \in Thread, LoadRetval(t) PROVE TypeOK'
  BY <1>12 DEF LoadRetval, Goto, CallInv, InCall, LockHeld
<1>13. ASSUME NEW t \in Thread, LoadErrnoval(t) PROVE TypeOK'
  BY <1>13 DEF LoadErrnoval, Goto, CallInv, InCall, LockHeld
<1>14. ASSUME NEW t \in Thread, Answered(t) PROVE TypeOK'
  BY <1>14 DEF Answered, Goto, LockHeld
<1>15. ASSUME NEW c \in Ctx, Work(c) PROVE TypeOK'
  BY <1>15 DEF Work, LockHeld
<1>16. CASE UNCHANGED vars
  BY <1>16 DEF vars, LockHeld
<1> QED
  BY <1>1, <1>2, <1>3, <1>4, <1>5, <1>6, <1>7, <1>8, <1>9, <1>10, <1>11, <1>12,
     <1>13, <1>14, <1>15, <1>16 DEF Next, Begin, Proceed

\* Every step keeps contexts in use by a call alive.
LEMMA CallStep == IInv /\ [Next]_vars => CallInv'
<1> SUFFICES ASSUME TypeOK, CallInv, SubmitInv, ResultInv, [Next]_vars
             PROVE  CallInv'
  BY DEF IInv
<1> USE NoneAssumption DEF TypeOK, CallInv, InCall, result, host, Request
<1>1. ASSUME NEW t \in Thread, SetUp(t) \/ InitFails(t) PROVE CallInv'
  <2>1. \A s \in Thread : InCall(s)' => InCall(s)
    BY <1>1 DEF SetUp, InitFails, Goto
  <2> QED
    BY <1>1, <2>1 DEF SetUp, InitFails
<1>2. ASSUME NEW t \in Thread, NEW c \in Ctx, Alloc(t, c) PROVE CallInv'
  BY <1>2 DEF Alloc, Goto
<1>3. ASSUME NEW t \in Thread, NEW c \in Ctx,
             CallSubmit(t, c) \/ CallQuery(t, c) \/ CallWait(t, c)
      PROVE  CallInv'
  BY <1>3 DEF CallSubmit, CallQuery, CallWait, Call, Goto
<1>4. ASSUME NEW t \in Thread, NEW c \in Ctx, Fini(t, c) PROVE CallInv'
  BY <1>4 DEF Fini, Unused
<1>5. ASSUME NEW t \in Thread,
             \/ SubmitCheck(t) \/ SubmitMark(t) \/ Reject(t) \/ Unmark(t)
             \/ QueryCheck(t) \/ WaitCheck(t) \/ WaitVh(t) \/ WaitVhFails(t)
             \/ WaitRecheck(t) \/ LoadRetval(t) \/ LoadErrnoval(t)
      PROVE  CallInv'
  <2>1. \A s \in Thread : InCall(s)' => InCall(s)
    BY <1>5 DEF SubmitCheck, SubmitMark, Reject, Unmark, QueryCheck, WaitCheck,
                WaitVh, WaitVhFails, WaitRecheck, LoadRetval, LoadErrnoval, Goto
  <2>2. UNCHANGED <<life, ctx, floor, vh, last>>
    BY <1>5 DEF SubmitCheck, SubmitMark, Reject, Unmark, QueryCheck, WaitCheck,
                WaitVh, WaitVhFails, WaitRecheck, LoadRetval, LoadErrnoval
  <2> QED
    BY <2>1, <2>2
<1>6. ASSUME NEW t \in Thread, Accept(t) PROVE CallInv'
  BY <1>6 DEF Accept, Goto, ResultInv, ResultOf
<1>7. ASSUME NEW t \in Thread, Answered(t) PROVE CallInv'
  BY <1>7 DEF Answered, Goto
<1>8. ASSUME NEW c \in Ctx, Work(c) PROVE CallInv'
  BY <1>8 DEF Work
<1>9. CASE UNCHANGED vars
  BY <1>9 DEF vars
<1> QED
  BY <1>1, <1>2, <1>3, <1>4, <1>5, <1>6, <1>7, <1>8, <1>9 DEF Next, Begin, Proceed

\* Every step keeps a context that is being submitted on with one thread.
LEMMA SubmitStep == IInv /\ [Next]_vars => SubmitInv'
<1> SUFFICES ASSUME TypeOK, CallInv, SubmitInv, ResultInv, [Next]_vars
             PROVE  SubmitInv'
  BY DEF IInv
<1> USE NoneAssumption DEF TypeOK, CallInv, InCall, SubmitInv, result, host
<1>1. ASSUME NEW t \in Thread, SetUp(t) \/ InitFails(t) PROVE SubmitInv'
  BY <1>1 DEF SetUp, InitFails, Goto
<1>2. ASSUME NEW t \in Thread, NEW c \in Ctx, Alloc(t, c) PROVE SubmitInv'
  BY <1>2 DEF Alloc, Goto
<1>3. ASSUME NEW t \in Thread, NEW c \in Ctx,
             CallSubmit(t, c) \/ CallQuery(t, c) \/ CallWait(t, c)
      PROVE  SubmitInv'
  <2>1. PICK to \in {"submit", "query", "wait"} : Call(t, c, to)
    BY <1>3 DEF CallSubmit, CallQuery, CallWait
  <2>2. UNCHANGED <<life, status_lock, result, host>>
    BY <1>3 DEF CallSubmit, CallQuery, CallWait
  <2> QED
    BY <2>1, <2>2 DEF Call, Goto
<1>4. ASSUME NEW t \in Thread, NEW c \in Ctx, Fini(t, c) PROVE SubmitInv'
  BY <1>4 DEF Fini
<1>5. ASSUME NEW t \in Thread, SubmitCheck(t) PROVE SubmitInv'
  BY <1>5 DEF SubmitCheck, Goto
<1>6. ASSUME NEW t \in Thread, SubmitMark(t) PROVE SubmitInv'
  BY <1>6 DEF SubmitMark, Goto, ResultInv, ResultOf
<1>7. ASSUME NEW t \in Thread, Accept(t) PROVE SubmitInv'
  BY <1>7 DEF Accept, Goto
<1>8. ASSUME NEW t \in Thread, Reject(t) PROVE SubmitInv'
  BY <1>8 DEF Reject, Goto
<1>9. ASSUME NEW t \in Thread, Unmark(t) PROVE SubmitInv'
  BY <1>9 DEF Unmark, Goto
<1>10. ASSUME NEW t \in Thread,
              \/ QueryCheck(t) \/ WaitCheck(t) \/ WaitVh(t) \/ WaitVhFails(t)
              \/ WaitRecheck(t) \/ LoadRetval(t) \/ LoadErrnoval(t) \/ Answered(t)
       PROVE  SubmitInv'
  BY <1>10 DEF QueryCheck, WaitCheck, WaitVh, WaitVhFails, WaitRecheck,
               LoadRetval, LoadErrnoval, Answered, Goto
<1>11. ASSUME NEW c \in Ctx, Work(c) PROVE SubmitInv'
  BY <1>11 DEF Work
<1>12. CASE UNCHANGED vars
  BY <1>12 DEF vars
<1> QED
  BY <1>1, <1>2, <1>3, <1>4, <1>5, <1>6, <1>7, <1>8, <1>9, <1>10, <1>11, <1>12
     DEF Next, Begin, Proceed

\* Every step keeps results in step with the requests the host has done.
LEMMA ResultStep == IInv /\ [Next]_vars => ResultInv'
<1> SUFFICES ASSUME TypeOK, CallInv, SubmitInv, ResultInv, [Next]_vars
             PROVE  ResultInv'
  BY DEF IInv
<1> USE MaxRequestAssumption DEF TypeOK, ResultInv, ResultOf, result, host, Request
<1>1. ASSUME NEW t \in Thread, NEW c \in Ctx, Alloc(t, c) PROVE ResultInv'
  BY <1>1 DEF Alloc, CallInv
<1>2. ASSUME NEW t \in Thread, SubmitMark(t) PROVE ResultInv'
  BY <1>2 DEF SubmitMark
<1>3. ASSUME NEW t \in Thread, Accept(t) PROVE ResultInv'
  <2>1. PICK c \in Ctx : c = ctx[t] /\ vh[c] = {} /\ active[c]
    BY <1>3 DEF Accept, Goto, SubmitInv, CallInv, InCall
  <2>2. /\ vh' = [vh EXCEPT ![c] = {accepted + 1}]
        /\ last' = [last EXCEPT ![c] = accepted + 1]
        /\ accepted' = accepted + 1
        /\ UNCHANGED <<active, retval, errnoval>>
    BY <1>3, <2>1 DEF Accept
  <2> SUFFICES ASSUME NEW d \in Ctx PROVE ResultOf(d)'
    OBVIOUS
  <2>3. ResultOf(d)
    OBVIOUS
  <2>4. CASE d = c
    <3>1. vh'[d] = {accepted + 1} /\ last'[d] = accepted + 1
      BY <2>1, <2>2, <2>4
    <3>2. accepted \in Int /\ last[d] \in Int /\ retval[d] \in Int /\ errnoval[d] \in Int
      OBVIOUS
    <3> QED
      BY <2>1, <2>2, <2>3, <2>4, <3>1, <3>2
  <2>5. CASE d # c
    BY <2>2, <2>3, <2>5
  <2> QED
    BY <2>4, <2>5
<1>4. ASSUME NEW t \in Thread, Unmark(t) PROVE ResultInv'
  BY <1>4 DEF Unmark, Goto, SubmitInv
<1>5. ASSUME NEW c \in Ctx, Work(c) PROVE ResultInv'
  BY <1>5 DEF Work
<1>6. CASE UNCHANGED <<result, host>>
  BY <1>6
<1> QED
  BY <1>1, <1>2, <1>3, <1>4, <1>5, <1>6
     DEF Next, Begin, Proceed, SetUp, InitFails, CallSubmit, CallQuery, CallWait,
         Fini, SubmitCheck, Reject, QueryCheck, WaitCheck, WaitVh, WaitVhFails,
         WaitRecheck, LoadRetval, LoadErrnoval, Answered, vars

\* Every step keeps what was loaded, and what will be, recent enough.
LEMMA AnswerStep == IInv /\ [Next]_vars => AnswerInv'
<1> SUFFICES ASSUME TypeOK, CallInv, SubmitInv, ResultInv, AnswerInv, [Next]_vars
             PROVE  AnswerInv'
  BY DEF IInv
<1> USE DEF TypeOK, CallInv, InCall, AnswerInv, result, host, Request
<1>1. ASSUME NEW t \in Thread, SetUp(t) \/ InitFails(t) PROVE AnswerInv'
  BY <1>1 DEF SetUp, InitFails, Goto
<1>2. ASSUME NEW t \in Thread, NEW c \in Ctx, Alloc(t, c) PROVE AnswerInv'
  BY <1>2 DEF Alloc, Goto
<1>3. ASSUME NEW t \in Thread, NEW c \in Ctx,
             CallSubmit(t, c) \/ CallQuery(t, c) \/ CallWait(t, c)
      PROVE  AnswerInv'
  BY <1>3 DEF CallSubmit, CallQuery, CallWait, Call, Goto
<1>4. ASSUME NEW t \in Thread, NEW c \in Ctx, Fini(t, c) PROVE AnswerInv'
  BY <1>4 DEF Fini
<1>5. ASSUME NEW t \in Thread,
             \/ SubmitCheck(t) \/ SubmitMark(t) \/ Accept(t) \/ Reject(t) \/ Unmark(t)
      PROVE  AnswerInv'
  BY <1>5 DEF SubmitCheck, SubmitMark, Accept, Reject, Unmark, Goto
<1>6. ASSUME NEW t \in Thread, WaitVh(t) \/ WaitVhFails(t) \/ Answered(t)
      PROVE  AnswerInv'
  BY <1>6 DEF WaitVh, WaitVhFails, Answered, Goto
<1>7. ASSUME NEW t \in Thread, QueryCheck(t) \/ WaitCheck(t) \/ WaitRecheck(t)
      PROVE  AnswerInv'
  <2>1. ~active[ctx[t]] => retval[ctx[t]] >= floor[t] /\ errnoval[ctx[t]] >= floor[t]
    BY <1>7 DEF QueryCheck, WaitCheck, WaitRecheck, Goto, ResultInv, ResultOf
  <2>2. \/ \E to \in {"idle", "wait_vh"} : pc' = [pc EXCEPT ![t] = to]
        \/ ~active[ctx[t]] /\ pc' = [pc EXCEPT ![t] = "load_retval"]
    BY <1>7 DEF QueryCheck, WaitCheck, WaitRecheck, Goto
  <2>3. UNCHANGED <<result, ctx, floor, got>>
    BY <1>7 DEF QueryCheck, WaitCheck, WaitRecheck
  <2> QED
    BY <2>1, <2>2, <2>3
<1>8. ASSUME NEW t \in Thread, LoadRetval(t) PROVE AnswerInv'
  BY <1>8 DEF LoadRetval, Goto
<1>9. ASSUME NEW t \in Thread, LoadErrnoval(t) PROVE AnswerInv'
  BY <1>9 DEF LoadErrnoval, Goto
<1>10. ASSUME NEW c \in Ctx, Work(c) PROVE AnswerInv'
  BY <1>10 DEF Work, ResultInv, ResultOf
<1>11. CASE UNCHANGED vars
  BY <1>11 DEF vars
<1> QED
  BY <1>1, <1>2, <1>3, <1>4, <1>5, <1>6, <1>7, <1>8, <1>9, <1>10, <1>11
     DEF Next, Begin, Proceed

\* Everything the code of VE AIO relies on holds in every reachable state.
THEOREM Invariance == Spec => []IInv
<1>1. IInv /\ [Next]_vars => IInv'
  BY TypeStep, CallStep, SubmitStep, ResultStep, AnswerStep DEF IInv
<1> QED
  BY InitHolds, <1>1, PTL DEF Spec

\* All variables keep their types.
THEOREM TypeCorrect == Spec => []TypeOK
<1>1. IInv => TypeOK
  BY DEF IInv
<1> QED
  BY <1>1, Invariance, PTL

\* However many threads submit at once, a context has one request.
THEOREM OneRequestCorrect == Spec => []OneRequest
<1>1. IInv => OneRequest
  <2> SUFFICES ASSUME IInv, NEW c \in Ctx
               PROVE  Cardinality(vh[c]) <= 1 /\ (vh[c] # {} => active[c])
    BY DEF OneRequest
  <2>1. vh[c] = {} \/ vh[c] = {last[c]}
    BY DEF IInv, ResultInv, ResultOf
  <2>2. Cardinality(vh[c]) \in {0, 1}
    BY <2>1, FS_EmptySet, FS_Singleton
  <2> QED
    BY <2>2 DEF IInv, ResultInv, ResultOf
<1> QED
  BY <1>1, Invariance, PTL

\* What a query or wait returns is at least as new as its call.
THEOREM NotStaleCorrect == Spec => []NotStale
<1>1. IInv => NotStale
  BY DEF IInv, AnswerInv, NotStale
<1> QED
  BY <1>1, Invariance, PTL

\* Every step keeps the host away from released contexts.  This is what the
\* check of ve_aio_fini is for: it is made without the lock, and a context
\* that is not active has no request on the host.
LEMMA QuietStep == IInv /\ ReleasedQuiet /\ [Next]_vars => ReleasedQuiet'
<1> SUFFICES ASSUME IInv, ReleasedQuiet, [Next]_vars PROVE ReleasedQuiet'
  OBVIOUS
<1> USE DEF ReleasedQuiet, IInv, TypeOK, result, host
<1>1. ASSUME NEW t \in Thread, NEW c \in Ctx, Alloc(t, c) PROVE ReleasedQuiet'
  BY <1>1 DEF Alloc
<1>2. ASSUME NEW t \in Thread, NEW c \in Ctx, Fini(t, c) PROVE ReleasedQuiet'
  BY <1>2 DEF Fini, ResultInv, ResultOf
<1>3. ASSUME NEW t \in Thread, Accept(t) PROVE ReleasedQuiet'
  BY <1>3 DEF Accept, Goto, CallInv, InCall
<1>4. ASSUME NEW c \in Ctx, Work(c) PROVE ReleasedQuiet'
  BY <1>4 DEF Work
<1>5. CASE UNCHANGED <<life, vh>>
  BY <1>5
<1> QED
  BY <1>1, <1>2, <1>3, <1>4, <1>5
     DEF Next, Begin, Proceed, SetUp, InitFails, CallSubmit, CallQuery, CallWait,
         SubmitCheck, SubmitMark, Reject, Unmark, QueryCheck, WaitCheck, WaitVh,
         WaitVhFails, WaitRecheck, LoadRetval, LoadErrnoval, Answered, vars

\* The host never writes to a context after ve_aio_fini released it.
THEOREM ReleasedQuietCorrect == Spec => []ReleasedQuiet
<1>1. Init => ReleasedQuiet
  BY DEF Init, ReleasedQuiet
<1> QED
  BY <1>1, QuietStep, Invariance, PTL DEF Spec
=============================================================================
