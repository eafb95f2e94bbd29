----------------------------- MODULE VhcallMap -----------------------------
(***************************************************************************)
(* What a vhcall_args object promises, without a list: a map from argument *)
(* numbers to values, set in any order, which an invocation hands to VEOS  *)
(* in the order of the numbers, all of them or none.  An object made with  *)
(* a number of arguments (limit) has the missing ones filled with zero; of *)
(* one made without (limit -1) a gap refuses the invocation.               *)
(***************************************************************************)
EXTENDS Integers, FiniteSets, SequencesExt

CONSTANTS
    Number,     \* argument numbers, from 0 on
    Value,      \* what arguments are set to
    Complex,    \* the values that are double complex: sent as two doubles
    Zero        \* the integer 0

VARIABLES
    phase,      \* "none", "ready" or "invoking"
    limit,      \* args_num
    arg,        \* the map, a function on the numbers that are set
    reply,      \* what the last call reported
    sent        \* what the last call handed to VEOS

vars == <<phase, limit, arg, reply, sent>>

Unset == [m \in {} |-> Zero]

Replies(r) == reply' = r /\ sent' = <<>>

-----------------------------------------------------------------------------
\* The values as VEOS takes them: a double complex is its two parts.
Parts(v) == IF v \in Complex THEN <<<<v, "re">>, <<v, "im">>>> ELSE <<<<v, "all">>>>

Records == FlattenSeq([k \in 1 .. Cardinality(DOMAIN arg) |-> Parts(arg[k - 1])])

\* The arguments are those of a call: no gap, and as many as announced.
Complete ==
    DOMAIN arg = 0 .. (IF limit = -1 THEN Cardinality(DOMAIN arg) ELSE limit) - 1

Alloc(num) ==
    /\ phase = "none"
    /\ phase' = "ready"
    /\ limit' = num
    /\ arg' = Unset
    /\ Replies("ok")

Set(m, v) ==
    /\ phase = "ready"
    /\ arg' = [k \in DOMAIN arg \cup {m} |-> IF k = m THEN v ELSE arg[k]]
    /\ Replies("ok")
    /\ UNCHANGED <<phase, limit>>

\* Memory is short, or an argument of the call is no good.  Nothing changes.
Refuse(r) ==
    /\ phase # "invoking"
    /\ Replies(r)
    /\ UNCHANGED <<phase, limit, arg>>

Clear ==
    /\ phase = "ready"
    /\ arg' = Unset
    /\ UNCHANGED <<phase, limit, reply, sent>>

Free ==
    /\ phase = "ready"
    /\ phase' = "none"
    /\ limit' = -1
    /\ arg' = Unset
    /\ UNCHANGED <<reply, sent>>

Invoke ==
    /\ phase = "ready"
    /\ phase' = "invoking"
    /\ UNCHANGED <<limit, arg, reply, sent>>

\* A missing argument below the announced number is zero.  The number itself
\* may be filled too, but only of an object that holds one beyond it and is
\* going to be refused.
Fill(m) ==
    /\ phase = "invoking"
    /\ limit # -1
    /\ m \notin DOMAIN arg /\ 0 .. m - 1 \subseteq DOMAIN arg
    /\ m < limit \/ (m = limit /\ \E k \in DOMAIN arg : k > m)
    /\ arg' = [k \in DOMAIN arg \cup {m} |-> IF k = m THEN Zero ELSE arg[k]]
    /\ UNCHANGED <<phase, limit, reply, sent>>

\* The function on the VH ran, or VEOS reports why it did not.
InvokeSends ==
    /\ phase = "invoking"
    /\ Complete
    /\ phase' = "ready"
    /\ reply' \in {"ok", "failed"}
    /\ sent' = Records
    /\ UNCHANGED <<limit, arg>>

InvokeRefuses ==
    /\ phase = "invoking"
    /\ IF limit = -1 THEN ~Complete ELSE \E m \in DOMAIN arg : m >= limit
    /\ phase' = "ready"
    /\ Replies("EINVAL")
    /\ UNCHANGED <<limit, arg>>

InvokeNoMemory ==
    /\ phase = "invoking"
    /\ DOMAIN arg # {} \/ limit > 0
    /\ phase' = "ready"
    /\ Replies("ENOMEM")
    /\ UNCHANGED <<limit, arg>>

Init ==
    /\ phase = "none"
    /\ limit = -1
    /\ arg = Unset
    /\ reply = "ok"
    /\ sent = <<>>

Next ==
    \/ \E num \in Number \cup {-1} : Alloc(num)
    \/ \E m \in Number, v \in Value : Set(m, v)
    \/ \E r \in {"EINVAL", "ENOMEM"} : Refuse(r)
    \/ Clear \/ Free \/ Invoke
    \/ \E m \in Number : Fill(m)
    \/ InvokeSends \/ InvokeRefuses \/ InvokeNoMemory

Spec == Init /\ [][Next]_vars
=============================================================================
