----------------------------- MODULE VhcallArgs ----------------------------
(***************************************************************************)
(* The argument lists of VHCall (libvhcall.c): vhcall_args, a list linked  *)
(* in one direction and sorted by argument number behind a head numbered   *)
(* -1; the setters, which walk it and insert; vhcall_args_clear and _free; *)
(* and vhcall_invoke_with_args, which walks the list once to check it,     *)
(* fill its gaps by calling a setter on the list it is walking, and add up *)
(* the size of a buffer, and a second time to fill that buffer.  An object *)
(* is used by one thread.  Size, class and intent of a value matter only   *)
(* as far as a double complex takes two records.                           *)
(***************************************************************************)
EXTENDS Integers, FiniteSets, Sequences

CONSTANTS
    Node,       \* memory for list elements
    Number, Value, Complex, Zero,   \* as in VhcallMap
    Null

ASSUME ValueAssumption == Complex \subseteq Value /\ Zero \in Value \ Complex
ASSUME NamesAssumption == "head" \notin Node /\ Null \notin Node \cup {"head"}
ASSUME NodeAssumption == IsFiniteSet(Node)
ASSUME NumberAssumption ==
    0 \in Number /\ Number \subseteq Nat /\ \A n \in Number : 0 .. n \subseteq Number

VARIABLES
    alloc,      \* the elements calloc gave out and free did not take back
    num, next, data,    \* the fields of the elements and of the head
    args_num,   \* args_num of the head
    pc, back,   \* where the call is, and where a setter returns to
    p, tmp,     \* the pointers of vhcall_args_append and vhcall_args_clear
    argnum, val,    \* the arguments of a setter
    it,         \* p of vhcall_invoke_with_args
    insize,     \* size of its buffer, in records
    in,         \* the records written to the buffer
    reply, sent \* outcome of the last call, and what VEOS was handed in it

heap == <<alloc, num, next, data>>
setter == <<back, p, tmp, argnum, val>>
invocation == <<it, insize, in>>
vars == <<heap, args_num, pc, setter, invocation, reply, sent>>

Item == Node \cup {"head"}

-----------------------------------------------------------------------------
(* Objects, and the calls of the setters *)

\* vhcall_args_alloc (args_num -1), and vhcall_args_alloc_num, which takes any
\* negative number for -1.
Alloc(n) ==
    /\ pc = "none"
    /\ pc' = "ready"
    /\ args_num' = n
    /\ reply' = "ok" /\ sent' = <<>>
    /\ UNCHANGED <<heap, setter, invocation>>

\* ENOMEM for an object, EINVAL for a null object, a negative number or an
\* intent that does not exist.
Refuse(r) ==
    /\ \/ pc = "none" /\ r = "ENOMEM"
       \/ pc \in {"none", "ready"} /\ r = "EINVAL"
    /\ reply' = r /\ sent' = <<>>
    /\ UNCHANGED <<heap, args_num, pc, setter, invocation>>

Enter(n, v, then) ==
    /\ pc' = "walk"
    /\ argnum' = n /\ val' = v
    /\ back' = then
    /\ p' = "head" /\ tmp' = Null

CallSet(n, v) ==
    /\ pc = "ready"
    /\ Enter(n, v, "ready")
    /\ UNCHANGED <<heap, args_num, invocation, reply, sent>>

\* vhcall_args_set_complex_double: the one value that takes two records.
CallSetComplexDouble(n) == \E v \in Complex : CallSet(n, v)

\* The setters of integers and floating point numbers up to a complex float,
\* of buffers and of the VEOS handle.
CallSetOther(n) == \E v \in Value \ Complex : CallSet(n, v)

\* A setter is done: its own caller gets the answer, an invocation goes on.
Leave ==
    /\ pc' = back
    /\ back' = "ready" /\ p' = Null /\ tmp' = Null /\ argnum' = 0 /\ val' = Zero
    /\ UNCHANGED <<args_num, invocation>>
    /\ IF back = "ready" THEN reply' = "ok" /\ sent' = <<>>
       ELSE UNCHANGED <<reply, sent>>

-----------------------------------------------------------------------------
(* vhcall_args_append, and the store vhcall_args_set makes with its result *)

\* Mutant: the walk does not move on.
WalkOnStays ==
    /\ pc = "walk" /\ num[p] < argnum /\ next[p] # Null
    /\ tmp' = p
    /\ UNCHANGED <<heap, args_num, pc, back, p, argnum, val, invocation, reply, sent>>

WalkOn ==
    /\ pc = "walk" /\ num[p] < argnum /\ next[p] # Null
    /\ tmp' = p
    /\ p' = next[p]
    /\ UNCHANGED <<heap, args_num, pc, back, argnum, val, invocation, reply, sent>>

\* calloc, and the new element linked in behind an old one.
Link(old, new) ==
    /\ new \notin alloc
    /\ alloc' = alloc \cup {new}
    /\ num' = [num EXCEPT ![new] = argnum]
    /\ data' = [data EXCEPT ![new] = val]
    /\ next' = [next EXCEPT ![new] = next[old], ![old] = new]

\* Any free memory will do: one is chosen.
LinkAfter(old) ==
    /\ alloc # Node
    /\ Link(old, CHOOSE new \in Node : new \notin alloc)

\* The list ended below argnum.
WalkAppend ==
    /\ pc = "walk" /\ num[p] < argnum /\ next[p] = Null
    /\ LinkAfter(p)
    /\ Leave

\* Mutant: behind the element the walk stopped at, not before it.
WalkInsertBehind ==
    /\ pc = "walk" /\ num[p] > argnum
    /\ LinkAfter(p)
    /\ Leave

\* The walk passed the place of argnum: before p, behind tmp.
WalkInsert ==
    /\ pc = "walk" /\ num[p] > argnum
    /\ LinkAfter(tmp)
    /\ Leave

WalkFound ==
    /\ pc = "walk" /\ num[p] = argnum
    /\ data' = [data EXCEPT ![p] = val]
    /\ Leave
    /\ UNCHANGED <<alloc, num, next>>

\* An invocation that fails, in a setter or by itself.
Abort(r) ==
    /\ pc' = "ready"
    /\ reply' = r /\ sent' = <<>>
    /\ it' = Null /\ insize' = 0 /\ in' = <<>>
    /\ back' = "ready" /\ p' = Null /\ tmp' = Null /\ argnum' = 0 /\ val' = Zero
    /\ UNCHANGED <<heap, args_num>>

\* calloc fails: -1 from the setter, and from the invocation that called it.
WalkNoMemory ==
    /\ pc = "walk"
    /\ (num[p] < argnum /\ next[p] = Null) \/ num[p] > argnum
    /\ Abort("ENOMEM")

-----------------------------------------------------------------------------
(* vhcall_args_clear and vhcall_args_free *)

CallClear(then) ==
    /\ pc = "ready"
    /\ pc' = "clear"
    /\ back' = then
    /\ p' = next["head"]
    /\ UNCHANGED <<heap, args_num, tmp, argnum, val, invocation, reply, sent>>

\* prev is freed after the pointer behind it was read.
ClearOne ==
    /\ pc = "clear" /\ p # Null
    /\ p' = next[p]
    /\ alloc' = alloc \ {p}
    /\ num' = [num EXCEPT ![p] = 0]
    /\ next' = [next EXCEPT ![p] = Null]
    /\ data' = [data EXCEPT ![p] = Zero]
    /\ UNCHANGED <<args_num, pc, back, tmp, argnum, val, invocation, reply, sent>>

ClearEnd ==
    /\ pc = "clear" /\ p = Null
    /\ next' = [next EXCEPT !["head"] = Null]
    /\ pc' = back
    /\ back' = "ready"
    /\ args_num' = IF back = "none" THEN -1 ELSE args_num
    /\ UNCHANGED <<alloc, num, data, p, tmp, argnum, val, invocation, reply, sent>>

-----------------------------------------------------------------------------
(* vhcall_invoke_with_args *)

CallInvoke ==
    /\ pc = "ready"
    /\ pc' = "check"
    /\ it' = "head"
    /\ UNCHANGED <<heap, args_num, setter, insize, in, reply, sent>>

TooMany == args_num # -1 /\ num[it] + 1 > args_num

\* Mutant: missing arguments go unnoticed.
GapNever == FALSE

\* The argument behind it is missing.
Gap ==
    IF next[it] # Null THEN num[it] + 1 # num[next[it]]
    ELSE args_num # -1 /\ num[it] + 1 < args_num

CheckFails ==
    /\ pc = "check"
    /\ TooMany \/ (args_num = -1 /\ Gap)
    /\ Abort("EINVAL")

\* vhcall_args_set_u64 on the list that is being walked.
CheckFills ==
    /\ pc = "check"
    /\ args_num # -1 /\ ~TooMany /\ Gap
    /\ Enter(num[it] + 1, Zero, "count")
    /\ UNCHANGED <<heap, args_num, invocation, reply, sent>>

CheckPasses ==
    /\ pc = "check"
    /\ ~TooMany /\ ~Gap
    /\ pc' = "count"
    /\ UNCHANGED <<heap, args_num, setter, invocation, reply, sent>>

\* Mutant: every element is one record.
SizeOne(x) == IF num[x] + 1 # 0 THEN 1 ELSE 0

\* Records an element takes in the buffer; the head takes none.
SizeOf(x) == IF data[x] \in Complex THEN 2 ELSE IF num[x] + 1 # 0 THEN 1 ELSE 0

\* On to the element behind, which may just have been filled in.
Count ==
    /\ pc = "count"
    /\ insize' = insize + SizeOf(it)
    /\ it' = next[it]
    /\ pc' = IF next[it] = Null THEN "buffer" ELSE "check"
    /\ UNCHANGED <<heap, args_num, setter, in, reply, sent>>

Buffer ==
    /\ pc = "buffer"
    /\ pc' = "build"
    /\ it' = next["head"]
    /\ UNCHANGED <<heap, args_num, setter, insize, in, reply, sent>>

BufferNoMemory == pc = "buffer" /\ insize > 0 /\ Abort("ENOMEM")

\* A double complex is written as two doubles.
Build ==
    /\ pc = "build" /\ it # Null
    /\ in' = in \o IF data[it] \in Complex
                   THEN <<<<data[it], "re">>, <<data[it], "im">>>>
                   ELSE <<<<data[it], "all">>>>
    /\ it' = next[it]
    /\ UNCHANGED <<heap, args_num, pc, setter, insize, reply, sent>>

\* The system call takes insize bytes of the buffer, which is freed then.
Invoked ==
    /\ pc = "build" /\ it = Null
    /\ reply' \in {"ok", "failed"}
    /\ sent' = in
    /\ pc' = "ready"
    /\ insize' = 0 /\ in' = <<>>
    /\ UNCHANGED <<heap, args_num, setter, it>>

-----------------------------------------------------------------------------
Init ==
    /\ alloc = {}
    /\ num = [x \in Item |-> IF x = "head" THEN -1 ELSE 0]
    /\ next = [x \in Item |-> Null]
    /\ data = [x \in Item |-> Zero]
    /\ args_num = -1
    /\ pc = "none" /\ back = "ready"
    /\ p = Null /\ tmp = Null /\ argnum = 0 /\ val = Zero
    /\ it = Null /\ insize = 0 /\ in = <<>>
    /\ reply = "ok" /\ sent = <<>>

Call ==
    \/ \E n \in Number \cup {-1} : Alloc(n)
    \/ \E r \in {"EINVAL", "ENOMEM"} : Refuse(r)
    \/ \E n \in Number : CallSetComplexDouble(n) \/ CallSetOther(n)
    \/ \E then \in {"ready", "none"} : CallClear(then)
    \/ CallInvoke

AppendStep == WalkOn \/ WalkAppend \/ WalkInsert \/ WalkFound \/ WalkNoMemory

Proceed ==
    \/ AppendStep
    \/ ClearOne \/ ClearEnd
    \/ CheckFails \/ CheckFills \/ CheckPasses \/ Count
    \/ Buffer \/ BufferNoMemory \/ Build \/ Invoked

Next == Call \/ Proceed

Spec == Init /\ [][Next]_vars

\* A call that was made keeps running; nobody has to make one.
FairSpec == Spec /\ WF_vars(Proceed)

-----------------------------------------------------------------------------
(* Properties *)

TypeOK ==
    /\ alloc \subseteq Node
    /\ num \in [Item -> Number \cup {-1}]
    /\ next \in [Item -> Node \cup {Null}]
    /\ data \in [Item -> Value]
    /\ args_num \in Number \cup {-1}
    /\ pc \in {"none", "ready", "walk", "clear", "check", "count", "buffer", "build"}
    /\ back \in {"none", "ready", "count"}
    /\ {p, tmp, it} \subseteq Item \cup {Null}
    /\ argnum \in Number /\ val \in Value
    /\ insize \in 0 .. 2 * Cardinality(Node)
    /\ Len(in) <= insize
    /\ reply \in {"ok", "EINVAL", "ENOMEM", "failed"}

\* What follows x in the list, x included: the least set that has x and, with
\* an element, the one behind it.
Closed(S) == \A y \in S : next[y] \in S \cup {Null}
From(x) ==
    {y \in Item : \A S \in SUBSET Item : x \in S \cup {Null} /\ Closed(S) => y \in S}

Listed == From("head") \ {"head"}

\* Memory: the list holds exactly what is allocated, in strictly ascending
\* order, a walk stands on elements that exist and inserts behind one, what
\* clear has not freed yet it still reaches, nothing outlives the object,
\* and the buffer, sized in one pass and filled in another, is met exactly.
MemorySafe ==
    /\ pc \notin {"none", "clear"} => Listed = alloc
    /\ \A x \in Listed \cup {"head"} :
        pc # "clear" /\ next[x] # Null => num[x] < num[next[x]]
    /\ pc = "walk" =>
        /\ p \in alloc \cup {"head"}
        /\ num[p] > argnum => tmp \in alloc \cup {"head"} /\ next[tmp] = p
    /\ pc = "clear" => From(p) = alloc
    /\ pc = "none" => alloc = {}
    /\ pc \in {"check", "count"} => it \in alloc \cup {"head"}
    /\ pc = "build" /\ it = Null => Len(in) = insize

\* The map the list stands for.
Map ==
    LET at == IF pc = "clear" THEN {} ELSE Listed IN
    [n \in {num[x] : x \in at} |->
        data[CHOOSE x \in at : num[x] = n]]

Phase ==
    CASE pc = "none" -> "none"
      [] pc \in {"ready", "clear"} \/ (pc = "walk" /\ back = "ready") -> "ready"
      [] OTHER -> "invoking"

\* Refinement: walking, inserting, filling while walking and freeing step by
\* step, the list is the map of VhcallMap, and an invocation sends what the
\* map holds or nothing.
Object == INSTANCE VhcallMap WITH
    phase <- Phase, limit <- args_num, arg <- Map

Implements == Object!Spec

\* Every call returns: the list has no cycle, and the walk that makes it
\* longer while it goes still comes to its end.
CallsReturn == (pc \notin {"none", "ready"}) ~> (pc \in {"none", "ready"})

=============================================================================
