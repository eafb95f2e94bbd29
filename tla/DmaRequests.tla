---------------------------- MODULE DmaRequests ----------------------------
(***************************************************************************)
(* What VE DMA promises its callers, without a descriptor table: a request *)
(* is submitted, the hardware finishes it with an exception code, and      *)
(* that code is reported to a caller exactly once.  Until it is finished   *)
(* an inquiry may only be told to come back later.  A request is named by  *)
(* whoever it belongs to: an asynchronous handle (ve_dma_post) or a thread *)
(* blocked in ve_dma_post_wait.                                            *)
(***************************************************************************)
CONSTANTS
    Caller,     \* threads that inquire
    Client,     \* owners of a request: handles and synchronous callers
    Exc         \* exception codes a DMA finishes with, "no exception" included

VARIABLES
    req,        \* req[c]: "none", "run", or the code c's request finished with
    got         \* got[t]: what the last inquiry of caller t was told

vars == <<req, got>>

Init ==
    /\ req = [c \in Client |-> "none"]
    /\ got = [t \in Caller |-> "none"]

Submit(c) ==
    /\ req[c] = "none"
    /\ req' = [req EXCEPT ![c] = "run"]
    /\ UNCHANGED got

Finish(c, e) ==
    /\ req[c] = "run"
    /\ req' = [req EXCEPT ![c] = e]
    /\ UNCHANGED got

Report(t, c) ==
    /\ req[c] \in Exc
    /\ got' = [got EXCEPT ![t] = req[c]]
    /\ req' = [req EXCEPT ![c] = "none"]

NotYet(t, c) ==
    /\ req[c] = "run"
    /\ got' = [got EXCEPT ![t] = "again"]
    /\ UNCHANGED req

Next ==
    \E c \in Client :
        \/ Submit(c)
        \/ \E e \in Exc : Finish(c, e)
        \/ \E t \in Caller : Report(t, c) \/ NotYet(t, c)

Spec == Init /\ [][Next]_vars
=============================================================================
