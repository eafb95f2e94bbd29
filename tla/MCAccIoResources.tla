-------------------------- MODULE MCAccIoResources -------------------------
(* Model values for AccIoResources.  Two threads and three resources: one  *)
(* thread exits while the other inserts, and a handler on an exiting       *)
(* thread sets its key anew.                                               *)
EXTENDS AccIoResources, TLC

Symmetry == Permutations(Thread) \cup Permutations(Res)
=============================================================================
