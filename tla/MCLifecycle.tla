----------------------------- MODULE MCLifecycle ------------------------------
(* Lifecycle with two threads, a name and enough objects of each kind for *)
(* a setup that fails or is shut down, and one after it.                     *)
EXTENDS Lifecycle

CONSTANTS t1, t2, n1

MCBound == [setup |-> 2, context |-> 2, flag |-> 2, property |-> 1]
=============================================================================
