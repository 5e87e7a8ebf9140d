------------------------------ MODULE MCFuture ------------------------------
(***************************************************************************)
(* Instances of Future for TLC.                                            *)
(***************************************************************************)
EXTENDS Future, TLC

(* The scheduler of the default pool is first in, first out.               *)
MCPriority == [t \in Tasks |-> 0]

Symmetry == Permutations(Callers)
=============================================================================
