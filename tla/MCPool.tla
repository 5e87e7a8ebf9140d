------------------------------- MODULE MCPool -------------------------------
(***************************************************************************)
(* Instances of PoolCore for TLC.                                          *)
(***************************************************************************)
EXTENDS PoolProperties

CONSTANTS t1, t2, t3

(* The two priorities that tell the orders of three tasks apart: t1 and t2 *)
(* share one, t3 is more urgent.                                           *)
MCPriority == (t1 :> 1) @@ (t2 :> 1) @@ (t3 :> 2)

Symmetry == Permutations(Workers) \cup Permutations(Tasks)
=============================================================================
