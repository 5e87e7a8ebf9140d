---------------------------- MODULE MCLoopedTask ----------------------------
(***************************************************************************)
(* Instances of LoopedTask for TLC.                                        *)
(***************************************************************************)
EXTENDS LoopedTask

=============================================================================
