---------------------------- MODULE MCQuickSort ----------------------------
(***************************************************************************)
(* Instances of QuickSort for TLC.                                         *)
(***************************************************************************)
EXTENDS QuickSort

=============================================================================
