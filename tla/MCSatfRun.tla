----------------------------- MODULE MCSatfRun -----------------------------
(***************************************************************************)
(* Instances of SatfRun for TLC.                                           *)
(***************************************************************************)
EXTENDS SatfRun, TLC

MCArguments == {<<1, 3>>, <<2, 2>>, <<2, 1>>, <<0, 0>>}
MCDataNames == <<"random_data", "reverse_sorted_data">>
MCAlgorithms == <<"heap_sort", "std_sort">>

(* Different for each algorithm, data set and size.                        *)
MCComparisons ==
  [m \in Files \X (0..MaxSize) |->
     (IF m[1][1] = "random_data" THEN 100 ELSE 0)
       + (IF m[1][2] = "heap_sort" THEN 10 ELSE 0) + m[2]]

WorkerSymmetry == Permutations(Workers)

=============================================================================
