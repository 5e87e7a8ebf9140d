---------------------------- MODULE MCSatfScript ----------------------------
(***************************************************************************)
(* Instances of SatfScript for TLC: two seconds in November 2009 and one   *)
(* in December.                                                            *)
(***************************************************************************)
EXTENDS SatfScript

MCYear == <<2009, 2009, 2009>>
MCMonth == <<11, 11, 12>>

(* Sizes of one and of two digits, and a range that is refused.            *)
MCArguments == {<<9, 10>>, <<0, 1>>, <<10, 9>>}

MCFileNames == <<<<"random_data", "heap_sort">>, <<"random_data", "std_sort">>,
                 <<"sorted_data", "heap_sort">>>>

MCComparisons == [n \in Sizes |-> n - 1]

=============================================================================
