----------------------------- MODULE QuickSort -----------------------------
(***************************************************************************)
(* quick_sort of quicksort.h as a state machine: the array it sorts, the   *)
(* calls that are still to be made and the comparisons counted.            *)
(* std::partition is a library function that may arrange both parts in any *)
(* order; only when no element is less than the pivot does it move nothing *)
(* (as the libraries do it: they swap an element that is not less with one *)
(* that is), without which quick_sort would not sort.                      *)
(***************************************************************************)
EXTENDS Integers, Sequences, Functions

CONSTANTS
  Values,      \* the elements, ordered by <
  MaxLength    \* a bound on the length of the input

ASSUME QuickSortAssumption == Values \subseteq Int /\ MaxLength \in Nat

VARIABLES
  input,         \* the elements as they were given
  array,         \* the elements in the range that is sorted in place
  calls,         \* the recursive calls not yet begun, the next one first,
                 \* with their range [first, beyond) and depth of recursion
  comparisons    \* the calls of less so far

sortVars == <<input, array, calls, comparisons>>

Call == [first : Nat, beyond : Nat, depth : Nat]

SortTypeOK ==
  /\ input \in Seq(Values)
  /\ array \in [DOMAIN input -> Values]
  /\ calls \in Seq(Call)
  /\ \A n \in DOMAIN calls :
       1 <= calls[n].first /\ calls[n].first <= calls[n].beyond
       /\ calls[n].beyond <= Len(input) + 1
  /\ comparisons \in Nat

(* The overload with a result copies its input and makes the same first    *)
(* call on the copy.                                                       *)
SortInit ==
  /\ \E n \in 0..MaxLength : input \in [1..n -> Values]
  /\ array = input
  /\ calls = <<[first |-> 1, beyond |-> Len(input) + 1, depth |-> 0]>>
  /\ comparisons = 0

(* A call of an empty range returns at once.                               *)
Return ==
  /\ calls # <<>>
  /\ Head(calls).first = Head(calls).beyond
  /\ calls' = Tail(calls)
  /\ UNCHANGED <<input, array, comparisons>>

(* b is a with the elements of range in another order.                     *)
Rearranges(a, b, range) ==
  \E p \in Bijection(range, range) :
    b = [k \in DOMAIN a |-> IF k \in range THEN a[p[k]] ELSE a[k]]

(* What std::partition may leave in the range of c: the elements less than *)
(* the pivot before middle, the others from there on.                      *)
Partitioned(a, b, c, middle) ==
  LET pivot == a[c.first]
  IN  /\ \A k \in c.first .. c.beyond - 1 :
           IF k < middle THEN b[k] < pivot ELSE b[k] >= pivot
      /\ middle = c.first => b = a

(* The calls that follow a partition at middle.  std::max leaves a first   *)
(* element that nothing is less than out of the second.                    *)
RecursiveCalls_SameRange(c, middle) ==
  <<[first |-> c.first, beyond |-> middle, depth |-> c.depth + 1],
    [first |-> middle, beyond |-> c.beyond, depth |-> c.depth + 1]>>

RecursiveCalls_SkipsOne(c, middle) ==
  <<[first |-> c.first, beyond |-> middle, depth |-> c.depth + 1],
    [first |-> IF middle + 1 > c.beyond THEN c.beyond ELSE middle + 1,
     beyond |-> c.beyond, depth |-> c.depth + 1]>>

RecursiveCalls_Overlapping(c, middle) ==
  <<[first |-> c.first, beyond |-> middle, depth |-> c.depth + 1],
    [first |-> c.first + 1, beyond |-> c.beyond, depth |-> c.depth + 1]>>

RecursiveCalls(c, middle) ==
  <<[first |-> c.first, beyond |-> middle, depth |-> c.depth + 1],
    [first |-> IF c.first + 1 > middle THEN c.first + 1 ELSE middle,
     beyond |-> c.beyond, depth |-> c.depth + 1]>>

(* less is called once for each element, the pivot included.               *)
Partition ==
  /\ calls # <<>>
  /\ Head(calls).first # Head(calls).beyond
  /\ LET c == Head(calls) IN
       /\ Rearranges(array, array', c.first .. c.beyond - 1)
       /\ \E middle \in c.first .. c.beyond :
            /\ Partitioned(array, array', c, middle)
            /\ calls' = RecursiveCalls(c, middle) \o Tail(calls)
       /\ comparisons' = comparisons + (c.beyond - c.first)
  /\ UNCHANGED input

SortNext == Return \/ Partition

SortSpec == SortInit /\ [][SortNext]_sortVars

-----------------------------------------------------------------------------
(* quick_sort sorts: when the outermost call returns the elements are in   *)
(* order, however std::partition arranged them, also when elements are     *)
(* equal.                                                                  *)
ReturnsSorted ==
  calls = <<>> => \A k, l \in DOMAIN array : k < l => array[k] <= array[l]

(* The recursion is at most one call per element deep: each call has a     *)
(* smaller range than its caller, which std::max(first + 1, middle) is     *)
(* there for.                                                              *)
DepthBounded == \A n \in DOMAIN calls : calls[n].depth <= Len(input)

(* The worst case of the number that is measured.  The second call keeps   *)
(* the pivot when anything is less than it, so the bound exceeds the       *)
(* n * (n + 1) \div 2 of a quick sort that leaves its pivot out.           *)
ComparisonsBounded ==
  LET n == Len(input)
  IN  n > 0 => comparisons <= (n * (n + 1)) \div 2 + n - 1

=============================================================================
