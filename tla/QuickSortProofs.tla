-------------------------- MODULE QuickSortProofs --------------------------
(***************************************************************************)
(* quick_sort sorts, recurses no deeper than it has elements and compares  *)
(* no more often than its worst case, for every set of integers, every     *)
(* length and every order in which std::partition may leave the two parts. *)
(***************************************************************************)
EXTENDS QuickSort, TLAPS, SequenceTheorems, FunctionTheorems

-----------------------------------------------------------------------------
(* The inductive invariant.                                                *)

(* The calls to come have disjoint ranges, from left to right.             *)
Ordered ==
  \A n, m \in DOMAIN calls : n < m => calls[n].beyond <= calls[m].first

(* Two elements in the wrong order are within the range of one call.       *)
Placed ==
  \A k, l \in DOMAIN array :
    k < l => \/ array[k] <= array[l]
             \/ \E n \in DOMAIN calls :
                  calls[n].first <= k /\ l < calls[n].beyond

(* Each level of recursion has taken at least one element away.            *)
DepthLeft ==
  \A n \in DOMAIN calls :
    calls[n].depth + (calls[n].beyond - calls[n].first) <= Len(input)

SortInv == SortTypeOK /\ Ordered /\ Placed /\ DepthLeft

-----------------------------------------------------------------------------
(* The steps, as what they do to each call and to each element.            *)

(* What is known of the calls to come, with numbers and not with types.    *)
LEMMA CallsKnown ==
  ASSUME SortTypeOK
  PROVE  /\ Len(input) \in Nat /\ DOMAIN input = 1..Len(input)
         /\ Len(calls) \in Nat /\ DOMAIN calls = 1..Len(calls)
         /\ DOMAIN array = 1..Len(input)
         /\ \A k \in 1..Len(input) : array[k] \in Int
         /\ \A n \in 1..Len(calls) :
              /\ calls[n].first \in Nat
              /\ calls[n].beyond \in Nat
              /\ calls[n].depth \in Nat
              /\ 1 <= calls[n].first
              /\ calls[n].first <= calls[n].beyond
              /\ calls[n].beyond <= Len(input) + 1
<1>1. /\ Len(input) \in Nat /\ DOMAIN input = 1..Len(input)
      /\ Len(calls) \in Nat /\ DOMAIN calls = 1..Len(calls)
  BY LenProperties DEF SortTypeOK
<1>2. DOMAIN array = 1..Len(input)
  BY <1>1 DEF SortTypeOK
<1>3. \A k \in 1..Len(input) : array[k] \in Int
  BY <1>1, QuickSortAssumption DEF SortTypeOK
<1>4. \A n \in 1..Len(calls) : calls[n] \in Call
  BY ElementOfSeq DEF SortTypeOK
<1>5. \A n \in 1..Len(calls) :
        /\ calls[n].first \in Nat
        /\ calls[n].beyond \in Nat
        /\ calls[n].depth \in Nat
  BY <1>4 DEF Call
<1> QED BY <1>1, <1>2, <1>3, <1>5 DEF SortTypeOK

LEMMA FirstCall ==
  ASSUME SortTypeOK, calls # <<>>
  PROVE  /\ 1 \in 1..Len(calls)
         /\ Head(calls) = calls[1]
         /\ Tail(calls) \in Seq(Call)
         /\ Len(Tail(calls)) = Len(calls) - 1
         /\ \A n \in 1..Len(calls) - 1 : Tail(calls)[n] = calls[n + 1]
<1>1. calls \in Seq(Call)
  BY DEF SortTypeOK
<1>2. Len(calls) \in Nat \ {0}
  BY <1>1, EmptySeq
<1>3. Head(calls) = calls[1]
  OBVIOUS
<1> QED BY <1>1, <1>2, <1>3, HeadTailProperties

(* Returning drops the next call, whose range is empty.                    *)
LEMMA ReturnSteps ==
  ASSUME SortTypeOK, Return
  PROVE  /\ calls # <<>> /\ calls[1].first = calls[1].beyond
         /\ calls' \in Seq(Call)
         /\ Len(calls') = Len(calls) - 1
         /\ \A n \in 1..Len(calls) - 1 : calls'[n] = calls[n + 1]
         /\ UNCHANGED <<input, array, comparisons>>
BY FirstCall DEF Return

(* A partition at middle that takes each element from where p says.        *)
Splits(first, beyond, middle, p) ==
  /\ first \in 1..Len(input) /\ beyond \in first+1..Len(input)+1
  /\ middle \in first..beyond-1
  /\ p \in Bijection(first..beyond-1, first..beyond-1)
  /\ \A k \in 1..Len(input) :
       array'[k] = IF k \in first..beyond-1 THEN array[p[k]] ELSE array[k]
  /\ \A k \in first..beyond-1 :
       IF k < middle THEN array'[k] < array[first] ELSE array'[k] >= array[first]
  /\ middle = first => \A k \in 1..Len(input) : array'[k] = array[k]

(* The calls that a partition puts in place of the first.                  *)
Replaces(first, beyond, middle) ==
  /\ calls # <<>> /\ calls[1].first = first /\ calls[1].beyond = beyond
  /\ calls' \in Seq(Call)
  /\ Len(calls') = Len(calls) + 1
  /\ /\ calls'[1].first = first
     /\ calls'[1].beyond = middle
     /\ calls'[1].depth = calls[1].depth + 1
  /\ /\ calls'[2].first = IF first + 1 > middle THEN first + 1 ELSE middle
     /\ calls'[2].beyond = beyond
     /\ calls'[2].depth = calls[1].depth + 1
  /\ \A n \in 3..Len(calls) + 1 : calls'[n] = calls[n - 1]

(* The pivot is not less than itself: the second part is never empty.      *)
LEMMA PartitionSteps ==
  ASSUME SortTypeOK, Partition
  PROVE  \E first, beyond, middle \in Nat :
           /\ \E p : Splits(first, beyond, middle, p)
           /\ Replaces(first, beyond, middle)
           /\ array' \in [DOMAIN input -> Values]
           /\ comparisons' \in Nat
           /\ input' = input
<1> DEFINE first  == calls[1].first
           beyond == calls[1].beyond
           range  == first..beyond-1
<1>1. calls # <<>> /\ Head(calls) = calls[1] /\ 1 \in 1..Len(calls)
  BY FirstCall DEF Partition
<1>2. /\ first \in 1..Len(input)
      /\ beyond \in first+1..Len(input)+1
      /\ calls[1].depth \in Nat
  <2>1. /\ first \in Nat /\ beyond \in Nat /\ calls[1].depth \in Nat
        /\ Len(input) \in Nat
        /\ 1 <= first /\ first <= beyond /\ beyond <= Len(input) + 1
    BY <1>1, CallsKnown
  <2>2. first # beyond
    BY <1>1 DEF Partition
  <2> HIDE DEF first, beyond
  <2> QED BY <2>1, <2>2
<1>3. range \subseteq 1..Len(input) /\ first \in range
  <2>1. PICK N \in Nat : N = Len(input)
    BY CallsKnown
  <2>2. PICK a, b \in Nat : a = first /\ b = beyond
    BY <1>2, <2>1
  <2>3. 1 <= a /\ a <= N /\ a + 1 <= b /\ b <= N + 1
    BY <1>2, <2>1, <2>2
  <2>4. a..b-1 \subseteq 1..N /\ a \in a..b-1
    BY <2>3
  <2> QED BY <2>1, <2>2, <2>4
<1>4. PICK p \in Bijection(range, range) :
        array' = [k \in DOMAIN array |-> IF k \in range THEN array[p[k]] ELSE array[k]]
  BY <1>1 DEF Partition, Rearranges
<1>5. PICK middle \in first..beyond :
        /\ Partitioned(array, array', calls[1], middle)
        /\ calls' = RecursiveCalls(calls[1], middle) \o Tail(calls)
  BY <1>1 DEF Partition
<1>6. /\ \A k \in range : p[k] \in range
      /\ \A m \in range : \E k \in range : p[k] = m
  <2> HIDE DEF range
  <2> QED BY <1>4, Fun_BijectionProperties
<1>7. \A k \in 1..Len(input) :
        array'[k] = IF k \in range THEN array[p[k]] ELSE array[k]
  BY <1>4, CallsKnown
<1>8. /\ \A k \in range :
           IF k < middle THEN array'[k] < array[first] ELSE array'[k] >= array[first]
      /\ middle = first => array' = array
  BY <1>5 DEF Partitioned
<1>9. middle \in first..beyond-1
  <2>1. PICK k \in range : p[k] = first
    BY <1>3, <1>6
  <2>2. array'[k] = array[first]
    BY <2>1, <1>3, <1>7
  <2>3. ~(k < middle)
    BY <2>1, <2>2, <1>3, <1>8, CallsKnown
  <2> QED BY <2>1, <2>3, <1>2, <1>5
<1>10. Splits(first, beyond, middle, p)
  BY <1>2, <1>4, <1>7, <1>8, <1>9 DEF Splits
<1>11. array' \in [DOMAIN input -> Values]
  <2>1. \A k \in DOMAIN array : array[k] \in Values
    BY DEF SortTypeOK
  <2>2. \A k \in range : array[p[k]] \in Values
    BY <2>1, <1>3, <1>6, CallsKnown
  <2>3. DOMAIN array = DOMAIN input
    BY CallsKnown
  <2> QED BY <1>4, <2>1, <2>2, <2>3
<1>12. Replaces(first, beyond, middle)
  <2> DEFINE c1 == [first |-> first, beyond |-> middle, depth |-> calls[1].depth + 1]
             c2 == [first |-> IF first + 1 > middle THEN first + 1 ELSE middle,
                    beyond |-> beyond, depth |-> calls[1].depth + 1]
             two == <<c1, c2>>
  <2>1. c1 \in Call /\ c2 \in Call
    <3>1. /\ first \in Nat /\ middle \in Nat /\ beyond \in Nat
          /\ calls[1].depth \in Nat
      <4>1. first \in Nat /\ beyond \in Int /\ calls[1].depth \in Nat
        BY <1>2, CallsKnown
      <4> HIDE DEF first, beyond
      <4> QED BY <4>1, <1>9
    <3> HIDE DEF first, beyond
    <3> QED BY <3>1 DEF Call
  <2>2. two \in Seq(Call) /\ Len(two) = 2 /\ two[1] = c1 /\ two[2] = c2
    BY <2>1
  <2>3. calls' = two \o Tail(calls)
    BY <1>5 DEF RecursiveCalls
  <2>4. /\ Tail(calls) \in Seq(Call)
        /\ Len(Tail(calls)) = Len(calls) - 1
        /\ \A n \in 1..Len(calls) - 1 : Tail(calls)[n] = calls[n + 1]
    BY <1>1, FirstCall
  <2>5. /\ c1.first = first /\ c1.beyond = middle /\ c1.depth = calls[1].depth + 1
        /\ c2.first = IF first + 1 > middle THEN first + 1 ELSE middle
        /\ c2.beyond = beyond /\ c2.depth = calls[1].depth + 1
    OBVIOUS
  <2>6. Len(calls) \in Nat /\ Len(calls) >= 1
    BY <1>1, CallsKnown
  <2> HIDE DEF c1, c2, two
  <2>7. /\ calls' \in Seq(Call)
        /\ Len(calls') = 2 + (Len(calls) - 1)
        /\ \A n \in 1 .. 2 + (Len(calls) - 1) :
             calls'[n] = IF n <= 2 THEN two[n] ELSE Tail(calls)[n - 2]
    <3> DEFINE rest == Tail(calls)
    <3>1. rest \in Seq(Call) /\ Len(rest) = Len(calls) - 1 /\ calls' = two \o rest
      BY <2>3, <2>4
    <3> HIDE DEF rest
    <3>2. /\ two \o rest \in Seq(Call)
          /\ Len(two \o rest) = Len(two) + Len(rest)
          /\ \A n \in 1 .. Len(two) + Len(rest) :
               (two \o rest)[n] = IF n <= Len(two) THEN two[n] ELSE rest[n - Len(two)]
      BY <2>2, <3>1, ConcatProperties
    <3>3. Len(two) + Len(rest) = 2 + (Len(calls) - 1)
      BY <2>2, <3>1
    <3>4. /\ Len(calls') = 2 + (Len(calls) - 1)
          /\ \A n \in 1 .. 2 + (Len(calls) - 1) :
               calls'[n] = IF n <= 2 THEN two[n] ELSE rest[n - 2]
      BY <2>2, <3>1, <3>2, <3>3
    <3> QED BY <3>1, <3>2, <3>4 DEF rest
  <2>8. calls'[1] = c1 /\ calls'[2] = c2
    BY <2>2, <2>6, <2>7
  <2>9. ASSUME NEW n \in 3..Len(calls) + 1
        PROVE  calls'[n] = calls[n - 1]
    <3>1. n - 2 \in 1..Len(calls) - 1 /\ (n - 2) + 1 = n - 1
      BY <2>6
    <3>2. calls'[n] = Tail(calls)[n - 2]
      BY <2>6, <2>7
    <3> QED BY <3>1, <3>2, <2>4
  <2> QED BY <1>1, <2>5, <2>6, <2>7, <2>8, <2>9 DEF Replaces
<1>13. comparisons' \in Nat
  <2>1. comparisons' = comparisons + (beyond - first)
    BY <1>1 DEF Partition
  <2>2. comparisons \in Nat
    BY DEF SortTypeOK
  <2>3. first \in Nat /\ beyond \in Nat /\ first <= beyond
    BY <1>2, CallsKnown
  <2> HIDE DEF first, beyond
  <2> QED BY <2>1, <2>2, <2>3
<1>14. first \in Nat /\ beyond \in Nat /\ middle \in Nat
  BY <1>2, <1>9
<1>15. input' = input
  BY DEF Partition
<1> HIDE DEF first, beyond
<1>16. \E q : Splits(first, beyond, middle, q)
  BY <1>10
<1> QED BY <1>11, <1>12, <1>13, <1>14, <1>15, <1>16

-----------------------------------------------------------------------------
(* The parts of the invariant.                                             *)

LEMMA ReturnKeepsInv ==
  ASSUME SortInv, Return
  PROVE  SortInv'
<1>1. /\ SortTypeOK /\ Ordered /\ Placed /\ DepthLeft
  BY DEF SortInv
<1>2. /\ calls # <<>> /\ calls[1].first = calls[1].beyond
      /\ calls' \in Seq(Call)
      /\ Len(calls') = Len(calls) - 1
      /\ \A n \in 1..Len(calls) - 1 : calls'[n] = calls[n + 1]
      /\ UNCHANGED <<input, array, comparisons>>
  BY <1>1, ReturnSteps
<1>3. Len(calls) \in Nat /\ Len(calls) >= 1 /\ DOMAIN calls = 1..Len(calls)
  BY <1>1, <1>2, CallsKnown, FirstCall
<1>4. DOMAIN calls' = 1..Len(calls) - 1
  BY <1>2, LenProperties
<1>5. \A n \in DOMAIN calls' : n + 1 \in DOMAIN calls /\ calls'[n] = calls[n + 1]
  BY <1>2, <1>3, <1>4
<1>6. SortTypeOK'
  <2>1. \A n \in DOMAIN calls' :
          /\ 1 <= calls'[n].first /\ calls'[n].first <= calls'[n].beyond
          /\ calls'[n].beyond <= Len(input) + 1
    BY <1>1, <1>5 DEF SortTypeOK
  <2> QED BY <1>1, <1>2, <2>1 DEF SortTypeOK
<1>7. Ordered'
  <2> SUFFICES ASSUME NEW n \in DOMAIN calls', NEW m \in DOMAIN calls', n < m
               PROVE  calls'[n].beyond <= calls'[m].first
    BY DEF Ordered
  <2>1. n + 1 < m + 1
    BY <1>3, <1>4
  <2> QED BY <1>1, <1>5, <2>1 DEF Ordered
<1>8. Placed'
  <2> SUFFICES ASSUME NEW k \in DOMAIN array, NEW l \in DOMAIN array, k < l,
                      ~(array[k] <= array[l])
               PROVE  \E n \in DOMAIN calls' :
                        calls'[n].first <= k /\ l < calls'[n].beyond
    BY <1>2 DEF Placed
  <2>1. PICK m \in DOMAIN calls : calls[m].first <= k /\ l < calls[m].beyond
    BY <1>1 DEF Placed
  <2>2. m # 1
    BY <1>1, <1>2, <2>1, CallsKnown
  <2>3. m - 1 \in DOMAIN calls' /\ calls'[m - 1] = calls[m]
    BY <1>2, <1>3, <1>4, <2>2
  <2> QED BY <2>1, <2>3
<1>9. DepthLeft'
  BY <1>1, <1>2, <1>5 DEF DepthLeft
<1> QED BY <1>6, <1>7, <1>8, <1>9 DEF SortInv

(* The calls after a partition: the two parts, then those that were there. *)
LEMMA CallsAfter ==
  ASSUME SortTypeOK, NEW first, NEW beyond, NEW middle, NEW p,
         Splits(first, beyond, middle, p), Replaces(first, beyond, middle)
  PROVE  /\ first \in Nat /\ beyond \in Nat /\ middle \in Nat
         /\ 1 <= first /\ first <= middle /\ middle < beyond
         /\ beyond <= Len(input) + 1
         /\ DOMAIN calls' = 1..Len(calls) + 1
         /\ 1 \in DOMAIN calls /\ 1 \in DOMAIN calls' /\ 2 \in DOMAIN calls'
         /\ \A n \in DOMAIN calls' :
              \/ n = 1
              \/ n = 2
              \/ n > 2 /\ n - 1 \in DOMAIN calls /\ n - 1 > 1 /\ calls'[n] = calls[n - 1]
         /\ \A n \in DOMAIN calls :
              n # 1 => n + 1 \in DOMAIN calls' /\ calls'[n + 1] = calls[n]
<1>1. /\ first \in 1..Len(input) /\ beyond \in first+1..Len(input)+1
      /\ middle \in first..beyond-1
  BY DEF Splits
<1>2. Len(input) \in Nat /\ Len(calls) \in Nat /\ DOMAIN calls = 1..Len(calls)
  BY CallsKnown
<1>3. Len(calls) >= 1
  BY <1>2, FirstCall DEF Replaces
<1>4. calls' \in Seq(Call) /\ Len(calls') = Len(calls) + 1
      /\ \A n \in 3..Len(calls) + 1 : calls'[n] = calls[n - 1]
  BY DEF Replaces
<1>5. DOMAIN calls' = 1..Len(calls) + 1
  BY <1>4, LenProperties
<1>6. ASSUME NEW n \in DOMAIN calls', n # 1, n # 2
      PROVE  n > 2 /\ n - 1 \in DOMAIN calls /\ n - 1 > 1 /\ calls'[n] = calls[n - 1]
  <2>1. n \in 3..Len(calls) + 1
    BY <1>2, <1>5, <1>6
  <2> QED BY <1>2, <1>4, <2>1
<1>7. ASSUME NEW n \in DOMAIN calls, n # 1
      PROVE  n + 1 \in DOMAIN calls' /\ calls'[n + 1] = calls[n]
  <2>1. n + 1 \in 3..Len(calls) + 1 /\ (n + 1) - 1 = n
    BY <1>2, <1>7
  <2>2. calls'[n + 1] = calls[(n + 1) - 1]
    BY <1>4, <2>1
  <2> QED BY <1>2, <1>5, <2>1, <2>2
<1>8. /\ first \in Nat /\ beyond \in Nat /\ middle \in Nat
      /\ 1 <= first /\ first <= middle /\ middle < beyond
      /\ beyond <= Len(input) + 1
  BY <1>1, <1>2
<1> QED BY <1>2, <1>3, <1>5, <1>6, <1>7, <1>8

LEMMA PartitionKeepsTypes ==
  ASSUME SortTypeOK, Partition
  PROVE  SortTypeOK'
<1>1. PICK first, beyond, middle \in Nat :
        /\ \E p : Splits(first, beyond, middle, p)
        /\ Replaces(first, beyond, middle)
        /\ array' \in [DOMAIN input -> Values]
        /\ comparisons' \in Nat
        /\ input' = input
  BY PartitionSteps
<1>2. PICK p : Splits(first, beyond, middle, p)
  BY <1>1
<1>3. /\ 1 <= first /\ first <= middle /\ middle < beyond
      /\ beyond <= Len(input) + 1
      /\ \A n \in DOMAIN calls' :
           \/ n = 1
           \/ n = 2
           \/ n - 1 \in DOMAIN calls /\ calls'[n] = calls[n - 1]
  BY <1>1, <1>2, CallsAfter
<1>4. ASSUME NEW n \in DOMAIN calls'
      PROVE  /\ 1 <= calls'[n].first /\ calls'[n].first <= calls'[n].beyond
             /\ calls'[n].beyond <= Len(input) + 1
  <2>0. Len(input) \in Nat
    BY CallsKnown
  <2>1. CASE n = 1
    BY <2>0, <2>1, <1>1, <1>3 DEF Replaces
  <2>2. CASE n = 2
    BY <2>0, <2>2, <1>1, <1>3 DEF Replaces
  <2>3. CASE n - 1 \in DOMAIN calls /\ calls'[n] = calls[n - 1]
    BY <2>3, CallsKnown
  <2> QED BY <1>3, <2>1, <2>2, <2>3
<1>5. calls' \in Seq(Call)
  BY <1>1 DEF Replaces
<1> QED BY <1>1, <1>4, <1>5 DEF SortTypeOK

LEMMA PartitionKeepsOrder ==
  ASSUME SortInv, Partition
  PROVE  Ordered' /\ DepthLeft'
<1>1. SortTypeOK /\ Ordered /\ DepthLeft
  BY DEF SortInv
<1>2. PICK first, beyond, middle \in Nat :
        /\ \E p : Splits(first, beyond, middle, p)
        /\ Replaces(first, beyond, middle)
        /\ input' = input
  BY <1>1, PartitionSteps
<1>3. PICK p : Splits(first, beyond, middle, p)
  BY <1>2
<1>4. /\ 1 <= first /\ first <= middle /\ middle < beyond
      /\ beyond <= Len(input) + 1
      /\ 1 \in DOMAIN calls
      /\ \A n \in DOMAIN calls' :
           \/ n = 1
           \/ n = 2
           \/ n > 2 /\ n - 1 \in DOMAIN calls /\ n - 1 > 1 /\ calls'[n] = calls[n - 1]
      /\ DOMAIN calls' \subseteq Nat
  BY <1>1, <1>2, <1>3, CallsAfter, CallsKnown
<1>5. /\ calls[1].first = first /\ calls[1].beyond = beyond
      /\ calls'[1].first = first /\ calls'[1].beyond = middle
      /\ calls'[1].depth = calls[1].depth + 1
      /\ calls'[2].first = IF first + 1 > middle THEN first + 1 ELSE middle
      /\ calls'[2].beyond = beyond
      /\ calls'[2].depth = calls[1].depth + 1
  BY <1>2 DEF Replaces
<1>6. Ordered'
  <2> SUFFICES ASSUME NEW n \in DOMAIN calls', NEW m \in DOMAIN calls', n < m
               PROVE  calls'[n].beyond <= calls'[m].first
    BY DEF Ordered
  <2>1. CASE m = 1
    BY <1>4, <2>1
  <2>2. CASE m = 2
    BY <1>4, <1>5, <2>2
  <2>3. CASE m > 2 /\ n <= 2
    <3>1. /\ m - 1 \in DOMAIN calls /\ 1 < m - 1 /\ calls'[m] = calls[m - 1]
      BY <1>4, <2>3
    <3>2. beyond <= calls'[m].first /\ calls'[m].first \in Nat
      BY <1>1, <1>4, <1>5, <3>1, CallsKnown DEF Ordered
    <3>3. calls'[n].beyond = middle \/ calls'[n].beyond = beyond
      BY <1>4, <1>5, <2>3
    <3> QED BY <1>4, <3>2, <3>3
  <2>4. CASE m > 2 /\ n > 2
    <3>1. /\ m - 1 \in DOMAIN calls /\ calls'[m] = calls[m - 1]
          /\ n - 1 \in DOMAIN calls /\ calls'[n] = calls[n - 1]
          /\ n - 1 < m - 1
      BY <1>4, <2>4
    <3> QED BY <1>1, <3>1 DEF Ordered
  <2> QED BY <1>4, <2>1, <2>2, <2>3, <2>4
<1>7. DepthLeft'
  <2>0. /\ Len(input) \in Nat /\ calls[1].depth \in Nat
        /\ calls[1].depth + (beyond - first) <= Len(input)
    BY <1>1, <1>4, <1>5, CallsKnown DEF DepthLeft
  <2> SUFFICES ASSUME NEW n \in DOMAIN calls'
               PROVE  calls'[n].depth + (calls'[n].beyond - calls'[n].first) <= Len(input)
    BY <1>2 DEF DepthLeft
  <2>1. CASE n = 1
    BY <2>0, <2>1, <1>4, <1>5
  <2>2. CASE n = 2
    BY <2>0, <2>2, <1>4, <1>5
  <2>3. CASE n - 1 \in DOMAIN calls /\ calls'[n] = calls[n - 1]
    BY <2>3, <1>1 DEF DepthLeft
  <2> QED BY <1>4, <2>1, <2>2, <2>3
<1> QED BY <1>6, <1>7

(* Elements in the wrong order after a partition are both in one part, or  *)
(* in the range of another call as before.                                 *)
LEMMA PartitionKeepsPlaces ==
  ASSUME SortInv, Partition
  PROVE  Placed'
<1>1. SortTypeOK /\ Ordered /\ Placed
  BY DEF SortInv
<1>2. PICK first, beyond, middle \in Nat :
        /\ \E p : Splits(first, beyond, middle, p)
        /\ Replaces(first, beyond, middle)
        /\ array' \in [DOMAIN input -> Values]
        /\ input' = input
  BY <1>1, PartitionSteps
<1>3. PICK p : Splits(first, beyond, middle, p)
  BY <1>2
<1> DEFINE range == first..beyond-1
<1>4. /\ 1 <= first /\ first <= middle /\ middle < beyond
      /\ beyond <= Len(input) + 1
      /\ 1 \in DOMAIN calls /\ 1 \in DOMAIN calls' /\ 2 \in DOMAIN calls'
      /\ \A n \in DOMAIN calls :
           n # 1 => n + 1 \in DOMAIN calls' /\ calls'[n + 1] = calls[n]
      /\ DOMAIN calls \subseteq Nat
  BY <1>1, <1>2, <1>3, CallsAfter, CallsKnown
<1>5. /\ calls[1].first = first /\ calls[1].beyond = beyond
      /\ calls'[1].first = first /\ calls'[1].beyond = middle
      /\ calls'[2].first = IF first + 1 > middle THEN first + 1 ELSE middle
      /\ calls'[2].beyond = beyond
  BY <1>2 DEF Replaces
<1>6. /\ Len(input) \in Nat
      /\ DOMAIN array = 1..Len(input)
      /\ DOMAIN array' = 1..Len(input)
      /\ \A k \in 1..Len(input) : array[k] \in Int
      /\ \A k \in 1..Len(input) : array'[k] \in Int
  <2>1. /\ Len(input) \in Nat /\ DOMAIN array = 1..Len(input)
        /\ DOMAIN input = 1..Len(input)
        /\ \A k \in 1..Len(input) : array[k] \in Int
    BY <1>1, CallsKnown
  <2>2. \A k \in 1..Len(input) : array'[k] \in Int
    BY <1>2, <2>1, QuickSortAssumption
  <2> QED BY <1>2, <2>1, <2>2
<1>7. /\ \A k \in range : p[k] \in range /\ array'[k] = array[p[k]]
      /\ \A k \in 1..Len(input) : k \notin range => array'[k] = array[k]
      /\ \A k \in range :
           IF k < middle THEN array'[k] < array[first] ELSE array'[k] >= array[first]
      /\ middle = first => \A k \in 1..Len(input) : array'[k] = array[k]
  <2>1. p \in Bijection(range, range)
    BY <1>3 DEF Splits
  <2>2. \A k \in range : p[k] \in range
    <3> HIDE DEF range
    <3> QED BY <2>1, Fun_BijectionProperties
  <2>3. range \subseteq 1..Len(input)
    BY <1>4, <1>6
  <2> QED BY <1>3, <2>2, <2>3 DEF Splits
<1> SUFFICES ASSUME NEW k \in 1..Len(input), NEW l \in 1..Len(input), k < l,
                    ~(array'[k] <= array'[l])
             PROVE  \E n \in DOMAIN calls' :
                      calls'[n].first <= k /\ l < calls'[n].beyond
  BY <1>6 DEF Placed
<1>8. ASSUME NEW i \in 1..Len(input), NEW j \in 1..Len(input),
             i < j, ~(array[i] <= array[j])
      PROVE  \E n \in DOMAIN calls :
               calls[n].first <= i /\ j < calls[n].beyond
  BY <1>1, <1>6, <1>8 DEF Placed
(* A call other than the first whose range a pair is in is still there.    *)
<1>9. ASSUME NEW n \in DOMAIN calls, n # 1,
             calls[n].first <= k, l < calls[n].beyond
      PROVE  \E m \in DOMAIN calls' :
               calls'[m].first <= k /\ l < calls'[m].beyond
  BY <1>4, <1>9
(* The range of no other call meets the range of the first.                *)
<1>10. \A n \in DOMAIN calls : n # 1 => beyond <= calls[n].first /\ calls[n].first \in Nat
  <2>1. \A n \in DOMAIN calls : n # 1 => 1 < n
    BY <1>1, CallsKnown
  <2> QED BY <1>1, <1>4, <1>5, <2>1, CallsKnown DEF Ordered
<1>11. CASE k \in range /\ l \in range
  <2>1. CASE l < middle
    BY <2>1, <1>4, <1>5, <1>11
  <2>2. CASE k < middle /\ middle <= l
    <3>1. array'[k] < array[first] /\ array'[l] >= array[first]
      BY <2>2, <1>4, <1>7, <1>11
    <3>2. array[first] \in Int
      BY <1>4, <1>6
    <3> QED BY <3>1, <3>2, <1>6
  <2>3. CASE middle <= k /\ k >= first + 1
    BY <2>3, <1>4, <1>5, <1>11
  <2>4. CASE middle <= k /\ k = first
    <3>1. middle = first
      BY <2>4, <1>4
    <3>2. array'[k] = array[first] /\ array'[l] >= array[first]
      BY <2>4, <3>1, <1>4, <1>7, <1>11
    <3>3. array[first] \in Int
      BY <1>4, <1>6
    <3> QED BY <3>2, <3>3, <1>6
  <2>5. /\ l < middle \/ middle <= l
        /\ k < middle \/ middle <= k
        /\ k = first \/ k >= first + 1
    BY <1>4, <1>11
  <2> QED BY <2>1, <2>2, <2>3, <2>4, <2>5
<1>12. CASE k \in range /\ l \notin range
  <2>1. p[k] \in 1..Len(input) /\ p[k] < l /\ first <= p[k] /\ p[k] < beyond /\ beyond <= l
    <3>1. p[k] \in range
      BY <1>7, <1>12
    <3>2. beyond <= l
      BY <1>4, <1>12
    <3>3. PICK N \in Nat : N = Len(input)
      BY <1>6
    <3>4. 1 <= first /\ beyond <= N + 1
      BY <1>4, <3>3
    <3>5. p[k] \in 1..N /\ p[k] < l /\ first <= p[k] /\ p[k] < beyond
      BY <3>1, <3>2, <3>4
    <3> QED BY <3>2, <3>3, <3>5
  <2>2. ~(array[p[k]] <= array[l])
    BY <1>7, <1>12
  <2>3. PICK n \in DOMAIN calls : calls[n].first <= p[k] /\ l < calls[n].beyond
    BY <1>8, <2>1, <2>2
  <2>4. n # 1
    BY <1>5, <2>1, <2>3
  <2> QED BY <1>10, <2>1, <2>3, <2>4
<1>13. CASE k \notin range /\ l \in range
  <2>1. p[l] \in 1..Len(input) /\ k < p[l] /\ first <= p[l] /\ p[l] < beyond /\ k < first
    <3>1. p[l] \in range
      BY <1>7, <1>13
    <3>2. k < first
      BY <1>4, <1>13
    <3>3. PICK N \in Nat : N = Len(input)
      BY <1>6
    <3>4. 1 <= first /\ beyond <= N + 1
      BY <1>4, <3>3
    <3>5. p[l] \in 1..N /\ k < p[l] /\ first <= p[l] /\ p[l] < beyond
      BY <3>1, <3>2, <3>4
    <3> QED BY <3>2, <3>3, <3>5
  <2>2. ~(array[k] <= array[p[l]])
    BY <1>7, <1>13
  <2>3. PICK n \in DOMAIN calls : calls[n].first <= k /\ p[l] < calls[n].beyond
    BY <1>8, <2>1, <2>2
  <2>4. n # 1
    BY <1>5, <2>1, <2>3
  <2> QED BY <1>4, <1>10, <2>1, <2>3, <2>4
<1>14. CASE k \notin range /\ l \notin range
  <2>1. PICK n \in DOMAIN calls : calls[n].first <= k /\ l < calls[n].beyond
    BY <1>7, <1>8, <1>14
  <2>2. n # 1
    BY <1>4, <1>5, <1>14, <2>1
  <2> QED BY <1>9, <2>1, <2>2
<1> QED BY <1>11, <1>12, <1>13, <1>14

-----------------------------------------------------------------------------
(* The theorems.                                                           *)

LEMMA SortInvInit == SortInit => SortInv
<1> SUFFICES ASSUME SortInit PROVE SortInv
  OBVIOUS
<1>1. PICK n \in 0..MaxLength : input \in [1..n -> Values]
  BY DEF SortInit
<1>2. n \in Nat
  BY QuickSortAssumption
<1>3. input \in Seq(Values) /\ Len(input) = n /\ DOMAIN input = 1..n
  BY <1>1, <1>2
<1>4. /\ array = input /\ comparisons = 0
      /\ calls = <<[first |-> 1, beyond |-> n + 1, depth |-> 0]>>
  BY <1>3 DEF SortInit
<1> DEFINE c == [first |-> 1, beyond |-> n + 1, depth |-> 0]
<1>5. c \in Call /\ c.first = 1 /\ c.beyond = n + 1 /\ c.depth = 0
  BY <1>2 DEF Call
<1> HIDE DEF c
<1>6. calls \in Seq(Call) /\ DOMAIN calls = {1} /\ calls[1] = c
  BY <1>4, <1>5 DEF c
<1>7. SortTypeOK
  BY <1>1, <1>2, <1>3, <1>4, <1>5, <1>6 DEF SortTypeOK
<1>8. Ordered /\ DepthLeft
  BY <1>2, <1>3, <1>5, <1>6 DEF Ordered, DepthLeft
<1>9. Placed
  BY <1>2, <1>3, <1>4, <1>5, <1>6 DEF Placed
<1> QED BY <1>7, <1>8, <1>9 DEF SortInv

LEMMA SortInvStep == SortInv /\ [SortNext]_sortVars => SortInv'
<1> SUFFICES ASSUME SortInv, [SortNext]_sortVars PROVE SortInv'
  OBVIOUS
<1>1. CASE Return
  BY <1>1, ReturnKeepsInv
<1>2. CASE Partition
  BY <1>2, PartitionKeepsTypes, PartitionKeepsOrder, PartitionKeepsPlaces
  DEF SortInv
<1>3. CASE UNCHANGED sortVars
  BY <1>3 DEF SortInv, SortTypeOK, Ordered, Placed, DepthLeft, sortVars
<1> QED BY <1>1, <1>2, <1>3 DEF SortNext

THEOREM SortInvariance == SortSpec => []SortInv
BY SortInvInit, SortInvStep, PTL DEF SortSpec

(* Every call that is ever made has a range within the array.              *)
THEOREM RangesAreValid == SortSpec => []SortTypeOK
<1>1. SortInv => SortTypeOK
  BY DEF SortInv
<1> QED BY <1>1, SortInvariance, PTL

(* When the outermost call returns, no call is left that a pair in the     *)
(* wrong order could be in: quick_sort sorts arrays of every length.       *)
THEOREM QuickSortSorts == SortSpec => []ReturnsSorted
<1>1. SortInv => ReturnsSorted
  BY DEF SortInv, Placed, ReturnsSorted
<1> QED BY <1>1, SortInvariance, PTL

(* No recursion is deeper than the number of elements, whatever the pivots *)
(* are: std::max(first + 1, middle) makes every range smaller.             *)
THEOREM RecursionIsBounded == SortSpec => []DepthBounded
<1>1. SortInv => DepthBounded
  <2> SUFFICES ASSUME SortInv, NEW n \in DOMAIN calls
               PROVE  calls[n].depth <= Len(input)
    BY DEF DepthBounded
  <2> QED BY CallsKnown DEF SortInv, DepthLeft
<1> QED BY <1>1, SortInvariance, PTL

-----------------------------------------------------------------------------
(* The number of comparisons.                                              *)

(* Twice the comparisons that sorting n elements may cost.                 *)
Cost(n) == IF n = 0 THEN 0 ELSE n * n + 3 * n - 2

(* rest[n] pays for the n-th call to come and those after it.              *)
Pays(rest) ==
  /\ rest \in [1..Len(calls)+1 -> Nat]
  /\ 2 * comparisons + rest[1] <= Cost(Len(input))
  /\ \A n \in 1..Len(calls) :
       rest[n] >= rest[n+1] + Cost(calls[n].beyond - calls[n].first)

Paid == \E rest : Pays(rest)

LEMMA CostType ==
  ASSUME NEW n \in Nat
  PROVE  Cost(n) \in Nat
<1>1. CASE n = 0
  BY <1>1 DEF Cost
<1>2. CASE n >= 1
  <2>1. n * n \in Nat /\ n * n >= 1
    BY <1>2
  <2> QED BY <1>2, <2>1 DEF Cost
<1> QED BY <1>1, <1>2

(* A call that partitions pays for its comparisons and its recursive calls.*)
LEMMA CostOfParts ==
  ASSUME NEW a \in Nat, NEW b \in Nat, b >= 1
  PROVE  Cost(a + b) >=
           2 * (a + b) + Cost(a) + Cost(IF a = 0 THEN b - 1 ELSE b)
<1>1. CASE a = 0 /\ b = 1
  BY <1>1 DEF Cost
<1>2. CASE a = 0 /\ b >= 2
  <2>1. (b - 1) * (b - 1) = b * b - 2 * b + 1
    OBVIOUS
  <2>2. b * b \in Nat
    OBVIOUS
  <2> QED BY <1>2, <2>1, <2>2 DEF Cost
<1>3. CASE a >= 1
  <2>1. (a + b) * (a + b) = a * a + 2 * (a * b) + b * b
    OBVIOUS
  <2>2. a * b >= a + b - 1
    <3>1. PICK i \in Nat : a = i + 1
      <4>1. a - 1 \in Nat /\ a = (a - 1) + 1
        BY <1>3
      <4> QED BY <4>1
    <3>2. PICK j \in Nat : b = j + 1
      <4>1. b - 1 \in Nat /\ b = (b - 1) + 1
        OBVIOUS
      <4> QED BY <4>1
    <3>3. (i + 1) * (j + 1) = i * j + i + j + 1 /\ i * j >= 0
      OBVIOUS
    <3> QED BY <3>1, <3>2, <3>3
  <2>3. PICK x, y, z \in Nat : x = a * a /\ y = b * b /\ z = a * b
    OBVIOUS
  <2>4. Cost(a + b) = x + 2 * z + y + 3 * (a + b) - 2
    BY <1>3, <2>1, <2>3 DEF Cost
  <2>5. Cost(a) = x + 3 * a - 2 /\ Cost(b) = y + 3 * b - 2
    BY <1>3, <2>3 DEF Cost
  <2>6. z >= a + b - 1
    BY <2>2, <2>3
  <2> QED BY <1>3, <2>4, <2>5, <2>6
<1> QED BY <1>1, <1>2, <1>3

LEMMA PaidInit == SortInit => Paid
<1> SUFFICES ASSUME SortInit PROVE Paid
  OBVIOUS
<1>1. SortInv
  BY SortInvInit
<1>2. PICK N \in Nat : N = Len(input)
  BY <1>1, CallsKnown DEF SortInv
<1>3. /\ calls = <<[first |-> 1, beyond |-> N + 1, depth |-> 0]>>
      /\ comparisons = 0
  BY <1>2 DEF SortInit
<1>4. Len(calls) = 1 /\ calls[1].beyond - calls[1].first = N
  BY <1>2, <1>3
<1> DEFINE rest == [n \in 1..2 |-> IF n = 1 THEN Cost(N) ELSE 0]
<1>5. rest \in [1..2 -> Nat] /\ rest[1] = Cost(N) /\ rest[2] = 0
  BY <1>2, CostType
<1> HIDE DEF rest
<1>6. Cost(N) \in Nat
  BY CostType
<1>7. Pays(rest)
  BY <1>2, <1>3, <1>4, <1>5, <1>6 DEF Pays
<1> QED BY <1>7 DEF Paid

LEMMA ReturnPays ==
  ASSUME SortInv, Paid, Return
  PROVE  Paid'
<1>0. SortTypeOK
  BY DEF SortInv
<1>1. PICK rest : Pays(rest)
  BY DEF Paid
<1>2. /\ calls # <<>> /\ calls[1].first = calls[1].beyond
      /\ Len(calls') = Len(calls) - 1
      /\ \A n \in 1..Len(calls) - 1 : calls'[n] = calls[n + 1]
      /\ UNCHANGED <<input, array, comparisons>>
  BY <1>0, ReturnSteps
<1>3. PICK L \in Nat : L = Len(calls) /\ L >= 1 /\ calls[1].first \in Nat
  BY <1>0, <1>2, CallsKnown, FirstCall
<1>4. /\ rest \in [1..L+1 -> Nat]
      /\ 2 * comparisons + rest[1] <= Cost(Len(input))
      /\ \A n \in 1..L :
           rest[n] >= rest[n+1] + Cost(calls[n].beyond - calls[n].first)
  BY <1>1, <1>3 DEF Pays
<1> DEFINE new == [n \in 1..L |-> rest[n+1]]
<1>5. new \in [1..L -> Nat] /\ \A n \in 1..L : new[n] = rest[n+1]
  BY <1>4
<1>6. rest[1] >= rest[2]
  <2>1. rest[1] >= rest[1+1] + Cost(calls[1].beyond - calls[1].first)
    BY <1>3, <1>4
  <2>2. Cost(calls[1].beyond - calls[1].first) = 0
    BY <1>2, <1>3 DEF Cost
  <2> QED BY <1>3, <1>4, <2>1, <2>2
<1> HIDE DEF new
<1>7. 2 * comparisons + new[1] <= Cost(Len(input))
  <2>0. /\ Cost(Len(input)) \in Nat
        /\ rest[1] \in Nat /\ rest[2] \in Nat
    <3>1. Cost(Len(input)) \in Nat
      BY <1>0, CallsKnown, CostType
    <3> QED BY <1>3, <1>4, <3>1
  <2>1. PICK r1, r2, C \in Nat : /\ r1 = rest[1] /\ r2 = rest[2]
                                 /\ C = Cost(Len(input))
    BY <2>0, Zenon
  <2>2. new[1] = r2
    BY <1>3, <1>5, <2>1
  <2>3. comparisons \in Nat
    BY <1>0 DEF SortTypeOK
  <2>4. 2 * comparisons + r2 <= C
    BY <1>4, <1>6, <2>1, <2>3
  <2> QED BY <2>1, <2>2, <2>4
<1>8. ASSUME NEW n \in 1..L-1
      PROVE  new[n] >= new[n+1] + Cost(calls'[n].beyond - calls'[n].first)
  <2>1. n + 1 \in 1..L /\ n \in 1..L
    BY <1>3
  <2>2. rest[n+1] >= rest[(n+1)+1] + Cost(calls[n+1].beyond - calls[n+1].first)
    BY <1>4, <2>1
  <2>3. calls'[n] = calls[n+1]
    BY <1>2, <1>3
  <2> QED BY <1>5, <2>1, <2>2, <2>3
<1>9. Pays(new)'
  <2>1. Len(calls') = L - 1 /\ (L - 1) + 1 = L
    BY <1>2, <1>3
  <2>2. input' = input /\ comparisons' = comparisons
    BY <1>2
  <2> QED BY <1>5, <1>7, <1>8, <2>1, <2>2 DEF Pays
<1> QED BY <1>9 DEF Paid

LEMMA PartitionPays ==
  ASSUME SortInv, Paid, Partition
  PROVE  Paid'
<1>0. SortTypeOK
  BY DEF SortInv
<1>1. PICK rest : Pays(rest)
  BY DEF Paid
<1>2. PICK first, beyond, middle \in Nat :
        /\ \E p : Splits(first, beyond, middle, p)
        /\ Replaces(first, beyond, middle)
        /\ input' = input
  BY <1>0, PartitionSteps
<1>3. PICK p : Splits(first, beyond, middle, p)
  BY <1>2
<1>4. 1 <= first /\ first <= middle /\ middle < beyond
  BY <1>0, <1>2, <1>3, CallsAfter
<1>5. PICK a, b \in Nat : a = middle - first /\ b = beyond - middle /\ b >= 1
  BY <1>4
<1> DEFINE c == IF a = 0 THEN b - 1 ELSE b
<1>6. /\ calls # <<>>
      /\ calls[1].beyond - calls[1].first = a + b
      /\ Len(calls') = Len(calls) + 1
      /\ calls'[1].beyond - calls'[1].first = a
      /\ calls'[2].beyond - calls'[2].first = c
      /\ \A n \in 3..Len(calls) + 1 : calls'[n] = calls[n - 1]
  <2>1. /\ calls # <<>> /\ calls[1].first = first /\ calls[1].beyond = beyond
        /\ Len(calls') = Len(calls) + 1
        /\ calls'[1].first = first /\ calls'[1].beyond = middle
        /\ calls'[2].first = IF first + 1 > middle THEN first + 1 ELSE middle
        /\ calls'[2].beyond = beyond
        /\ \A n \in 3..Len(calls) + 1 : calls'[n] = calls[n - 1]
    BY <1>2 DEF Replaces
  <2>2. /\ beyond - first = a + b /\ middle - first = a
        /\ beyond - (IF first + 1 > middle THEN first + 1 ELSE middle) = c
    BY <1>4, <1>5
  <2> HIDE DEF c
  <2> QED BY <2>1, <2>2
<1>7. comparisons' = comparisons + (a + b) /\ comparisons \in Nat
  <2>1. Head(calls) = calls[1]
    BY <1>0, <1>6, FirstCall
  <2> QED BY <1>0, <1>6, <2>1 DEF Partition, SortTypeOK
<1>8. c \in Nat
  BY <1>5
<1>9. Cost(a + b) >= 2 * (a + b) + Cost(a) + Cost(c)
  BY <1>5, CostOfParts
<1> HIDE DEF c
<1>10. PICK A, C, S, T \in Nat :
         A = Cost(a) /\ C = Cost(c) /\ S = Cost(a + b) /\ T = Cost(Len(input))
  <2>1. Len(input) \in Nat /\ a + b \in Nat
    BY <1>0, CallsKnown
  <2>2. /\ Cost(a) \in Nat /\ Cost(c) \in Nat
        /\ Cost(a + b) \in Nat /\ Cost(Len(input)) \in Nat
    BY <1>8, <2>1, CostType, Zenon
  <2> QED BY <2>2, Zenon
<1>11. PICK L \in Nat : L = Len(calls) /\ L >= 1
  <2>1. Len(calls) \in Nat /\ 1 \in 1..Len(calls)
    BY <1>0, <1>6, CallsKnown, FirstCall, Zenon
  <2>2. Len(calls) >= 1
    BY <2>1
  <2> QED BY <2>1, <2>2, Zenon
<1>12. /\ rest \in [1..L+1 -> Nat]
       /\ 2 * comparisons + rest[1] <= T
       /\ \A n \in 1..L :
            rest[n] >= rest[n+1] + Cost(calls[n].beyond - calls[n].first)
  BY <1>1, <1>10, <1>11 DEF Pays
<1>13. PICK r1, r2 \in Nat : r1 = rest[1] /\ r2 = rest[2]
  BY <1>11, <1>12
<1>14. r1 >= r2 + S
  <2>1. rest[1] >= rest[1+1] + Cost(calls[1].beyond - calls[1].first)
    BY <1>11, <1>12
  <2>2. 1 + 1 = 2
    OBVIOUS
  <2> QED BY <1>6, <1>10, <1>13, <2>1, <2>2
<1> DEFINE new == [n \in 1..L+2 |-> IF n = 1 THEN r2 + C + A
                                     ELSE IF n = 2 THEN r2 + C ELSE rest[n-1]]
<1>15. /\ new \in [1..L+2 -> Nat]
       /\ new[1] = r2 + C + A /\ new[2] = r2 + C
       /\ \A n \in 3..L+2 : new[n] = rest[n-1]
  <2>1. \A n \in 1..L+2 : n # 1 => n - 1 \in 1..L+1
    BY <1>11
  <2>2. \A n \in 1..L+2 : n # 1 => rest[n-1] \in Nat
    BY <1>12, <2>1
  <2>3. new \in [1..L+2 -> Nat]
    <3>1. r2 + C + A \in Nat /\ r2 + C \in Nat
      OBVIOUS
    <3>2. \A n \in 1..L+2 :
            (IF n = 1 THEN r2 + C + A
             ELSE IF n = 2 THEN r2 + C ELSE rest[n-1]) \in Nat
      BY <2>2, <3>1, Zenon
    <3> QED BY <3>2, Zenon
  <2>4. new[1] = r2 + C + A /\ new[2] = r2 + C
    BY <1>11
  <2>5. \A n \in 3..L+2 : new[n] = rest[n-1]
    OBVIOUS
  <2> QED BY <2>3, <2>4, <2>5
<1> HIDE DEF new
<1>16. 2 * (comparisons + (a + b)) + new[1] <= T
  <2>1. 2 * comparisons + r1 <= T
    BY <1>12, <1>13
  <2>2. S >= 2 * (a + b) + A + C
    BY <1>9, <1>10
  <2>3. comparisons \in Nat /\ new[1] = r2 + C + A
    BY <1>7, <1>15
  <2> QED BY <1>14, <2>1, <2>2, <2>3
<1>17. new[1] >= new[2] + A
  BY <1>10, <1>13, <1>15
<1>18. new[3] = r2
  <2>1. 3 \in 3..L+2 /\ 3 - 1 = 2
    BY <1>11
  <2>2. new[3] = rest[3 - 1]
    BY <1>15, <2>1
  <2> QED BY <1>13, <2>1, <2>2
<1>19. new[2] >= new[3] + C
  BY <1>10, <1>13, <1>15, <1>18
<1>20. ASSUME NEW n \in 3..L+1
       PROVE  new[n] >= new[n+1] + Cost(calls'[n].beyond - calls'[n].first)
  <2>1. n - 1 \in 1..L /\ (n - 1) + 1 = n /\ (n + 1) - 1 = n
        /\ n \in 3..L+2 /\ n + 1 \in 3..L+2
    BY <1>11
  <2>2. rest[n-1] >= rest[(n-1)+1] + Cost(calls[n-1].beyond - calls[n-1].first)
    BY <1>12, <2>1
  <2>3. calls'[n] = calls[n-1]
    BY <1>6, <1>11
  <2>4. new[n] = rest[n-1] /\ new[n+1] = rest[n]
    BY <1>15, <2>1
  <2> QED BY <2>1, <2>2, <2>3, <2>4
<1>21. Pays(new)'
  <2>1. Len(calls') = L + 1 /\ (L + 1) + 1 = L + 2
    BY <1>6, <1>11
  <2>2. \A n \in 1..L+1 :
          new[n] >= new[n+1] + Cost(calls'[n].beyond - calls'[n].first)
    <3>1. new[1] >= new[1+1] + Cost(calls'[1].beyond - calls'[1].first)
      BY <1>6, <1>10, <1>17
    <3>2. new[2] >= new[2+1] + Cost(calls'[2].beyond - calls'[2].first)
      BY <1>6, <1>10, <1>19
    <3>3. \A n \in 1..L+1 : n = 1 \/ n = 2 \/ n \in 3..L+1
      BY <1>11
    <3> QED BY <1>20, <3>1, <3>2, <3>3
  <2>3. 2 * comparisons' + new[1] <= Cost(Len(input'))
    BY <1>2, <1>7, <1>10, <1>16
  <2> QED BY <1>15, <2>1, <2>2, <2>3 DEF Pays
<1> QED BY <1>21 DEF Paid

LEMMA PaidIsBounded == SortInv /\ Paid => ComparisonsBounded
<1> SUFFICES ASSUME SortInv, Paid PROVE ComparisonsBounded
  OBVIOUS
<1>0. SortTypeOK
  BY DEF SortInv
<1>1. PICK rest : Pays(rest)
  BY DEF Paid
<1>2. PICK N, L \in Nat : N = Len(input) /\ L = Len(calls)
  BY <1>0, CallsKnown
<1>3. rest[1] \in Nat
  BY <1>1, <1>2 DEF Pays
<1>4. PICK k \in Nat : k = comparisons
  BY <1>0 DEF SortTypeOK
<1> SUFFICES ASSUME N > 0 PROVE k <= (N * (N + 1)) \div 2 + N - 1
  BY <1>2, <1>4 DEF ComparisonsBounded
<1>5. PICK M \in Nat : M = N * (N + 1)
  OBVIOUS
<1>6. Cost(N) = M + 2 * N - 2
  <2>1. N * (N + 1) = N * N + N
    OBVIOUS
  <2>2. N * N \in Nat
    OBVIOUS
  <2> QED BY <1>5, <2>1, <2>2 DEF Cost
<1>7. 2 * k <= M + 2 * N - 2
  <2>1. 2 * k + rest[1] <= Cost(N)
    BY <1>1, <1>2, <1>4 DEF Pays
  <2> QED BY <1>3, <1>6, <2>1
<1>8. k <= M \div 2 + N - 1
  BY <1>7
<1> QED BY <1>5, <1>8

(* No order of the input and no choice of std::partition makes quick_sort  *)
(* call less more often: what a call may still cost covers its own         *)
(* comparisons and what its two calls may cost.                            *)
THEOREM ComparisonsAreBounded == SortSpec => []ComparisonsBounded
<1>1. SortInv /\ Paid /\ [SortNext]_sortVars => Paid'
  <2> SUFFICES ASSUME SortInv, Paid, [SortNext]_sortVars PROVE Paid'
    OBVIOUS
  <2>1. CASE UNCHANGED sortVars
    BY <2>1 DEF sortVars, Paid, Pays
  <2> QED BY <2>1, ReturnPays, PartitionPays DEF SortNext
<1> QED BY <1>1, PaidInit, PaidIsBounded, SortInvariance, PTL DEF SortSpec

=============================================================================
