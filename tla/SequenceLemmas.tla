--------------------------- MODULE SequenceLemmas ---------------------------
(***************************************************************************)
(* Facts about the operators on sequences that the models are built from.  *)
(***************************************************************************)
EXTENDS Naturals, Sequences, SequencesExt, TLAPS, SequenceTheorems

(* No element of q is in it twice.                                         *)
NoDuplicates(q) == \A i, j \in DOMAIN q : q[i] = q[j] => i = j

-----------------------------------------------------------------------------
(* RemoveAt closes the gap it makes.                                       *)
LEMMA RemoveAtProperties ==
  ASSUME NEW S, NEW s \in Seq(S), NEW i \in 1..Len(s)
  PROVE  /\ RemoveAt(s, i) \in Seq(S)
         /\ Len(RemoveAt(s, i)) = Len(s) - 1
         /\ \A j \in 1..Len(s) - 1 :
              RemoveAt(s, i)[j] = s[IF j < i THEN j ELSE j + 1]
<1> DEFINE front == SubSeq(s, 1, i - 1)
           back  == SubSeq(s, i + 1, Len(s))
<1>0. Len(s) \in Nat /\ i \in Int /\ \A j \in 1..Len(s) : s[j] \in S
  BY ElementOfSeq, LenProperties
<1>1. /\ front \in Seq(S)
      /\ Len(front) = i - 1
      /\ \A j \in 1..i-1 : front[j] = s[j]
  <2>1. \A j \in 1..i-1 : s[j] \in S
    BY <1>0
  <2>2. 1 \in Int /\ i - 1 \in Int
    BY <1>0
  <2>3. /\ front \in Seq(S)
        /\ Len(front) = IF 1 <= i - 1 THEN i - 1 - 1 + 1 ELSE 0
        /\ \A j \in 1 .. i - 1 - 1 + 1 : front[j] = s[1 + j - 1]
    BY <2>1, <2>2, SubSeqProperties
  <2> HIDE DEF front
  <2> QED BY <2>3, <1>0
<1>2. /\ back \in Seq(S)
      /\ Len(back) = Len(s) - i
      /\ \A j \in 1..Len(s)-i : back[j] = s[i + j]
  <2>1. \A j \in i+1..Len(s) : s[j] \in S
    BY <1>0
  <2>2. i + 1 \in Int /\ Len(s) \in Int
    BY <1>0
  <2>3. /\ back \in Seq(S)
        /\ Len(back) = IF i + 1 <= Len(s) THEN Len(s) - (i + 1) + 1 ELSE 0
        /\ \A j \in 1 .. Len(s) - (i + 1) + 1 : back[j] = s[i + 1 + j - 1]
    BY <2>1, <2>2, SubSeqProperties
  <2> HIDE DEF back
  <2>4. Len(back) = Len(s) - i
    BY <1>0, <2>3
  <2>5. ASSUME NEW j \in 1..Len(s) - i
        PROVE  back[j] = s[i + j]
    <3>1. j \in 1 .. Len(s) - (i + 1) + 1 /\ i + 1 + j - 1 = i + j
      BY <1>0
    <3> QED BY <2>3, <3>1
  <2> QED BY <2>3, <2>4, <2>5
<1>3. RemoveAt(s, i) = front \o back
  BY DEF RemoveAt
<1> HIDE DEF front, back
<1>4. /\ front \o back \in Seq(S)
      /\ Len(front \o back) = Len(front) + Len(back)
      /\ \A j \in 1 .. Len(front) + Len(back) :
           (front \o back)[j] =
             IF j <= Len(front) THEN front[j] ELSE back[j - Len(front)]
  BY <1>1, <1>2, ConcatProperties
<1>5. ASSUME NEW j \in 1..Len(s) - 1
      PROVE  (front \o back)[j] = s[IF j < i THEN j ELSE j + 1]
  BY <1>0, <1>1, <1>2, <1>4
<1> QED BY <1>0, <1>1, <1>2, <1>3, <1>4, <1>5

-----------------------------------------------------------------------------
(* Reverse, and what it makes of a sequence that changes at its front.     *)

LEMMA ReverseProperties ==
  ASSUME NEW S, NEW q \in Seq(S)
  PROVE  /\ Reverse(q) \in Seq(S)
         /\ Len(Reverse(q)) = Len(q)
         /\ DOMAIN Reverse(q) = 1..Len(q)
         /\ \A i \in 1..Len(q) : Reverse(q)[i] = q[Len(q) - i + 1]
<1>1. Len(q) \in Nat /\ q \in [1..Len(q) -> S]
  BY LenProperties
<1>2. Reverse(q) = [i \in 1..Len(q) |-> q[(Len(q) - i) + 1]]
  BY DEF Reverse
<1>3. Reverse(q) \in [1..Len(q) -> S]
  BY <1>1, <1>2
<1>4. Reverse(q) \in Seq(S) /\ Len(Reverse(q)) = Len(q)
  BY <1>1, <1>3
<1> QED BY <1>1, <1>2, <1>4

LEMMA ReversePush ==
  ASSUME NEW S, NEW q \in Seq(S), NEW t \in S
  PROVE  Reverse(<<t>> \o q) = Append(Reverse(q), t)
<1> DEFINE p == <<t>> \o q
<1>0. Len(q) \in Nat /\ <<t>> \in Seq(S) /\ Len(<<t>>) = 1 /\ <<t>>[1] = t
  BY LenProperties
<1>1. /\ p \in Seq(S)
      /\ Len(p) = Len(<<t>>) + Len(q)
      /\ \A j \in 1 .. Len(<<t>>) + Len(q) :
           p[j] = IF j <= Len(<<t>>) THEN <<t>>[j] ELSE q[j - Len(<<t>>)]
  BY <1>0, ConcatProperties
<1>2. /\ Len(p) = Len(q) + 1
      /\ p[1] = t
      /\ \A j \in 2..Len(q) + 1 : p[j] = q[j - 1]
  BY <1>0, <1>1
<1> HIDE DEF p
<1>3. /\ Reverse(p) \in Seq(S)
      /\ Len(Reverse(p)) = Len(q) + 1
      /\ \A i \in 1..Len(q) + 1 : Reverse(p)[i] = p[Len(q) + 1 - i + 1]
  BY <1>1, <1>2, ReverseProperties
<1>4. /\ Append(Reverse(q), t) \in Seq(S)
      /\ Len(Append(Reverse(q), t)) = Len(q) + 1
      /\ \A i \in 1..Len(q) : Append(Reverse(q), t)[i] = Reverse(q)[i]
      /\ Append(Reverse(q), t)[Len(q) + 1] = t
  BY ReverseProperties, AppendProperties
<1>5. \A i \in 1..Len(q) : Reverse(q)[i] = q[Len(q) - i + 1]
  BY ReverseProperties
<1>6. ASSUME NEW i \in 1..Len(q) + 1
      PROVE  Reverse(p)[i] = Append(Reverse(q), t)[i]
  <2>1. CASE i = Len(q) + 1
    BY <1>0, <1>2, <1>3, <1>4, <2>1
  <2>2. CASE i # Len(q) + 1
    <3>1. i \in 1..Len(q) /\ Len(q) + 1 - i + 1 \in 2..Len(q) + 1
      BY <1>0, <2>2
    <3>2. p[Len(q) + 1 - i + 1] = q[Len(q) - i + 1]
      BY <1>0, <1>2, <3>1
    <3> QED BY <1>3, <1>4, <1>5, <3>1, <3>2
  <2> QED BY <2>1, <2>2
<1>7. Reverse(p) = Append(Reverse(q), t)
  BY <1>3, <1>4, <1>6, SeqEqual
<1> QED BY <1>7 DEF p

LEMMA ReversePop ==
  ASSUME NEW S, NEW q \in Seq(S), Len(q) > 0
  PROVE  Reverse(RemoveAt(q, 1)) = RemoveAt(Reverse(q), Len(q))
<1> DEFINE n == Len(q)
           p == RemoveAt(q, 1)
           r == RemoveAt(Reverse(q), n)
<1>0. n \in Nat /\ 1 \in 1..n /\ n \in 1..n
  BY LenProperties
<1>1. /\ p \in Seq(S)
      /\ Len(p) = n - 1
      /\ \A j \in 1..n - 1 : p[j] = q[IF j < 1 THEN j ELSE j + 1]
  BY <1>0, RemoveAtProperties
<1>2. /\ Reverse(q) \in Seq(S)
      /\ Len(Reverse(q)) = n
      /\ \A i \in 1..n : Reverse(q)[i] = q[n - i + 1]
  BY ReverseProperties
<1>3. /\ r \in Seq(S)
      /\ Len(r) = n - 1
      /\ \A j \in 1..n - 1 : r[j] = Reverse(q)[IF j < n THEN j ELSE j + 1]
  BY <1>0, <1>2, RemoveAtProperties
<1> HIDE DEF n, p, r
<1>4. /\ Reverse(p) \in Seq(S)
      /\ Len(Reverse(p)) = n - 1
      /\ \A i \in 1..n - 1 : Reverse(p)[i] = p[n - 1 - i + 1]
  <2>1. /\ Reverse(p) \in Seq(S)
        /\ Len(Reverse(p)) = Len(p)
        /\ \A i \in 1..Len(p) : Reverse(p)[i] = p[Len(p) - i + 1]
    BY <1>1, ReverseProperties
  <2>2. Len(p) = n - 1
    BY <1>1
  <2> QED BY <2>1, <2>2
<1>5. ASSUME NEW i \in 1..n - 1
      PROVE  Reverse(p)[i] = r[i]
  <2>1. n - 1 - i + 1 \in 1..n - 1 /\ i \in 1..n /\ i < n
    BY <1>0
  <2>2. Reverse(p)[i] = q[n - i + 1]
    BY <1>0, <1>1, <1>4, <2>1
  <2>3. r[i] = q[n - i + 1]
    BY <1>2, <1>3, <2>1
  <2> QED BY <2>2, <2>3
<1>6. Reverse(p) = r
  BY <1>3, <1>4, <1>5, SeqEqual
<1> QED BY <1>6 DEF p, r, n

=============================================================================
