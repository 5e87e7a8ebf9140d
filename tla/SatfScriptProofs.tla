-------------------------- MODULE SatfScriptProofs --------------------------
(***************************************************************************)
(* Proofs about satf.sh, for any number of calls, any files and any local  *)
(* time.                                                                   *)
(***************************************************************************)
EXTENDS SatfScript, TLAPS, SequenceTheorems, FunctionTheorems, FiniteSetTheorems

(* ls names the directories by the second of their run, so none is of the  *)
(* future.                                                                 *)
ScriptTypeOK ==
  /\ now \in Seconds
  /\ arguments \in (0..MaxSize) \X (0..MaxSize)
  /\ DOMAIN logs \subseteq 1..now
  /\ \A t \in DOMAIN logs : logs[t] \in [Files -> Seq(Sizes)]
  /\ todo \subseteq DOMAIN FileNames
  /\ overall_max \in Nat
  /\ plot_line \in Seq([file : Files, comma : BOOLEAN])

(* The directory written last is the youngest.                             *)
NewestInv ==
  /\ DOMAIN logs # {} =>
       newest \in DOMAIN logs /\ \A s \in DOMAIN logs : s <= newest
  /\ NewestWithinMonth

(* The directory is there as long as the script works on it.               *)
ChosenInv ==
  pc = "sorting" \/ Plotting =>
    /\ chosen \in DOMAIN logs \/ chosen = 0
    /\ todo \subseteq Listed(chosen)

(* The file at position k has been sorted, and the range covers it.        *)
Handled(k) ==
  LET lines == Existing(chosen)[FileNames[k]]
  IN  /\ \A i, j \in DOMAIN lines : i < j => lines[i] <= lines[j]
      /\ \A i \in DOMAIN lines : Comparisons[lines[i]] <= overall_max

HandledInv ==
  /\ pc = "sorting" => \A k \in DOMAIN FileNames \ todo : Handled(k)
  /\ Plotting => overall_max > 0 /\ \A k \in DOMAIN FileNames : Handled(k)

(* Until the combined plot of the first DIR is drawn, the line has all its *)
(* commas and some file of that DIR is still to come or the last one in    *)
(* the line.                                                               *)
FirstDirInv(k) ==
  \/ FileNames[k][1] \in combined
  \/ /\ \A i \in DOMAIN plot_line : plot_line[i].comma
     /\ IF pc = "plotting"
        THEN \E j \in todo : FileNames[j][1] = FileNames[k][1]
        ELSE Last(plot_line).file[1] = FileNames[k][1]

PlotsInv ==
  /\ pc = "sorting" => plots = {} /\ plot_line = <<>>
  /\ pc = "combining" => plot_line # <<>>
  /\ Plotting =>
       /\ plots = {FileNames[k] : k \in Listed(chosen) \ todo}
       /\ \A k \in First(Listed(chosen)) : FirstDirInv(k)

ScriptInv == ScriptTypeOK /\ NewestInv /\ ChosenInv /\ HandledInv /\ PlotsInv

-----------------------------------------------------------------------------
(* What sort and the program make of the lines of a file.                  *)

LEMMA ArrangementProperties ==
  ASSUME NEW S, NEW lines \in Seq(S), NEW s \in Arrangements(lines)
  PROVE  /\ s \in Seq(S)
         /\ Len(s) = Len(lines)
         /\ DOMAIN s = DOMAIN lines
         /\ \E p \in Bijection(DOMAIN lines, DOMAIN lines) :
              \A k \in DOMAIN lines : s[k] = lines[p[k]]
<1> DEFINE D == DOMAIN lines
<1>1. PICK p \in Bijection(D, D) : s = [k \in D |-> lines[p[k]]]
  BY DEF Arrangements
<1>2. \A k \in D : p[k] \in D
  BY <1>1, Fun_BijectionProperties
<1>3. D = 1..Len(lines) /\ Len(lines) \in Nat /\ \A k \in D : lines[k] \in S
  BY LenProperties, ElementOfSeq
<1> HIDE DEF D
<1>4. s \in [D -> S]
  BY <1>1, <1>2, <1>3
<1>5. s \in Seq(S) /\ Len(s) = Len(lines)
  BY <1>3, <1>4
<1> QED BY <1>1, <1>3, <1>4, <1>5 DEF D

LEMMA ArrangementKeepsCopies ==
  ASSUME NEW S, NEW lines \in Seq(S), NEW s \in Arrangements(lines), NEW n
  PROVE  CopiesOf(s, n) = CopiesOf(lines, n)
<1> DEFINE D == DOMAIN lines
           A == {k \in D : s[k] = n}
           B == {k \in D : lines[k] = n}
<1>1. DOMAIN s = D
  BY ArrangementProperties
<1>2. PICK p \in Bijection(D, D) : \A k \in D : s[k] = lines[p[k]]
  BY ArrangementProperties
<1>3. /\ \A k \in D : p[k] \in D
      /\ \A j, k \in D : p[j] = p[k] => j = k
      /\ \A k \in D : \E j \in D : p[j] = k
  BY <1>2, Fun_BijectionProperties
<1> DEFINE q == [k \in A |-> p[k]]
<1>4. q \in Bijection(A, B)
  <2> HIDE DEF D
  <2>1. q \in [A -> B]
    BY <1>2, <1>3
  <2>2. \A j, k \in A : q[j] = q[k] => j = k
    BY <1>3
  <2>3. \A k \in B : \E j \in A : q[j] = k
    BY <1>2, <1>3
  <2> QED BY <2>1, <2>2, <2>3, Fun_IsBij
<1>5. IsFiniteSet(A)
  <2>1. D = 1..Len(lines) /\ Len(lines) \in Int /\ 1 \in Int
    BY LenProperties
  <2>2. IsFiniteSet(D)
    BY <2>1, FS_Interval
  <2> QED BY <2>2, FS_Subset
<1>6. Cardinality(B) = Cardinality(A)
  <2>1. ExistsBijection(A, B)
    BY <1>4 DEF ExistsBijection
  <2> QED BY <1>5, <2>1, FS_Bijection
<1> QED BY <1>1, <1>6 DEF CopiesOf

LEMMA AppendingKeepsCopies ==
  ASSUME NEW S, NEW old \in Seq(S), NEW new \in Seq(S), NEW n
  PROVE  CopiesOf(old \o new, n) >= CopiesOf(old, n)
<1> DEFINE all == old \o new
           A == {k \in DOMAIN all : all[k] = n}
           B == {k \in DOMAIN old : old[k] = n}
<1>1. /\ Len(old) \in Nat /\ DOMAIN old = 1..Len(old)
      /\ Len(new) \in Nat
  BY LenProperties
<1>2. /\ all \in Seq(S)
      /\ Len(all) = Len(old) + Len(new)
      /\ \A k \in 1..Len(old) + Len(new) :
           all[k] = IF k <= Len(old) THEN old[k] ELSE new[k - Len(old)]
  BY ConcatProperties
<1>3. DOMAIN all = 1..Len(all)
  BY <1>2, LenProperties
<1> HIDE DEF all
<1>4. B \subseteq A
  BY <1>1, <1>2, <1>3
<1>5. IsFiniteSet(A) /\ IsFiniteSet(B)
  <2>1. Len(all) \in Int /\ 1 \in Int
    BY <1>1, <1>2
  <2>2. IsFiniteSet(DOMAIN all)
    BY <1>3, <2>1, FS_Interval
  <2>3. IsFiniteSet(A)
    BY <2>2, FS_Subset
  <2> QED BY <1>4, <2>3, FS_Subset
<1>6. Cardinality(B) <= Cardinality(A)
  BY <1>4, <1>5, FS_Subset
<1>7. Cardinality(A) \in Nat /\ Cardinality(B) \in Nat
  BY <1>5, FS_CardinalityType
<1> HIDE DEF A, B
<1>8. Cardinality(A) >= Cardinality(B)
  BY <1>6, <1>7
<1> QED BY <1>8 DEF A, B, all, CopiesOf

LEMMA NewLinesAreLines ==
  ASSUME ScriptTypeOK, NEW lines \in NewLines
  PROVE  lines \in Seq(Sizes)
<1> DEFINE sizes == {n \in arguments[1] .. arguments[2] : n > 0}
<1>1. arguments[1] \in 0..MaxSize /\ arguments[2] \in 0..MaxSize /\ MaxSize \in Nat
  BY ScriptAssumption DEF ScriptTypeOK
<1>2. sizes \subseteq Sizes /\ IsFiniteSet(sizes)
  <2>1. arguments[1] \in Int /\ arguments[2] \in Int
    BY <1>1
  <2>2. IsFiniteSet(arguments[1] .. arguments[2])
    BY <2>1, FS_Interval
  <2>3. IsFiniteSet(sizes)
    BY <2>2, FS_Subset
  <2> QED BY <1>1, <2>3 DEF Sizes
<1> HIDE DEF sizes
<1>3. PICK S \in SUBSET sizes : lines \in SetToSeqs(S)
  BY DEF NewLines, sizes
<1>4. IsFiniteSet(S)
  BY <1>2, FS_Subset
<1>5. Cardinality(S) \in Nat
  BY <1>4, FS_CardinalityType
<1>6. lines \in [1..Cardinality(S) -> S]
  BY <1>3 DEF SetToSeqs
<1>7. lines \in [1..Cardinality(S) -> Sizes]
  BY <1>2, <1>6
<1> QED BY <1>5, <1>7

-----------------------------------------------------------------------------
(* The files of the directory that the script works on.                    *)

LEMMA FileFacts ==
  /\ Len(FileNames) \in Nat /\ DOMAIN FileNames = 1..Len(FileNames)
  /\ \A k \in DOMAIN FileNames : FileNames[k] \in Files
  /\ \A f \in Files : \E k \in DOMAIN FileNames : f = FileNames[k]
  /\ Len(Year) \in Nat \ {0} /\ Seconds = 1..Len(Year)
<1>1. FileNames \in Seq(STRING \X STRING) /\ Year \in Seq(Nat) /\ Len(Year) > 0
  BY ScriptAssumption
<1>2. Len(FileNames) \in Nat /\ DOMAIN FileNames = 1..Len(FileNames)
  BY <1>1, LenProperties
<1>3. Len(Year) \in Nat /\ DOMAIN Year = 1..Len(Year)
  BY <1>1, LenProperties
<1> QED BY <1>1, <1>2, <1>3 DEF Files, ToSet, Seconds

LEMMA ExistingLines ==
  ASSUME ScriptTypeOK, NEW t, NEW f \in Files
  PROVE  /\ Existing(t)[f] \in Seq(Sizes)
         /\ t \in DOMAIN logs => Existing(t)[f] = logs[t][f]
         /\ t \notin DOMAIN logs => Existing(t)[f] = <<>>
<1>1. CASE t \in DOMAIN logs
  BY <1>1 DEF ScriptTypeOK, Existing
<1>2. CASE t \notin DOMAIN logs
  BY <1>2 DEF Existing
<1> QED BY <1>1, <1>2

LEMMA NoDirectoryNoFiles ==
  ASSUME ScriptTypeOK
  PROVE  0 \notin DOMAIN logs /\ Listed(0) = {}
<1>1. 0 \notin DOMAIN logs
  <2>1. now \in Nat
    BY FileFacts DEF ScriptTypeOK
  <2> QED BY <2>1 DEF ScriptTypeOK
<1> QED BY <1>1, FileFacts, ExistingLines DEF Listed

(* What a round of the sorting loop does to the files.                     *)
LEMMA SortingOneFile ==
  ASSUME ScriptTypeOK, ChosenInv, pc = "sorting", NEW k \in First(todo),
         NEW lines \in Sorted(logs[chosen][FileNames[k]]),
         logs' = [logs EXCEPT ![chosen][FileNames[k]] = lines]
  PROVE  /\ chosen \in DOMAIN logs /\ k \in DOMAIN FileNames
         /\ lines \in Arrangements(logs[chosen][FileNames[k]])
         /\ lines \in Seq(Sizes) /\ Len(lines) > 0
         /\ \A i, j \in DOMAIN lines : i < j => lines[i] <= lines[j]
         /\ DOMAIN logs' = DOMAIN logs
         /\ \A t \in DOMAIN logs : logs'[t] \in [Files -> Seq(Sizes)]
         /\ \A t \in DOMAIN logs, f \in Files :
              logs'[t][f] = IF t = chosen /\ f = FileNames[k]
                            THEN lines ELSE logs[t][f]
<1> DEFINE file == FileNames[k]
           old == logs[chosen][file]
<1>1. k \in todo /\ k \in DOMAIN FileNames /\ k \in Listed(chosen) /\ file \in Files
  BY FileFacts DEF First, ChosenInv, ScriptTypeOK
<1>2. chosen \in DOMAIN logs
  BY <1>1, NoDirectoryNoFiles DEF ChosenInv
<1>3. old \in Seq(Sizes) /\ old # <<>>
  BY <1>1, <1>2, ExistingLines DEF Listed
<1>4. lines \in Arrangements(old)
  BY DEF Sorted
<1>5. \A i, j \in DOMAIN lines : i < j => lines[i] <= lines[j]
  BY DEF Sorted
<1>6. lines \in Seq(Sizes) /\ Len(lines) = Len(old)
  BY <1>3, <1>4, ArrangementProperties
<1>7. Len(lines) > 0
  <2> HIDE DEF old
  <2>1. Len(old) \in Nat /\ Len(old) # 0
    BY <1>3, EmptySeq, LenProperties
  <2> QED BY <1>6, <2>1
<1>8. DOMAIN logs' = DOMAIN logs
  OBVIOUS
<1>9. \A t \in DOMAIN logs : logs[t] \in [Files -> Seq(Sizes)]
  BY DEF ScriptTypeOK
<1>10. logs'[chosen] = [logs[chosen] EXCEPT ![file] = lines]
  BY <1>2
<1>11. \A t \in DOMAIN logs : t # chosen => logs'[t] = logs[t]
  BY <1>2
<1> HIDE DEF file
<1>12. /\ logs'[chosen] \in [Files -> Seq(Sizes)]
       /\ \A f \in Files :
            logs'[chosen][f] = IF f = file THEN lines ELSE logs[chosen][f]
  BY <1>1, <1>2, <1>6, <1>9, <1>10
<1>13. \A t \in DOMAIN logs : logs'[t] \in [Files -> Seq(Sizes)]
  BY <1>9, <1>11, <1>12
<1>14. \A t \in DOMAIN logs, f \in Files :
         logs'[t][f] = IF t = chosen /\ f = file THEN lines ELSE logs[t][f]
  BY <1>11, <1>12
<1> QED BY <1>1, <1>2, <1>4, <1>5, <1>6, <1>7, <1>8, <1>13, <1>14 DEF file, old

LEMMA MaximumIsNumber ==
  ASSUME NEW lines \in Seq(Sizes), Len(lines) > 0
  PROVE  /\ Len(lines) \in DOMAIN lines
         /\ MaximumOf(lines) = Comparisons[lines[Len(lines)]]
         /\ MaximumOf(lines) \in Nat
<1>1. Len(lines) \in 1..Len(lines) /\ DOMAIN lines = 1..Len(lines)
  BY LenProperties
<1>2. lines[Len(lines)] \in Sizes
  BY <1>1, ElementOfSeq
<1>3. Comparisons \in [Sizes -> Nat]
  BY ScriptAssumption
<1> QED BY <1>1, <1>2, <1>3 DEF MaximumOf, Last

LEMMA LargerIsMaximum ==
  ASSUME NEW m \in Nat, NEW n \in Nat
  PROVE  Larger(m, n) \in Nat /\ Larger(m, n) >= m /\ Larger(m, n) >= n
BY DEF Larger

-----------------------------------------------------------------------------
(* Each step keeps the types.                                              *)

LEMMA InitialTypes == ScriptInit => ScriptTypeOK
<1> SUFFICES ASSUME ScriptInit PROVE ScriptTypeOK
  OBVIOUS
<1>1. now \in Seconds
  BY FileFacts DEF ScriptInit
<1>2. arguments \in (0..MaxSize) \X (0..MaxSize)
  BY ScriptAssumption DEF ScriptInit
<1>3. DOMAIN logs = {}
  BY DEF ScriptInit
<1>4. plot_line \in Seq([file : Files, comma : BOOLEAN])
  BY EmptySeq DEF ScriptInit
<1> QED BY <1>1, <1>2, <1>3, <1>4 DEF ScriptInit, ScriptTypeOK

(* A run leaves lines in its own directory only, behind those of a run     *)
(* within the same second.                                                 *)
LEMMA RunningTheBinary ==
  ASSUME ScriptTypeOK, NEW lines \in [Files -> NewLines],
         logs' = [t \in DOMAIN logs \cup {now} |->
                    IF t = now THEN Written(now, lines) ELSE logs[t]]
  PROVE  /\ DOMAIN logs' = DOMAIN logs \cup {now}
         /\ \A t \in DOMAIN logs' : logs'[t] \in [Files -> Seq(Sizes)]
         /\ \A t \in DOMAIN logs, f \in Files :
              logs'[t][f] = IF t = now THEN logs[t][f] \o lines[f]
                            ELSE logs[t][f]
<1>1. \A f \in Files : lines[f] \in Seq(Sizes)
  BY NewLinesAreLines
<1>2. \A f \in Files : Existing(now)[f] \in Seq(Sizes)
  BY ExistingLines
<1>3. \A f \in Files : Existing(now)[f] \o lines[f] \in Seq(Sizes)
  BY <1>1, <1>2, ConcatProperties
<1>4. Written(now, lines) = [f \in Files |-> Existing(now)[f] \o lines[f]]
  BY DEF Written
<1>5. Written(now, lines) \in [Files -> Seq(Sizes)]
  BY <1>3, <1>4
<1>6. DOMAIN logs' = DOMAIN logs \cup {now}
  OBVIOUS
<1>7. \A t \in DOMAIN logs' :
        logs'[t] = IF t = now THEN Written(now, lines) ELSE logs[t]
  BY <1>6
<1>8. \A t \in DOMAIN logs : logs[t] \in [Files -> Seq(Sizes)]
  BY DEF ScriptTypeOK
<1>9. \A t \in DOMAIN logs' : logs'[t] \in [Files -> Seq(Sizes)]
  BY <1>5, <1>6, <1>7, <1>8
<1>10. ASSUME NEW t \in DOMAIN logs, NEW f \in Files
       PROVE  logs'[t][f] = IF t = now THEN logs[t][f] \o lines[f]
                            ELSE logs[t][f]
  <2>1. CASE t = now
    <3>1. logs'[t] = Written(now, lines)
      BY <1>6, <1>7, <2>1
    <3>2. logs'[t][f] = Existing(now)[f] \o lines[f]
      BY <3>1, <1>4
    <3>3. Existing(now)[f] = logs[t][f]
      BY <2>1, ExistingLines
    <3> QED BY <2>1, <3>2, <3>3
  <2>2. CASE t # now
    BY <1>6, <1>7, <2>2
  <2> QED BY <2>1, <2>2
<1> QED BY <1>6, <1>9, <1>10

LEMMA TypesAreKept ==
  ASSUME ScriptTypeOK, ChosenInv, PlotsInv, [ScriptNext]_scriptVars
  PROVE  ScriptTypeOK'
<1>0. now \in 1..Len(Year) /\ Len(Year) \in Nat
  BY FileFacts DEF ScriptTypeOK
<1>1. CASE Tick
  <2>1. now' \in Seconds /\ 1..now \subseteq 1..now'
    BY <1>0, <1>1, FileFacts DEF Tick
  <2> QED BY <1>1, <2>1 DEF Tick, plotVars, ScriptTypeOK
<1>2. CASE Clean
  <2>1. DOMAIN logs' = {}
    BY <1>2 DEF Clean
  <2> QED BY <1>2, <2>1 DEF Clean, plotVars, ScriptTypeOK
<1>3. CASE Call
  <2>1. arguments' \in (0..MaxSize) \X (0..MaxSize)
    BY <1>3, ScriptAssumption DEF Call
  <2> QED BY <1>3, <2>1 DEF Call, plotVars, ScriptTypeOK
<1>4. CASE Build \/ EndScript
  BY <1>4 DEF Build, EndScript, plotVars, ScriptTypeOK
<1>5. CASE RunBinary
  <2>1. CASE UNCHANGED <<logs, newest>>
    BY <1>5, <2>1 DEF RunBinary, plotVars, ScriptTypeOK
  <2>2. CASE \E lines \in [Files -> NewLines] :
               logs' = [t \in DOMAIN logs \cup {now} |->
                          IF t = now THEN Written(now, lines) ELSE logs[t]]
    <3>1. /\ DOMAIN logs' = DOMAIN logs \cup {now}
          /\ \A t \in DOMAIN logs' : logs'[t] \in [Files -> Seq(Sizes)]
      BY <2>2, RunningTheBinary
    <3>2. DOMAIN logs' \subseteq 1..now
      BY <1>0, <3>1 DEF ScriptTypeOK
    <3> QED BY <1>5, <3>1, <3>2 DEF RunBinary, plotVars, ScriptTypeOK
  <2> QED BY <1>5, <2>1, <2>2 DEF RunBinary
<1>6. CASE Choose
  <2>1. plot_line' \in Seq([file : Files, comma : BOOLEAN])
    BY <1>6, EmptySeq DEF Choose
  <2>2. todo' \subseteq DOMAIN FileNames
    BY <1>6 DEF Choose, Listed
  <2> QED BY <1>6, <2>1, <2>2 DEF Choose, ScriptTypeOK
<1>7. CASE SortFile
  <2>1. PICK k \in First(todo) :
          \E lines \in Sorted(logs[chosen][FileNames[k]]) :
            /\ logs' = [logs EXCEPT ![chosen][FileNames[k]] = lines]
            /\ overall_max' = Larger(overall_max, MaximumOf(lines))
            /\ todo' = todo \ {k}
    BY <1>7 DEF SortFile
  <2>2. PICK lines \in Sorted(logs[chosen][FileNames[k]]) :
          /\ logs' = [logs EXCEPT ![chosen][FileNames[k]] = lines]
          /\ overall_max' = Larger(overall_max, MaximumOf(lines))
          /\ todo' = todo \ {k}
    BY <2>1
  <2>3. /\ lines \in Seq(Sizes) /\ Len(lines) > 0
        /\ DOMAIN logs' = DOMAIN logs
        /\ \A t \in DOMAIN logs : logs'[t] \in [Files -> Seq(Sizes)]
    BY <1>7, <2>2, SortingOneFile DEF SortFile
  <2>4. overall_max' \in Nat
    BY <2>2, <2>3, MaximumIsNumber, LargerIsMaximum DEF ScriptTypeOK
  <2> QED BY <1>7, <2>2, <2>3, <2>4 DEF SortFile, ScriptTypeOK
<1>8. CASE BeginPlots
  <2>1. overall_max' \in Nat
    BY <1>8, LargerIsMaximum DEF BeginPlots, ScriptTypeOK
  <2>2. todo' \subseteq DOMAIN FileNames
    BY <1>8 DEF BeginPlots, Listed
  <2> QED BY <1>8, <2>1, <2>2 DEF BeginPlots, ScriptTypeOK
<1>9. CASE PlotFile
  <2>1. PICK k \in First(todo) :
          /\ todo' = todo \ {k}
          /\ plot_line' = Append(plot_line, [file |-> FileNames[k], comma |-> TRUE])
    BY <1>9 DEF PlotFile
  <2>2. FileNames[k] \in Files
    BY FileFacts DEF First, ScriptTypeOK
  <2>3. [file |-> FileNames[k], comma |-> TRUE] \in [file : Files, comma : BOOLEAN]
    BY <2>2
  <2>4. plot_line' \in Seq([file : Files, comma : BOOLEAN])
    BY <2>1, <2>3, AppendProperties DEF ScriptTypeOK
  <2> QED BY <1>9, <2>1, <2>4 DEF PlotFile, ScriptTypeOK
<1>10. CASE CombinePlots
  <2> DEFINE S == [file : Files, comma : BOOLEAN]
             n == Len(plot_line)
  <2>1. plot_line \in Seq(S) /\ plot_line # <<>>
    BY <1>10 DEF CombinePlots, PlotsInv, ScriptTypeOK
  <2>2. n \in 1..n /\ n \in Nat /\ DOMAIN plot_line = 1..n
    BY <2>1, EmptySeq, LenProperties
  <2>3. plot_line[n] \in S
    BY <2>1, <2>2, ElementOfSeq
  <2>4. plot_line' = [plot_line EXCEPT ![n] = [plot_line[n] EXCEPT !.comma = FALSE]]
    BY <1>10 DEF CombinePlots, Trimmed
  <2>5. [plot_line[n] EXCEPT !.comma = FALSE] \in S
    BY <2>3
  <2> HIDE DEF S
  <2>6. plot_line' \in Seq(S)
    BY <2>1, <2>2, <2>4, <2>5, ExceptSeq
  <2> QED BY <1>10, <2>6 DEF CombinePlots, ScriptTypeOK, S
<1>11. CASE UNCHANGED scriptVars
  BY <1>11 DEF scriptVars, plotVars, ScriptTypeOK
<1> QED BY <1>1, <1>2, <1>3, <1>4, <1>5, <1>6, <1>7, <1>8, <1>9, <1>10, <1>11
     DEF ScriptNext, ScriptStep

-----------------------------------------------------------------------------
(* Within a month the names of the directories are in the order of time.   *)

LEMMA MonthRankIsNumber ==
  \A m \in 1..12 : MonthRank[m] \in Nat
BY DEF MonthRank

LEMMA WithinMonth ==
  ASSUME NEW s \in Seconds, NEW t \in Seconds,
         Year[s] = Year[t], Month[s] = Month[t], NamedBefore(s, t)
  PROVE  s < t
<1>1. Year[s] \in Nat
  BY ScriptAssumption, ElementOfSeq, FileFacts DEF Seconds
<1>2. Month[s] \in 1..12
  BY ScriptAssumption
<1>3. MonthRank[Month[s]] \in Nat
  BY <1>2, MonthRankIsNumber
<1>4. ~(Year[s] < Year[s]) /\ ~(MonthRank[Month[s]] < MonthRank[Month[s]])
  BY <1>1, <1>3
<1> QED BY <1>4 DEF NamedBefore

LEMMA NewestIsLast ==
  ASSUME ScriptTypeOK, NewestInv, NEW t \in LastLog,
         \A r, s \in DOMAIN logs : Year[r] = Year[s] /\ Month[r] = Month[s]
  PROVE  t = newest
<1>1. /\ t \in DOMAIN logs
      /\ \A s \in DOMAIN logs \ {t} : NamedBefore(s, t)
  BY DEF LastLog
<1>2. newest \in DOMAIN logs /\ t <= newest
  BY <1>1 DEF NewestInv
<1>3. t \in Seconds /\ newest \in Seconds
  BY <1>1, <1>2, FileFacts DEF ScriptTypeOK
<1>4. ASSUME t # newest PROVE FALSE
  <2>1. NamedBefore(newest, t)
    BY <1>1, <1>2, <1>4
  <2>2. newest < t
    BY <1>1, <1>2, <1>3, <2>1, WithinMonth
  <2>3. t \in Nat /\ newest \in Nat
    BY <1>3, FileFacts
  <2> QED BY <1>2, <2>2, <2>3
<1> QED BY <1>4

LEMMA NewestIsKept ==
  ASSUME ScriptTypeOK, NewestInv, ChosenInv, [ScriptNext]_scriptVars
  PROVE  NewestInv'
<1>1. CASE UNCHANGED <<pc, logs, newest, chosen>>
  BY <1>1 DEF NewestInv, NewestWithinMonth
<1>2. CASE UNCHANGED <<logs, newest>> /\ pc' # "sorting"
  BY <1>2 DEF NewestInv, NewestWithinMonth
<1>3. CASE Clean
  <2>1. DOMAIN logs' = {} /\ pc' # "sorting"
    BY <1>3 DEF Clean
  <2> QED BY <2>1 DEF NewestInv, NewestWithinMonth
<1>4. CASE RunBinary
  <2>1. pc' # "sorting"
    BY <1>4 DEF RunBinary
  <2>2. CASE newest' = now /\ DOMAIN logs' = DOMAIN logs \cup {now}
    <3>1. now \in Nat /\ \A s \in DOMAIN logs : s <= now
      BY FileFacts DEF ScriptTypeOK
    <3>2. now <= now
      BY <3>1
    <3> QED BY <2>1, <2>2, <3>1, <3>2 DEF NewestInv, NewestWithinMonth
  <2> QED BY <1>2, <1>4, <2>1, <2>2 DEF RunBinary
<1>5. CASE Choose
  <2>1. UNCHANGED <<logs, newest>>
        /\ chosen' \in IF DOMAIN logs = {} THEN {0} ELSE LastLog
    BY <1>5 DEF Choose
  <2>2. ASSUME DOMAIN logs # {},
               \A s, t \in DOMAIN logs : Year[s] = Year[t] /\ Month[s] = Month[t]
        PROVE  chosen' = newest
    BY <2>1, <2>2, NewestIsLast
  <2> QED BY <2>1, <2>2 DEF NewestInv, NewestWithinMonth
<1>6. CASE SortFile
  <2>1. UNCHANGED <<pc, newest, chosen>>
    BY <1>6 DEF SortFile
  <2>2. DOMAIN logs' = DOMAIN logs
    BY <1>6 DEF SortFile
  <2> QED BY <2>1, <2>2 DEF NewestInv, NewestWithinMonth
<1>7. CASE BeginPlots \/ PlotFile \/ CombinePlots \/ EndScript \/ Build \/ Call
  <2>1. UNCHANGED <<logs, newest>> /\ pc' # "sorting"
    BY <1>7 DEF BeginPlots, PlotFile, CombinePlots, EndScript, Build, Call
  <2> QED BY <2>1, <1>2
<1>8. CASE Tick \/ UNCHANGED scriptVars
  BY <1>1, <1>8 DEF Tick, scriptVars, plotVars
<1> QED BY <1>3, <1>4, <1>5, <1>6, <1>7, <1>8 DEF ScriptNext, ScriptStep

-----------------------------------------------------------------------------
(* The directory stays, and what is in it.                                 *)

LEMMA SortingKeepsListed ==
  ASSUME ScriptTypeOK, ChosenInv, SortFile
  PROVE  /\ chosen' \in DOMAIN logs'
         /\ Listed(chosen)' = Listed(chosen)
<1>0. pc = "sorting" /\ chosen' = chosen
  BY DEF SortFile
<1>1. PICK k \in First(todo) :
        \E lines \in Sorted(logs[chosen][FileNames[k]]) :
          logs' = [logs EXCEPT ![chosen][FileNames[k]] = lines]
  BY DEF SortFile
<1>2. PICK lines \in Sorted(logs[chosen][FileNames[k]]) :
        logs' = [logs EXCEPT ![chosen][FileNames[k]] = lines]
  BY <1>1
<1>3. /\ chosen \in DOMAIN logs /\ k \in DOMAIN FileNames
      /\ lines \in Seq(Sizes) /\ Len(lines) > 0
      /\ DOMAIN logs' = DOMAIN logs
      /\ \A f \in Files :
           logs'[chosen][f] = IF f = FileNames[k] THEN lines ELSE logs[chosen][f]
  BY <1>0, <1>2, SortingOneFile
<1>4. lines # <<>>
  BY <1>3, EmptySeq
<1>5. logs[chosen][FileNames[k]] # <<>>
  <2>1. k \in Listed(chosen)
    BY <1>0 DEF First, ChosenInv
  <2> QED BY <1>3, <2>1 DEF Listed, Existing
<1>6. ASSUME NEW j \in DOMAIN FileNames
      PROVE  Existing(chosen)'[FileNames[j]] # <<>>
               <=> Existing(chosen)[FileNames[j]] # <<>>
  BY <1>0, <1>3, <1>4, <1>5, FileFacts DEF Existing
<1> QED BY <1>0, <1>3, <1>6 DEF Listed

LEMMA ChosenIsKept ==
  ASSUME ScriptTypeOK, ChosenInv, [ScriptNext]_scriptVars
  PROVE  ChosenInv'
<1>1. CASE UNCHANGED <<logs, chosen>> /\ todo' \subseteq todo
             /\ (pc \in {"sorting", "plotting", "combining"}
                   \/ pc' \notin {"sorting", "plotting", "combining"})
  <2>1. Listed(chosen)' = Listed(chosen)
    BY <1>1 DEF Listed, Existing
  <2> QED BY <1>1, <2>1 DEF ChosenInv, Plotting
<1>2. CASE pc' \notin {"sorting", "plotting", "combining"}
  BY <1>2 DEF ChosenInv, Plotting
<1>3. CASE Clean \/ Call \/ Build \/ RunBinary \/ EndScript
  <2>1. pc' \notin {"sorting", "plotting", "combining"}
    BY <1>3 DEF Clean, Call, Build, RunBinary, EndScript
  <2> QED BY <1>2, <2>1
<1>4. CASE Choose
  <2>1. /\ UNCHANGED logs /\ todo' = Listed(chosen')
        /\ chosen' \in IF DOMAIN logs = {} THEN {0} ELSE LastLog
    BY <1>4 DEF Choose
  <2>2. todo' = Listed(chosen)'
    BY <2>1 DEF Listed, Existing
  <2>3. chosen' \in DOMAIN logs' \/ chosen' = 0
    BY <2>1 DEF LastLog
  <2> QED BY <2>2, <2>3 DEF ChosenInv
<1>5. CASE SortFile
  <2>1. pc = "sorting" /\ todo' \subseteq todo
    BY <1>5 DEF SortFile
  <2> QED BY <1>5, <2>1, SortingKeepsListed DEF ChosenInv
<1>6. CASE BeginPlots
  <2>1. UNCHANGED <<logs, chosen>> /\ todo' = Listed(chosen) /\ pc = "sorting"
    BY <1>6 DEF BeginPlots
  <2>2. todo' = Listed(chosen)'
    BY <2>1 DEF Listed, Existing
  <2> QED BY <2>1, <2>2 DEF ChosenInv
<1>7. CASE PlotFile \/ CombinePlots \/ Tick \/ UNCHANGED scriptVars
  BY <1>1, <1>7 DEF PlotFile, CombinePlots, Tick, scriptVars, plotVars
<1> QED BY <1>3, <1>4, <1>5, <1>6, <1>7 DEF ScriptNext, ScriptStep

-----------------------------------------------------------------------------
(* The rounds of the sorting loop.                                         *)

LEMMA SortingHandles ==
  ASSUME ScriptTypeOK, ChosenInv, HandledInv, SortFile
  PROVE  HandledInv'
<1>0. pc = "sorting" /\ pc' = pc /\ chosen' = chosen
  BY DEF SortFile
<1>1. PICK k \in First(todo) :
        \E lines \in Sorted(logs[chosen][FileNames[k]]) :
          /\ logs' = [logs EXCEPT ![chosen][FileNames[k]] = lines]
          /\ overall_max' = Larger(overall_max, MaximumOf(lines))
          /\ todo' = todo \ {k}
  BY DEF SortFile
<1>2. PICK lines \in Sorted(logs[chosen][FileNames[k]]) :
        /\ logs' = [logs EXCEPT ![chosen][FileNames[k]] = lines]
        /\ overall_max' = Larger(overall_max, MaximumOf(lines))
        /\ todo' = todo \ {k}
  BY <1>1
<1>3. /\ chosen \in DOMAIN logs /\ k \in DOMAIN FileNames
      /\ lines \in Seq(Sizes) /\ Len(lines) > 0
      /\ \A i, j \in DOMAIN lines : i < j => lines[i] <= lines[j]
      /\ DOMAIN logs' = DOMAIN logs
      /\ \A f \in Files :
           logs'[chosen][f] = IF f = FileNames[k] THEN lines ELSE logs[chosen][f]
  BY <1>0, <1>2, SortingOneFile
<1>4. /\ overall_max \in Nat /\ overall_max' \in Nat /\ MaximumOf(lines) \in Nat
      /\ overall_max' >= overall_max /\ overall_max' >= MaximumOf(lines)
  BY <1>2, <1>3, MaximumIsNumber, LargerIsMaximum DEF ScriptTypeOK
<1>5. \A n \in Sizes : Comparisons[n] \in Nat
  BY ScriptAssumption
<1>6. ASSUME NEW i \in DOMAIN lines
      PROVE  Comparisons[lines[i]] <= overall_max'
  <2> DEFINE last == Len(lines)
  <2>1. DOMAIN lines = 1..last /\ last \in Nat /\ last \in DOMAIN lines
    BY <1>3, MaximumIsNumber, LenProperties
  <2>2. lines[i] \in Sizes /\ lines[last] \in Sizes
    BY <1>3, <2>1, ElementOfSeq
  <2>3. MaximumOf(lines) = Comparisons[lines[last]]
    BY <1>3, MaximumIsNumber
  <2> HIDE DEF last
  <2>4. i = last \/ i < last
    BY <2>1
  <2>5. lines[i] = lines[last] \/ lines[i] < lines[last]
    <3>1. i < last => lines[i] <= lines[last]
      BY <1>3, <2>1
    <3>2. lines[i] \in Int /\ lines[last] \in Int
      BY <2>2, ScriptAssumption DEF Sizes
    <3> QED BY <2>4, <3>1, <3>2
  <2>6. Comparisons[lines[i]] <= Comparisons[lines[last]]
    <3>1. lines[i] < lines[last]
            => Comparisons[lines[i]] <= Comparisons[lines[last]]
      BY <2>2, ScriptAssumption
    <3>2. Comparisons[lines[last]] <= Comparisons[lines[last]]
      BY <1>5, <2>2
    <3> QED BY <2>5, <3>1, <3>2
  <2>7. Comparisons[lines[i]] \in Nat
    BY <1>5, <2>2
  <2> QED BY <1>4, <2>3, <2>6, <2>7
<1>7. ASSUME NEW j \in DOMAIN FileNames, j \notin todo'
      PROVE  Handled(j)'
  <2>1. FileNames[j] \in Files
    BY FileFacts
  <2>2. CASE FileNames[j] = FileNames[k]
    <3>1. Existing(chosen)'[FileNames[j]] = lines
      BY <1>0, <1>3, <2>1, <2>2 DEF Existing
    <3> QED BY <1>3, <1>6, <3>1 DEF Handled
  <2>3. CASE FileNames[j] # FileNames[k]
    <3> DEFINE old == Existing(chosen)[FileNames[j]]
    <3>1. Existing(chosen)'[FileNames[j]] = old
      BY <1>0, <1>3, <2>1, <2>3 DEF Existing
    <3>2. j \notin todo
      BY <1>2, <1>7, <2>3
    <3>3. /\ \A i, l \in DOMAIN old : i < l => old[i] <= old[l]
          /\ \A i \in DOMAIN old : Comparisons[old[i]] <= overall_max
      BY <1>0, <3>2 DEF HandledInv, Handled
    <3>4. old \in Seq(Sizes)
      BY <2>1, ExistingLines
    <3> HIDE DEF old
    <3>5. ASSUME NEW i \in DOMAIN old
          PROVE  Comparisons[old[i]] <= overall_max'
      <4>1. old[i] \in Sizes
        BY <3>4, ElementOfSeq, LenProperties
      <4>2. Comparisons[old[i]] \in Nat /\ Comparisons[old[i]] <= overall_max
        BY <1>5, <3>3, <4>1
      <4> QED BY <1>4, <4>2
    <3> QED BY <3>1, <3>3, <3>5 DEF Handled
  <2> QED BY <2>2, <2>3
<1> QED BY <1>0, <1>7 DEF HandledInv, Plotting

LEMMA HandledIsKept ==
  ASSUME ScriptTypeOK, ChosenInv, HandledInv, [ScriptNext]_scriptVars
  PROVE  HandledInv'
<1>1. ASSUME UNCHANGED <<logs, chosen, overall_max>>, NEW k
      PROVE  Handled(k)' <=> Handled(k)
  BY <1>1 DEF Handled, Existing
<1>2. CASE Clean \/ Call \/ Build \/ RunBinary \/ EndScript
  <2>1. pc' \notin {"sorting", "plotting", "combining"}
    BY <1>2 DEF Clean, Call, Build, RunBinary, EndScript
  <2> QED BY <2>1 DEF HandledInv, Plotting
<1>3. CASE Choose
  <2>1. /\ pc' = "sorting" /\ UNCHANGED logs /\ todo' = Listed(chosen')
    BY <1>3 DEF Choose
  <2>2. ASSUME NEW k \in DOMAIN FileNames \ todo'
        PROVE  Handled(k)'
    <3>1. Existing(chosen)'[FileNames[k]] = <<>>
      BY <2>1, <2>2 DEF Listed, Existing
    <3>2. DOMAIN (Existing(chosen)'[FileNames[k]]) = {}
      BY <3>1
    <3> QED BY <3>2 DEF Handled
  <2> QED BY <2>1, <2>2 DEF HandledInv, Plotting
<1>4. CASE SortFile
  BY <1>4, SortingHandles
<1>5. CASE BeginPlots
  <2>1. /\ pc = "sorting" /\ pc' = "plotting" /\ todo = {}
        /\ UNCHANGED <<logs, chosen>>
        /\ overall_max' = Larger(overall_max, 1)
    BY <1>5 DEF BeginPlots
  <2>2. /\ overall_max \in Nat /\ overall_max' \in Nat
        /\ overall_max' >= overall_max /\ overall_max' >= 1
    BY <2>1, LargerIsMaximum DEF ScriptTypeOK
  <2>3. ASSUME NEW k \in DOMAIN FileNames
        PROVE  Handled(k)'
    <3> DEFINE lines == Existing(chosen)[FileNames[k]]
    <3>1. Existing(chosen)'[FileNames[k]] = lines
      BY <2>1 DEF Existing
    <3>2. /\ \A i, j \in DOMAIN lines : i < j => lines[i] <= lines[j]
          /\ \A i \in DOMAIN lines : Comparisons[lines[i]] <= overall_max
      BY <2>1 DEF HandledInv, Handled
    <3>3. lines \in Seq(Sizes)
      BY FileFacts, ExistingLines
    <3> HIDE DEF lines
    <3>4. ASSUME NEW i \in DOMAIN lines
          PROVE  Comparisons[lines[i]] <= overall_max'
      <4>1. lines[i] \in Sizes
        BY <3>3, ElementOfSeq, LenProperties
      <4>2. Comparisons[lines[i]] \in Nat /\ Comparisons[lines[i]] <= overall_max
        BY <3>2, <4>1, ScriptAssumption
      <4> QED BY <2>2, <4>2
    <3> QED BY <3>1, <3>2, <3>4 DEF Handled
  <2>4. overall_max' > 0
    BY <2>2
  <2> QED BY <2>1, <2>3, <2>4 DEF HandledInv, Plotting
<1>6. CASE PlotFile \/ CombinePlots
  <2>1. /\ Plotting /\ pc' # "sorting"
        /\ UNCHANGED <<logs, chosen, overall_max>>
    BY <1>6 DEF PlotFile, CombinePlots, Plotting
  <2> QED BY <1>1, <2>1 DEF HandledInv
<1>7. CASE Tick \/ UNCHANGED scriptVars
  <2>1. UNCHANGED <<pc, todo, logs, chosen, overall_max>>
    BY <1>7 DEF Tick, scriptVars, plotVars
  <2> QED BY <1>1, <2>1 DEF HandledInv, Plotting
<1> QED BY <1>2, <1>3, <1>4, <1>5, <1>6, <1>7 DEF ScriptNext, ScriptStep

-----------------------------------------------------------------------------
(* The rounds of the plotting loops.                                       *)

LEMMA PlottingOneFile ==
  ASSUME ScriptTypeOK, ChosenInv, PlotsInv, PlotFile
  PROVE  PlotsInv'
<1>1. /\ pc = "plotting" /\ pc' \in {"plotting", "combining"}
      /\ UNCHANGED <<logs, chosen, combined>>
  BY DEF PlotFile
<1>2. PICK k \in First(todo) :
        /\ todo' = todo \ {k}
        /\ plots' = plots \cup {FileNames[k]}
        /\ plot_line' = Append(plot_line, [file |-> FileNames[k], comma |-> TRUE])
        /\ pc' = IF \E j \in todo' : FileNames[j][1] = FileNames[k][1]
                 THEN "plotting" ELSE "combining"
  BY DEF PlotFile
<1>3. k \in todo /\ (\A j \in todo : k <= j) /\ todo \subseteq DOMAIN FileNames
  BY DEF First, ScriptTypeOK
<1>4. Listed(chosen)' = Listed(chosen) /\ todo \subseteq Listed(chosen)
  BY <1>1 DEF Listed, Existing, ChosenInv, Plotting
<1>5. plots' = {FileNames[j] : j \in Listed(chosen)' \ todo'}
  BY <1>1, <1>2, <1>3, <1>4 DEF PlotsInv, Plotting
<1> DEFINE n == Len(plot_line)
           entry == [file |-> FileNames[k], comma |-> TRUE]
           S == [file : Files, comma : BOOLEAN]
<1>6. /\ n \in Nat /\ DOMAIN plot_line = 1..n
      /\ plot_line' \in Seq(S)
      /\ Len(plot_line') = n + 1 /\ DOMAIN plot_line' = 1..n + 1
      /\ \A i \in 1..n : plot_line'[i] = plot_line[i]
      /\ plot_line'[n + 1] = entry
  <2>1. FileNames[k] \in Files
    BY <1>3, FileFacts
  <2>2. entry \in S /\ plot_line \in Seq(S)
    BY <2>1 DEF ScriptTypeOK
  <2> HIDE DEF S, entry
  <2>3. plot_line' = Append(plot_line, entry)
    BY <1>2 DEF entry
  <2>4. /\ plot_line' \in Seq(S)
        /\ Len(plot_line') = n + 1
        /\ \A i \in 1..n : plot_line'[i] = plot_line[i]
        /\ plot_line'[n + 1] = entry
    BY <2>2, <2>3, AppendProperties
  <2> QED BY <2>2, <2>4, LenProperties
<1>7. plot_line' # <<>>
  BY <1>6, EmptySeq
<1>8. ASSUME NEW f \in First(Listed(chosen)')
      PROVE  FirstDirInv(f)'
  <2>1. f \in DOMAIN FileNames /\ \A j \in Listed(chosen) : f <= j
    BY <1>4, <1>8 DEF First, Listed
  <2>2. FirstDirInv(f)
    BY <1>1, <1>4, <1>8 DEF PlotsInv, Plotting, First
  <2>3. CASE FileNames[f][1] \in combined
    BY <1>1, <2>3 DEF FirstDirInv
  <2>4. CASE FileNames[f][1] \notin combined
    <3>1. /\ \A i \in DOMAIN plot_line : plot_line[i].comma
          /\ \E j \in todo : FileNames[j][1] = FileNames[f][1]
      BY <1>1, <2>2, <2>4 DEF FirstDirInv
    <3>2. \A i \in DOMAIN plot_line' : plot_line'[i].comma
      <4>1. \A i \in 1..n + 1 : i \in 1..n \/ i = n + 1
        BY <1>6
      <4> QED BY <1>6, <3>1, <4>1
    <3>3. PICK j \in todo : FileNames[j][1] = FileNames[f][1]
      BY <3>1
    <3>4. f <= k /\ k <= j /\ f \in Nat /\ k \in Nat /\ j \in Nat
      BY <1>3, <1>4, <2>1, FileFacts
    <3>5. FileNames[k][1] = FileNames[f][1]
      <4>1. CASE f < k /\ k < j
        BY <1>3, <2>1, <3>3, <4>1, ScriptAssumption
      <4>2. (f < k /\ k < j) \/ k = f \/ k = j
        BY <3>4
      <4> QED BY <3>3, <4>1, <4>2
    <3>6. CASE pc' = "plotting"
      <4>1. \E i \in todo' : FileNames[i][1] = FileNames[k][1]
        BY <1>2, <3>6
      <4> QED BY <3>2, <3>5, <3>6, <4>1 DEF FirstDirInv
    <3>7. CASE pc' = "combining"
      <4>1. Last(plot_line') = entry
        BY <1>6 DEF Last
      <4>2. Last(plot_line').file[1] = FileNames[k][1]
        BY <4>1
      <4> QED BY <3>2, <3>5, <3>7, <4>2 DEF FirstDirInv
    <3> QED BY <1>1, <3>6, <3>7
  <2> QED BY <2>3, <2>4
<1> QED BY <1>1, <1>5, <1>7, <1>8 DEF PlotsInv

(* The line without its last comma is one that gnuplot draws, unless it    *)
(* has lost one before.                                                    *)
LEMMA CombiningOneDir ==
  ASSUME ScriptTypeOK, PlotsInv, CombinePlots
  PROVE  PlotsInv'
<1>1. /\ pc = "combining" /\ pc' = "plotting"
      /\ UNCHANGED <<logs, chosen, todo, plots>>
      /\ plot_line' = Trimmed(plot_line)
      /\ combined' = IF WellFormed(plot_line')
                     THEN combined \cup {Last(plot_line).file[1]} ELSE combined
  BY DEF CombinePlots
<1>2. Listed(chosen)' = Listed(chosen)
  BY <1>1 DEF Listed, Existing
<1>3. plots' = {FileNames[k] : k \in Listed(chosen)' \ todo'}
  BY <1>1, <1>2 DEF PlotsInv, Plotting
<1>4. ASSUME NEW f \in First(Listed(chosen)')
      PROVE  FileNames[f][1] \in combined'
  <2>1. FirstDirInv(f)
    BY <1>1, <1>2, <1>4 DEF PlotsInv, Plotting, First
  <2>2. CASE FileNames[f][1] \in combined
    BY <1>1, <2>2
  <2>3. CASE FileNames[f][1] \notin combined
    <3>1. /\ \A i \in DOMAIN plot_line : plot_line[i].comma
          /\ Last(plot_line).file[1] = FileNames[f][1]
      BY <1>1, <2>1, <2>3 DEF FirstDirInv
    <3> DEFINE n == Len(plot_line)
               S == [file : Files, comma : BOOLEAN]
    <3>2. plot_line \in Seq(S) /\ plot_line # <<>>
      BY <1>1 DEF PlotsInv, ScriptTypeOK
    <3>3. n \in Nat /\ n > 0 /\ n \in 1..n /\ DOMAIN plot_line = 1..n
      BY <3>2, EmptySeq, LenProperties
    <3>4. plot_line[n] \in S
      BY <3>2, <3>3, ElementOfSeq
    <3> DEFINE last == [plot_line[n] EXCEPT !.comma = FALSE]
    <3>5. last \in S /\ last.comma = FALSE
      BY <3>4
    <3>6. plot_line' = [plot_line EXCEPT ![n] = last]
      BY <1>1 DEF Trimmed
    <3> HIDE DEF S, last
    <3>7. /\ plot_line' \in Seq(S)
          /\ Len(plot_line') = n
          /\ \A i \in 1..n :
               plot_line'[i] = IF i = n THEN last ELSE plot_line[i]
      BY <3>2, <3>3, <3>5, <3>6, ExceptSeq
    <3>8. DOMAIN plot_line' = 1..n
      BY <3>7, LenProperties
    <3>9. WellFormed(plot_line')
      <4> SUFFICES ASSUME NEW i \in 1..n
                   PROVE  plot_line'[i].comma <=> i < n
        BY <3>7, <3>8 DEF WellFormed
      <4> HIDE DEF n
      <4>1. CASE i = n
        <5>1. plot_line'[i] = last
          BY <3>7, <4>1
        <5>2. plot_line'[i].comma = FALSE
          BY <3>5, <5>1, Zenon
        <5>3. ~(i < n)
          BY <3>3, <4>1
        <5> QED BY <5>2, <5>3, Zenon
      <4>2. CASE i # n
        <5>1. i < n
          BY <3>3, <4>2
        <5>2. plot_line'[i] = plot_line[i]
          BY <3>7, <4>2
        <5>3. plot_line[i].comma
          BY <3>1, <3>3, Zenon
        <5> QED BY <5>1, <5>2, <5>3, Zenon
      <4> QED BY <4>1, <4>2
    <3> QED BY <1>1, <3>1, <3>9
  <2> QED BY <2>2, <2>3
<1> QED BY <1>1, <1>3, <1>4 DEF PlotsInv, FirstDirInv

LEMMA PlotsAreKept ==
  ASSUME ScriptTypeOK, ChosenInv, PlotsInv, [ScriptNext]_scriptVars
  PROVE  PlotsInv'
<1>1. CASE Clean \/ Call \/ Build \/ RunBinary \/ EndScript
  <2>1. pc' \notin {"sorting", "plotting", "combining"}
    BY <1>1 DEF Clean, Call, Build, RunBinary, EndScript
  <2> QED BY <2>1 DEF PlotsInv, Plotting
<1>2. CASE Choose
  <2>1. pc' = "sorting" /\ plots' = {} /\ plot_line' = <<>>
    BY <1>2 DEF Choose
  <2> QED BY <2>1 DEF PlotsInv, Plotting
<1>3. CASE SortFile
  <2>1. pc = "sorting" /\ UNCHANGED <<pc, plots, plot_line>>
    BY <1>3 DEF SortFile
  <2> QED BY <2>1 DEF PlotsInv, Plotting
<1>4. CASE BeginPlots
  <2>1. /\ pc = "sorting" /\ pc' = "plotting"
        /\ UNCHANGED <<logs, chosen, plots, plot_line>>
        /\ todo' = Listed(chosen)
    BY <1>4 DEF BeginPlots
  <2>2. todo' = Listed(chosen)'
    BY <2>1 DEF Listed, Existing
  <2>3. plots' = {} /\ plot_line' = <<>>
    BY <2>1 DEF PlotsInv
  <2>4. DOMAIN plot_line' = {}
    BY <2>3
  <2>5. ASSUME NEW k \in First(Listed(chosen)')
        PROVE  FirstDirInv(k)'
    <3>1. k \in todo'
      BY <2>2, <2>5 DEF First
    <3> QED BY <2>1, <2>4, <3>1 DEF FirstDirInv
  <2> QED BY <2>1, <2>2, <2>3, <2>5 DEF PlotsInv
<1>5. CASE PlotFile
  BY <1>5, PlottingOneFile
<1>6. CASE CombinePlots
  BY <1>6, CombiningOneDir
<1>7. CASE Tick \/ UNCHANGED scriptVars
  <2>1. UNCHANGED <<pc, logs, chosen, todo, plots, plot_line, combined>>
    BY <1>7 DEF Tick, scriptVars, plotVars
  <2>2. Listed(chosen)' = Listed(chosen)
    BY <2>1 DEF Listed, Existing
  <2>3. \A k : FirstDirInv(k)' <=> FirstDirInv(k)
    BY <2>1 DEF FirstDirInv
  <2>4. First(Listed(chosen)') = First(Listed(chosen))
    BY <2>2
  <2> QED BY <2>1, <2>2, <2>3, <2>4 DEF PlotsInv, Plotting
<1> QED BY <1>1, <1>2, <1>3, <1>4, <1>5, <1>6, <1>7 DEF ScriptNext, ScriptStep

-----------------------------------------------------------------------------
(* The invariant.                                                          *)

(* However often the script is called, with whatever arguments, and        *)
(* whatever the program leaves behind: the directory it works on is there, *)
(* what its loops have handled is sorted, covered and plotted.             *)
THEOREM ScriptInvariance == ScriptSpec => []ScriptInv
<1>1. ScriptInit => ScriptInv
  <2> SUFFICES ASSUME ScriptInit PROVE ScriptInv
    OBVIOUS
  <2>1. DOMAIN logs = {} /\ pc = "idle"
    BY DEF ScriptInit
  <2> QED BY <2>1, InitialTypes
          DEF ScriptInv, NewestInv, NewestWithinMonth, ChosenInv, HandledInv,
              PlotsInv, Plotting
<1>2. ScriptInv /\ [ScriptNext]_scriptVars => ScriptInv'
  BY TypesAreKept, NewestIsKept, ChosenIsKept, HandledIsKept, PlotsAreKept
     DEF ScriptInv
<1> QED BY <1>1, <1>2, PTL DEF ScriptSpec

(* No file is plotted before it has been sorted by size.                   *)
THEOREM FilesAreSortedWhenPlotted == ScriptSpec => []SortedWhenPlotted
<1>1. ScriptInv => SortedWhenPlotted
  <2> SUFFICES ASSUME ScriptInv, Plotting, NEW f \in Files
               PROVE  \A j, k \in DOMAIN Existing(chosen)[f] :
                        j < k => Existing(chosen)[f][j] <= Existing(chosen)[f][k]
    BY DEF SortedWhenPlotted
  <2>1. PICK k \in DOMAIN FileNames : f = FileNames[k]
    BY FileFacts
  <2> QED BY <2>1 DEF ScriptInv, HandledInv, Handled
<1> QED BY <1>1, ScriptInvariance, PTL

(* The common range takes in all measurements of all files plotted, if     *)
(* what is measured grows with the size.                                   *)
THEOREM RangeCoversAllPlots == ScriptSpec => []RangeCoversPlots
<1>1. ScriptInv => RangeCoversPlots
  <2> SUFFICES ASSUME ScriptInv, Plotting
               PROVE  /\ overall_max > 0
                      /\ \A f \in Files : \A n \in ToSet(Existing(chosen)[f]) :
                           Comparisons[n] <= overall_max
    BY DEF RangeCoversPlots
  <2>1. overall_max > 0
    BY DEF ScriptInv, HandledInv
  <2>2. ASSUME NEW f \in Files, NEW n \in ToSet(Existing(chosen)[f])
        PROVE  Comparisons[n] <= overall_max
    <3>1. PICK k \in DOMAIN FileNames : f = FileNames[k]
      BY FileFacts
    <3>2. PICK i \in DOMAIN Existing(chosen)[f] : n = Existing(chosen)[f][i]
      BY DEF ToSet
    <3> QED BY <3>1, <3>2 DEF ScriptInv, HandledInv, Handled
  <2> QED BY <2>1, <2>2
<1> QED BY <1>1, ScriptInvariance, PTL

(* At the end of the call every file has its plot, and the first DIR its   *)
(* combined plot.                                                          *)
THEOREM PlotsAreComplete == ScriptSpec => []PlotsComplete
<1>1. ScriptInv => PlotsComplete
  <2> SUFFICES ASSUME ScriptInv, pc = "plotting", todo = {}
               PROVE  /\ plots = {FileNames[k] : k \in Listed(chosen)}
                      /\ \A k \in First(Listed(chosen)) :
                           FileNames[k][1] \in combined
    BY DEF PlotsComplete
  <2> QED BY DEF ScriptInv, PlotsInv, Plotting, FirstDirInv
<1> QED BY <1>1, ScriptInvariance, PTL

(* Within a month the script works on the directory that was written last. *)
THEOREM NewestIsChosenWithinMonth == ScriptSpec => []NewestWithinMonth
<1>1. ScriptInv => NewestWithinMonth
  BY DEF ScriptInv, NewestInv
<1> QED BY <1>1, ScriptInvariance, PTL

-----------------------------------------------------------------------------
(* What is never lost.                                                     *)

(* Neither a run in the same second nor the sorting in place loses a line, *)
(* of whatever size and however often it is in its file.                   *)
THEOREM NoLineIsLost == ScriptSpec => LinesAreKept
<1> DEFINE Kept(t, f) ==
             \A n : CopiesOf(logs'[t][f], n) >= CopiesOf(logs[t][f], n)
           AllKept ==
             \A t \in DOMAIN logs :
               t \in DOMAIN logs' /\ \A f \in Files : Kept(t, f)
<1>1. ASSUME ScriptTypeOK, NEW lines \in Seq(Sizes), NEW n
      PROVE  CopiesOf(lines, n) >= CopiesOf(lines, n)
  <2>1. DOMAIN lines = 1..Len(lines) /\ Len(lines) \in Int /\ 1 \in Int
    BY LenProperties
  <2>2. IsFiniteSet(DOMAIN lines)
    BY <2>1, FS_Interval
  <2>3. IsFiniteSet({k \in DOMAIN lines : lines[k] = n})
    BY <2>2, FS_Subset
  <2>4. CopiesOf(lines, n) \in Nat
    BY <2>3, FS_CardinalityType DEF CopiesOf
  <2> QED BY <2>4
<1>2. ASSUME ScriptInv, [ScriptNext]_scriptVars, pc # "idle"
      PROVE  AllKept
  <2>0. /\ ScriptTypeOK /\ ChosenInv
        /\ \A t \in DOMAIN logs, f \in Files : logs[t][f] \in Seq(Sizes)
    BY <1>2 DEF ScriptInv, ScriptTypeOK
  <2>1. CASE UNCHANGED logs
    BY <1>1, <2>0, <2>1
  <2>2. CASE RunBinary
    <3>1. CASE \E lines \in [Files -> NewLines] :
                 logs' = [t \in DOMAIN logs \cup {now} |->
                            IF t = now THEN Written(now, lines) ELSE logs[t]]
      <4>1. PICK lines \in [Files -> NewLines] :
              logs' = [t \in DOMAIN logs \cup {now} |->
                         IF t = now THEN Written(now, lines) ELSE logs[t]]
        BY <3>1
      <4>2. /\ DOMAIN logs \subseteq DOMAIN logs'
            /\ \A t \in DOMAIN logs, f \in Files :
                 logs'[t][f] = IF t = now THEN logs[t][f] \o lines[f]
                               ELSE logs[t][f]
        BY <2>0, <4>1, RunningTheBinary
      <4>3. \A f \in Files : lines[f] \in Seq(Sizes)
        BY <2>0, NewLinesAreLines
      <4>4. ASSUME NEW t \in DOMAIN logs, NEW f \in Files
            PROVE  Kept(t, f)
        <5>1. logs[t][f] \in Seq(Sizes) /\ lines[f] \in Seq(Sizes)
          BY <2>0, <4>3
        <5>2. \A n : /\ CopiesOf(logs[t][f], n) >= CopiesOf(logs[t][f], n)
                     /\ CopiesOf(logs[t][f] \o lines[f], n)
                          >= CopiesOf(logs[t][f], n)
          BY <1>1, <2>0, <5>1, AppendingKeepsCopies, Zenon
        <5>3. \/ logs'[t][f] = logs[t][f] \o lines[f]
              \/ logs'[t][f] = logs[t][f]
          BY <4>2
        <5> QED BY <5>2, <5>3, Zenon
      <4> QED BY <4>2, <4>4
    <3> QED BY <2>1, <2>2, <3>1 DEF RunBinary
  <2>3. CASE SortFile
    <3>1. PICK k \in First(todo) :
            \E lines \in Sorted(logs[chosen][FileNames[k]]) :
              logs' = [logs EXCEPT ![chosen][FileNames[k]] = lines]
      BY <2>3 DEF SortFile
    <3>2. PICK lines \in Sorted(logs[chosen][FileNames[k]]) :
            logs' = [logs EXCEPT ![chosen][FileNames[k]] = lines]
      BY <3>1
    <3>3. /\ lines \in Arrangements(logs[chosen][FileNames[k]])
          /\ lines \in Seq(Sizes)
          /\ DOMAIN logs' = DOMAIN logs
          /\ \A t \in DOMAIN logs, f \in Files :
               logs'[t][f] = IF t = chosen /\ f = FileNames[k]
                             THEN lines ELSE logs[t][f]
      <4>1. pc = "sorting"
        BY <2>3 DEF SortFile
      <4> QED BY <2>0, <3>2, <4>1, SortingOneFile, ZenonT(20)
    <3>4. ASSUME NEW t \in DOMAIN logs, NEW f \in Files
          PROVE  Kept(t, f)
      <4>1. CASE t = chosen /\ f = FileNames[k]
        <5>1. \A n : CopiesOf(lines, n) = CopiesOf(logs[t][f], n)
          BY <2>0, <3>3, <4>1, ArrangementKeepsCopies
        <5>2. \A n : CopiesOf(lines, n) >= CopiesOf(lines, n)
          BY <1>1, <2>0, <3>3
        <5> QED BY <3>3, <4>1, <5>1, <5>2
      <4>2. CASE ~(t = chosen /\ f = FileNames[k])
        <5>1. logs'[t][f] = logs[t][f]
          BY <3>3, <4>2
        <5>2. logs[t][f] \in Seq(Sizes)
          BY <2>0
        <5> QED BY <1>1, <2>0, <5>1, <5>2, Zenon
      <4> QED BY <4>1, <4>2
    <3> QED BY <3>3, <3>4
  <2>4. CASE \/ Tick \/ Clean \/ Call \/ Build \/ Choose \/ BeginPlots
             \/ PlotFile \/ CombinePlots \/ EndScript \/ UNCHANGED scriptVars
    <3>1. UNCHANGED logs
      BY <1>2, <2>4
         DEF Tick, Clean, Call, Build, Choose, BeginPlots, PlotFile,
             CombinePlots, EndScript, scriptVars
    <3> QED BY <2>1, <3>1
  <2> QED BY <1>2, <2>2, <2>3, <2>4 DEF ScriptNext, ScriptStep
<1>3. ScriptInv /\ [ScriptNext]_scriptVars =>
        [pc # "idle" =>
           \A t \in DOMAIN logs :
             /\ t \in DOMAIN logs'
             /\ \A f \in Files : \A n \in ToSet(logs[t][f]) :
                  CopiesOf(logs'[t][f], n) >= CopiesOf(logs[t][f], n)]_scriptVars
  BY <1>2
<1> QED BY <1>3, ScriptInvariance, PTL DEF ScriptSpec, LinesAreKept

=============================================================================
