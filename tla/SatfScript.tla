----------------------------- MODULE SatfScript -----------------------------
(***************************************************************************)
(* satf.sh, called again and again: it builds the program, runs it, takes  *)
(* the last log directory, sorts its files and plots them.  A line of a    *)
(* log is represented by its size; time and comparisons are functions of   *)
(* it, of which one is modelled.                                           *)
(***************************************************************************)
EXTENDS Integers, Sequences, FiniteSets, SequencesExt, Functions

CONSTANTS
  Year, Month,    \* of each second of local time, from 1 on
  Arguments,      \* the pairs <<MIN_SIZE, MAX_SIZE>> it is called with
  MaxSize,        \* a bound on MAX_SIZE
  FileNames,      \* the pairs <<DIR, FILE>> as ls lists them
  Comparisons,    \* of a measurement of a size, or its time
  MaxCalls        \* a bound on the calls of the script

Seconds == DOMAIN Year
Files == ToSet(FileNames)
Sizes == 1..MaxSize

(* ls lists the files of a DIR one after the other.  The script assumes    *)
(* that what is measured grows with the size.                              *)
ASSUME ScriptAssumption ==
  /\ Year \in Seq(Nat) /\ Month \in [Seconds -> 1..12] /\ Len(Year) > 0
  /\ MaxSize \in Nat /\ Arguments \subseteq (0..MaxSize) \X (0..MaxSize)
  /\ FileNames \in Seq(STRING \X STRING)
  /\ \A i, j, k \in DOMAIN FileNames :
       i < j /\ j < k /\ FileNames[i][1] = FileNames[k][1]
         => FileNames[j][1] = FileNames[i][1]
  /\ Comparisons \in [Sizes -> Nat]
  /\ \A m, n \in Sizes : m < n => Comparisons[m] <= Comparisons[n]
  /\ MaxCalls \in Nat

VARIABLES
  now,            \* the second, of which a run names its directory
  calls,          \* the calls so far
  pc, arguments,  \* where the script is, and what it was called with
  binary,         \* whether build/satf is executable
  logs,           \* the directories of logs/, and the lines of their files;
                  \* a file without a line does not exist
  newest,         \* the directory written last, 0 if there is none
  chosen,         \* LAST_LOG, 0 if there is none
  todo,           \* the positions in FileNames that the loop has still to
                  \* handle
  overall_max,    \* OVERALL_MAX_COMPARISONS, or _TIME
  plots,          \* the files plotted by this call
  plot_line,      \* ALL_IN_ONE_PLOT_LINE: files, and if a comma follows
  combined        \* the DIRs whose combined plot this call has drawn

plotVars == <<chosen, todo, overall_max, plots, plot_line, combined>>
scriptVars == <<now, calls, pc, arguments, binary, logs, newest, plotVars>>

ScriptInit ==
  /\ now = 1 /\ calls = 0
  /\ pc = "idle" /\ arguments = <<0, 0>>
  /\ binary = FALSE
  /\ logs = <<>> /\ newest = 0
  /\ chosen = 0 /\ todo = {} /\ overall_max = 0
  /\ plots = {} /\ plot_line = <<>> /\ combined = {}

Tick ==
  /\ now < Len(Year)
  /\ now' = now + 1
  /\ UNCHANGED <<calls, pc, arguments, binary, logs, newest, plotVars>>

(* satf.sh clean                                                           *)
Clean ==
  /\ pc = "idle"
  /\ binary' = FALSE /\ logs' = <<>> /\ newest' = 0
  /\ UNCHANGED <<now, calls, pc, arguments, plotVars>>

Call ==
  /\ pc = "idle" /\ calls < MaxCalls
  /\ calls' = calls + 1
  /\ arguments' \in Arguments
  /\ pc' = IF binary THEN "running" ELSE "building"
  /\ UNCHANGED <<now, binary, logs, newest, plotVars>>

(* Without a binary the script exits.                                      *)
Build ==
  /\ pc = "building"
  /\ binary' \in BOOLEAN
  /\ pc' = IF binary' THEN "running" ELSE "idle"
  /\ UNCHANGED <<now, calls, arguments, logs, newest, plotVars>>

(* The lines that a run may write to a file: in any order, and not all of  *)
(* them when it fails.                                                     *)
NewLines ==
  LET sizes == {n \in arguments[1] .. arguments[2] : n > 0}
  IN  UNION {SetToSeqs(S) : S \in SUBSET sizes}

Existing(t) == IF t \in DOMAIN logs THEN logs[t] ELSE [f \in Files |-> <<>>]

Written_Replaces(t, lines) == lines

(* A second run within a second appends to the files of the first.         *)
Written(t, lines) == [f \in Files |-> Existing(t)[f] \o lines[f]]

(* The program makes its directory, unless it cannot or refuses its        *)
(* arguments; the script goes on whatever the program returns.             *)
RunBinary ==
  /\ pc = "running"
  /\ \/ UNCHANGED <<logs, newest>>
     \/ /\ arguments[1] <= arguments[2]
        /\ newest' = now
        /\ \E lines \in [Files -> NewLines] :
             logs' = [t \in DOMAIN logs \cup {now} |->
                        IF t = now THEN Written(now, lines) ELSE logs[t]]
  /\ pc' = "choosing"
  /\ UNCHANGED <<now, calls, arguments, binary, plotVars>>

(* The order of ls: the names hold the year, the name of the month, and    *)
(* the rest in numbers of fixed width.  From "Apr" to "Sep":               *)
MonthRank == <<5, 4, 8, 1, 9, 7, 6, 2, 12, 11, 10, 3>>

NamedBefore(s, t) ==
  \/ Year[s] < Year[t]
  \/ /\ Year[s] = Year[t]
     /\ \/ MonthRank[Month[s]] < MonthRank[Month[t]]
        \/ Month[s] = Month[t] /\ s < t

LastLog_First ==
  {t \in DOMAIN logs : \A s \in DOMAIN logs \ {t} : NamedBefore(t, s)}

(* The last directory of ls, as a set; there is none in an empty logs/.    *)
LastLog ==
  {t \in DOMAIN logs : \A s \in DOMAIN logs \ {t} : NamedBefore(s, t)}

Listed(t) == {k \in DOMAIN FileNames : Existing(t)[FileNames[k]] # <<>>}

(* The file of the loop's next round, as a set.                            *)
First(positions) == {k \in positions : \A j \in positions : k <= j}

Choose_NeedsLog ==
  /\ pc = "choosing" /\ DOMAIN logs # {}
  /\ chosen' \in LastLog
  /\ todo' = Listed(chosen')
  /\ overall_max' = 0
  /\ plots' = {} /\ plot_line' = <<>> /\ combined' = {}
  /\ pc' = "sorting"
  /\ UNCHANGED <<now, calls, arguments, binary, logs, newest>>

Choose ==
  /\ pc = "choosing"
  /\ chosen' \in IF DOMAIN logs = {} THEN {0} ELSE LastLog
  /\ todo' = Listed(chosen')
  /\ overall_max' = 0
  /\ plots' = {} /\ plot_line' = <<>> /\ combined' = {}
  /\ pc' = "sorting"
  /\ UNCHANGED <<now, calls, arguments, binary, logs, newest>>

Arrangements(lines) ==
  {[k \in DOMAIN lines |-> lines[p[k]]] :
     p \in Bijection(DOMAIN lines, DOMAIN lines)}

Sorted_AsText(lines) ==
  LET FirstDigit(n) == IF n < 10 THEN n ELSE n \div 10
  IN  {s \in Arrangements(lines) : \A j, k \in DOMAIN s :
         j < k => FirstDigit(s[j]) <= FirstDigit(s[k])}

(* The outcomes of sort -n.                                                *)
Sorted(lines) ==
  {s \in Arrangements(lines) : \A j, k \in DOMAIN s : j < k => s[j] <= s[k]}

Larger(m, n) == IF m > n THEN m ELSE n

MaximumOf_FirstLine(lines) == Comparisons[Head(lines)]

(* tail -n1                                                                *)
MaximumOf(lines) == Comparisons[Last(lines)]

SortFile ==
  /\ pc = "sorting"
  /\ \E k \in First(todo) :
       \E lines \in Sorted(logs[chosen][FileNames[k]]) :
         /\ logs' = [logs EXCEPT ![chosen][FileNames[k]] = lines]
         /\ overall_max' = Larger(overall_max, MaximumOf(lines))
         /\ todo' = todo \ {k}
  /\ UNCHANGED <<now, calls, pc, arguments, binary, newest, chosen, plots,
                 plot_line, combined>>

BeginPlots ==
  /\ pc = "sorting" /\ todo = {}
  /\ overall_max' = Larger(overall_max, 1)
  /\ todo' = Listed(chosen)
  /\ pc' = "plotting"
  /\ UNCHANGED <<now, calls, arguments, binary, logs, newest, chosen, plots,
                 plot_line, combined>>

(* The plot of a file; the last of a DIR is followed by the combined plot. *)
PlotFile ==
  /\ pc = "plotting"
  /\ \E k \in First(todo) :
       /\ todo' = todo \ {k}
       /\ plots' = plots \cup {FileNames[k]}
       /\ plot_line' = Append(plot_line, [file |-> FileNames[k], comma |-> TRUE])
       /\ pc' = IF \E j \in todo' : FileNames[j][1] = FileNames[k][1]
                THEN "plotting" ELSE "combining"
  /\ UNCHANGED <<now, calls, arguments, binary, logs, newest, chosen,
                 overall_max, combined>>

Trimmed_Not(line) == line

(* The ", " at the end is removed.                                         *)
Trimmed(line) == [line EXCEPT ![Len(line)].comma = FALSE]

(* gnuplot draws nothing from a line that is not well-formed.              *)
WellFormed(line) ==
  \A k \in DOMAIN line : line[k].comma <=> k < Len(line)

CombinePlots ==
  /\ pc = "combining"
  /\ plot_line' = Trimmed(plot_line)
  /\ combined' = IF WellFormed(plot_line')
                 THEN combined \cup {Last(plot_line).file[1]} ELSE combined
  /\ pc' = "plotting"
  /\ UNCHANGED <<now, calls, arguments, binary, logs, newest, chosen, todo,
                 overall_max, plots>>

EndScript ==
  /\ pc = "plotting" /\ todo = {}
  /\ pc' = "idle"
  /\ UNCHANGED <<now, calls, arguments, binary, logs, newest, plotVars>>

ScriptStep ==
  \/ Build \/ RunBinary \/ Choose
  \/ SortFile \/ BeginPlots
  \/ PlotFile \/ CombinePlots \/ EndScript

ScriptNext == ScriptStep \/ Call \/ Clean \/ Tick

ScriptSpec == ScriptInit /\ [][ScriptNext]_scriptVars

(* The script makes its next step; nobody needs to call it.                *)
ScriptFairSpec == ScriptSpec /\ WF_scriptVars(ScriptStep)

-----------------------------------------------------------------------------
Plotting == pc \in {"plotting", "combining"}

(* gnuplot joins the points of a file in the order of its lines: no file   *)
(* is plotted before it has been sorted by size, also above 9, though the  *)
(* program writes it in any order.                                         *)
SortedWhenPlotted ==
  Plotting =>
    \A f \in Files : \A j, k \in DOMAIN Existing(chosen)[f] :
      j < k => Existing(chosen)[f][j] <= Existing(chosen)[f][k]

(* The common range of all plots takes in every measurement, as long as    *)
(* what is measured grows with the size, and is never empty.               *)
RangeCoversPlots ==
  Plotting =>
    /\ overall_max > 0
    /\ \A f \in Files : \A n \in ToSet(Existing(chosen)[f]) :
         Comparisons[n] <= overall_max

(* At the end each file has been plotted, and the files of the first DIR   *)
(* have been combined (those of the others are not).                       *)
PlotsComplete ==
  (pc = "plotting" /\ todo = {}) =>
    /\ plots = {FileNames[k] : k \in Listed(chosen)}
    /\ \A k \in First(Listed(chosen)) : FileNames[k][1] \in combined

(* The directory chosen is the one written last, if all are of one month.  *)
NewestWithinMonth ==
  (pc = "sorting" /\ DOMAIN logs # {}
     /\ \A s, t \in DOMAIN logs : Year[s] = Year[t] /\ Month[s] = Month[t])
  => chosen = newest

(* The script works on the last generated log directory (satf.sh:56).      *)
LastLogIsNewest == pc = "sorting" => chosen = newest

CopiesOf(lines, n) == Cardinality({k \in DOMAIN lines : lines[k] = n})

(* No call loses a line of an earlier or of its own run, and "clean" loses *)
(* all.                                                                    *)
LinesAreKept ==
  [][pc # "idle" =>
       \A t \in DOMAIN logs :
         /\ t \in DOMAIN logs'
         /\ \A f \in Files : \A n \in ToSet(logs[t][f]) :
              CopiesOf(logs'[t][f], n) >= CopiesOf(logs[t][f], n)]_scriptVars

(* Each call ends, also when there is no log to plot.                      *)
ScriptEnds == (pc # "idle") ~> (pc = "idle")

=============================================================================
