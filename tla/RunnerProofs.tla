---------------------------- MODULE RunnerProofs ----------------------------
(***************************************************************************)
(* What holds of Runner for every campaign, plan and bound: types, and     *)
(* then, as long as every append starts on a line of its own, that what a  *)
(* process believes finished is on disk, no readable row is lost, skipped  *)
(* cells were announced, and the exit status tells the truth.              *)
(***************************************************************************)
EXTENDS Runner, SequenceTheorems, TLAPS

-----------------------------------------------------------------------------
(* The text of a file (LedgerFile).                                        *)

\* A file stays a file, whatever is written at its end and however much of it
\* arrives.
LEMMA PutType ==
  ASSUME NEW f \in File, NEW text \in Line, NEW ended \in BOOLEAN
  PROVE  Put(f, text, ended) \in File
<1>1. f.lines \in Seq(Line) /\ f.ended \in BOOLEAN
  BY DEF File
<1>2. Garbage \in Line
  BY DEF Line
<1>3. Append(f.lines, text) \in Seq(Line)
  BY <1>1, AppendProperties
<1>4. [f.lines EXCEPT ![Len(f.lines)] = Garbage] \in Seq(Line)
  <2>1. CASE f.lines = <<>>
    <3>1. DOMAIN [f.lines EXCEPT ![Len(f.lines)] = Garbage] = {}
      BY <2>1
    <3>2. [f.lines EXCEPT ![Len(f.lines)] = Garbage] = f.lines
      BY <2>1, <3>1
    <3> QED
      BY <1>1, <3>2
  <2>2. CASE f.lines # <<>>
    <3>1. Len(f.lines) \in 1 .. Len(f.lines)
      BY <1>1, <2>2
    <3> QED
      BY <1>1, <1>2, <3>1, ExceptSeq
  <2> QED
    BY <2>1, <2>2
<1> QED
  BY <1>3, <1>4 DEF Put, File

\* What Ledger.append leaves behind is a file, whether it succeeds or is cut short.
LEMMA AppendType ==
  ASSUME NEW f \in File, NEW row \in Row
  PROVE  /\ PutRow(f, row) \in File
         /\ PutTorn(f, row) \subseteq File
         /\ \A torn \in BOOLEAN : PutFailed(f, row, torn) \subseteq File
<1>1. row \in Line /\ Garbage \in Line
  BY DEF Line
<1>2. PutRow(f, row) \in File
  BY <1>1, PutType DEF PutRow
<1>3. PutTorn(f, row) \subseteq File
  BY <1>1, PutType DEF PutTorn
<1> QED
  BY <1>2, <1>3 DEF PutFailed

\* On a finished line a write adds one line and touches no other.
LEMMA PutOnEndedLine ==
  ASSUME NEW f \in File, f.ended, NEW text \in Line, NEW ended \in BOOLEAN
  PROVE  LET g == Put(f, text, ended) IN
         /\ g.ended = ended
         /\ \A i \in RowsOf(f) : i \in RowsOf(g) /\ g.lines[i] = f.lines[i]
         /\ text # Garbage => \E i \in RowsOf(g) : g.lines[i] = text
<1> DEFINE g == Put(f, text, ended)
<1>1. f.lines \in Seq(Line)
  BY DEF File
<1>2. g = [lines |-> Append(f.lines, text), ended |-> ended]
  BY DEF Put
<1>3. /\ g.lines \in Seq(Line)
      /\ Len(g.lines) = Len(f.lines) + 1
      /\ \A i \in 1 .. Len(f.lines) : g.lines[i] = f.lines[i]
      /\ g.lines[Len(f.lines) + 1] = text
  BY <1>1, <1>2, AppendProperties
<1>4. DOMAIN f.lines = 1 .. Len(f.lines) /\ DOMAIN g.lines = 1 .. (Len(f.lines) + 1)
  BY <1>1, <1>3
<1>5. Len(f.lines) \in Nat
  BY <1>1
<1> QED
  BY <1>2, <1>3, <1>4, <1>5 DEF RowsOf

-----------------------------------------------------------------------------
(* Types.                                                                  *)

\* The row of the cell in progress is a row.
LEMMA RowNowType ==
  ASSUME TypeOK, NEW w \in Writer, pc[w] = "body", NEW failed \in BOOLEAN
  PROVE  RowNow(w, failed) \in Row /\ FileOf(w) \in FileName
BY RunnerAssumption DEF TypeOK, RowNow, Row, FileName

\* A plan is a sequence of experiments, and a writer stands at one of them or
\* behind the last.
LEMMA PlanType ==
  ASSUME TypeOK, NEW w \in Writer
  PROVE  /\ Len(Plan[w]) \in Nat
         /\ at[w].exp \in Nat \ {0} /\ at[w].step \in Nat \ {0}
         /\ Remaining(w) => Here(w).name \in Experiment
<1> DEFINE Entry == [name : Experiment, steps : Seq(Cell \cup {Summary})]
<1>1. Plan[w] \in Seq(Entry)
  BY RunnerAssumption
<1> HIDE DEF Entry
<1>2. Len(Plan[w]) \in Nat /\ \A i \in 1 .. Len(Plan[w]) : Plan[w][i] \in Entry
  BY <1>1
<1>3. at[w].exp \in Nat \ {0} /\ at[w].step \in Nat \ {0}
  BY DEF TypeOK
<1>4. ASSUME Remaining(w) PROVE Here(w).name \in Experiment
  <2>1. at[w].exp \in 1 .. Len(Plan[w])
    BY <1>2, <1>3, <1>4 DEF Remaining
  <2>2. Plan[w][at[w].exp] \in Entry
    BY <1>2, <2>1
  <2> QED
    BY <2>2 DEF Here, Entry
<1> QED
  BY <1>2, <1>3, <1>4

\* NextExperiment leaves a writer inside its plan or just behind it, and no
\* position of another writer changes.
LEMMA NextExperimentType ==
  ASSUME TypeOK, NEW w \in Writer, Remaining(w), NextExperiment(w)
  PROVE  /\ at' \in [Writer -> [exp : Nat \ {0}, step : Nat \ {0}]]
         /\ \A v \in Writer : at'[v].exp <= Len(Plan[v]) + 1
         /\ \A v \in Writer \ {w} : at'[v] = at[v]
<1>1. Len(Plan[w]) \in Nat /\ at[w].exp \in Nat \ {0}
  BY PlanType
<1>2. at[w].exp + 1 <= Len(Plan[w]) + 1
  BY <1>1 DEF Remaining
<1>3. at'[w] = [exp |-> at[w].exp + 1, step |-> 1]
  BY DEF TypeOK, NextExperiment
<1>4. \A v \in Writer \ {w} : at'[v] = at[v]
  BY DEF TypeOK, NextExperiment
<1>5. at' \in [Writer -> [exp : Nat \ {0}, step : Nat \ {0}]]
  BY <1>1 DEF TypeOK, NextExperiment
<1>6. ASSUME NEW v \in Writer PROVE at'[v].exp <= Len(Plan[v]) + 1
  <2>1. CASE v = w
    BY <1>2, <1>3, <2>1
  <2>2. CASE v # w
    <3>1. at'[v] = at[v]
      BY <1>4, <2>2
    <3> QED
      BY <3>1 DEF TypeOK
  <2> QED
    BY <2>1, <2>2
<1> QED
  BY <1>4, <1>5, <1>6

\* A writer that neither moves nor changes its state keeps the promise that a
\* body belongs to a cell of its plan.
LEMMA BodyKept ==
  ASSUME TypeOK, NEW v \in Writer, at'[v] = at[v], pc'[v] = pc[v]
  PROVE  pc'[v] = "body" => StepsLeft(v)' /\ StepNow(v)' \in Cell
BY DEF TypeOK, StepsLeft, StepNow, Here, Remaining

\* A writer that is in a body has an experiment left.
LEMMA BodyRemains ==
  ASSUME TypeOK, NEW w \in Writer, pc[w] = "body"
  PROVE  Remaining(w)
BY DEF TypeOK, StepsLeft

\* A step that takes one writer out of its body and moves no other.
LEMMA LeavesBody ==
  ASSUME TypeOK, NEW w \in Writer, NEW loc \in {"down", "open", "run"},
         pc' = [pc EXCEPT ![w] = loc], \A v \in Writer \ {w} : at'[v] = at[v]
  PROVE  /\ pc' \in [Writer -> {"down", "open", "run", "body"}]
         /\ \A v \in Writer : pc'[v] = "body" => StepsLeft(v)' /\ StepNow(v)' \in Cell
<1>1. ASSUME NEW v \in Writer
      PROVE  pc'[v] = "body" => StepsLeft(v)' /\ StepNow(v)' \in Cell
  <2>1. CASE v = w
    BY <2>1 DEF TypeOK
  <2>2. CASE v # w
    BY <2>2, BodyKept DEF TypeOK
  <2> QED
    BY <2>1, <2>2
<1> QED
  BY <1>1 DEF TypeOK

\* A step forward in the current experiment, after which the writer is between
\* two cells.
LEMMA NextStepType ==
  ASSUME TypeOK, NEW w \in Writer, NextStep(w),
         pc' = [pc EXCEPT ![w] = "run"] \/ (UNCHANGED pc /\ pc[w] = "run")
  PROVE  /\ pc' \in [Writer -> {"down", "open", "run", "body"}]
         /\ at' \in [Writer -> [exp : Nat \ {0}, step : Nat \ {0}]]
         /\ \A v \in Writer : at'[v].exp <= Len(Plan[v]) + 1
         /\ \A v \in Writer : pc'[v] = "body" => StepsLeft(v)' /\ StepNow(v)' \in Cell
<1>1. pc' = [pc EXCEPT ![w] = "run"]
  BY DEF TypeOK
<1>2. \A v \in Writer : at'[v].exp = at[v].exp /\ (v # w => at'[v] = at[v])
  BY DEF TypeOK, NextStep
<1>3. at' \in [Writer -> [exp : Nat \ {0}, step : Nat \ {0}]]
  BY DEF TypeOK, NextStep
<1>4. \A v \in Writer : at'[v].exp <= Len(Plan[v]) + 1
  BY <1>2 DEF TypeOK
<1> QED
  BY <1>1, <1>2, <1>3, <1>4, LeavesBody

LEMMA FaultType ==
  ASSUME TypeOK, NEW kind, Fault(kind)
  PROVE  faults' \in 0..MaxFaults
BY RunnerAssumption DEF TypeOK, Fault

LEMMA AppendRowType ==
  ASSUME TypeOK, NEW w \in Writer, pc[w] = "body", NEW failed \in BOOLEAN,
         AppendRow(w, failed)
  PROVE  disk' \in [FileName -> File]
BY RowNowType, AppendType DEF TypeOK, AppendRow

\* One step of aborting an experiment.
LEMMA AbortType ==
  ASSUME TypeOK, NEW w \in Writer, Remaining(w), Abort(w)
  PROVE  /\ pc' \in [Writer -> {"down", "open", "run", "body"}]
         /\ at' \in [Writer -> [exp : Nat \ {0}, step : Nat \ {0}]]
         /\ failures' \in [Writer -> SUBSET Experiment]
         /\ \A v \in Writer : at'[v].exp <= Len(Plan[v]) + 1
         /\ \A v \in Writer : pc'[v] = "body" => StepsLeft(v)' /\ StepNow(v)' \in Cell
<1>1. Here(w).name \in Experiment
  BY PlanType
<1>2. pc' = [pc EXCEPT ![w] = "run"] /\ NextExperiment(w)
  BY DEF Abort
<1>3. failures' \in [Writer -> SUBSET Experiment]
  BY <1>1 DEF TypeOK, Abort
<1>4. ASSUME NEW v \in Writer
      PROVE  pc'[v] = "body" => StepsLeft(v)' /\ StepNow(v)' \in Cell
  <2>1. CASE v = w
    BY <1>2, <2>1 DEF TypeOK
  <2>2. CASE v # w
    BY <1>2, <2>2, BodyKept, NextExperimentType DEF TypeOK
  <2> QED
    BY <2>1, <2>2
<1> QED
  BY <1>2, <1>3, <1>4, NextExperimentType DEF TypeOK

-----------------------------------------------------------------------------
\* Every variable keeps its type, and no writer runs past the end of its plan.
LEMMA InitType == Init => TypeOK
<1> SUFFICES ASSUME Init PROVE TypeOK
  OBVIOUS
<1>1. EmptyFile \in File
  BY DEF EmptyFile, File
<1>2. \A w \in Writer : Len(Plan[w]) \in Nat
  BY RunnerAssumption
<1>3. 0 \in 0..MaxLaunches /\ 0 \in 0..MaxFaults
  BY RunnerAssumption
<1> QED
  BY <1>1, <1>2, <1>3 DEF Init, TypeOK

LEMMA StepType == TypeOK /\ [Next]_vars => TypeOK'
<1> SUFFICES ASSUME TypeOK, [Next]_vars PROVE TypeOK'
  OBVIOUS
<1> USE RunnerAssumption
<1>1. ASSUME NEW w \in Writer, Open(w) PROVE TypeOK'
  <2>1. launches[w] + 1 \in 0..MaxLaunches
    BY <1>1 DEF Open, TypeOK
  <2>2. CellsOn(disk) \subseteq Cell
    BY DEF CellsOn
  <2>3. \A v \in Writer : Len(Plan[v]) \in Nat
    OBVIOUS
  <2>4. ASSUME NEW v \in Writer
        PROVE  pc'[v] = "body" => StepsLeft(v)' /\ StepNow(v)' \in Cell
    <3>1. CASE v = w
      BY <1>1, <3>1 DEF Open, TypeOK
    <3>2. CASE v # w
      BY <1>1, <3>2, BodyKept DEF Open, TypeOK
    <3> QED
      BY <3>1, <3>2
  <2>5. ASSUME NEW v \in Writer PROVE at'[v].exp <= Len(Plan[v]) + 1
    <3>1. at'[v] = at[v] \/ at'[v] = [exp |-> 1, step |-> 1]
      BY <1>1 DEF Open, TypeOK
    <3> QED
      BY <2>3, <3>1 DEF TypeOK
  <2> QED
    BY <1>1, <2>1, <2>2, <2>4, <2>5 DEF Open, TypeOK
<1>2. ASSUME NEW w \in Writer, Warn(w) PROVE TypeOK'
  <2>1. Experiments(w) \subseteq Experiment
    <3>1. ASSUME NEW i \in 1..Len(Plan[w]) PROVE Plan[w][i].name \in Experiment
      <4> DEFINE Entry == [name : Experiment, steps : Seq(Cell \cup {Summary})]
      <4>1. Plan[w] \in Seq(Entry)
        OBVIOUS
      <4> HIDE DEF Entry
      <4>2. Plan[w][i] \in Entry
        BY <4>1
      <4> QED
        BY <4>2 DEF Entry
    <3> QED
      BY <3>1 DEF Experiments
  <2>2. warned' \in [Writer -> SUBSET Experiment]
    BY <1>2, <2>1 DEF Warn, TypeOK
  <2>3. \A v \in Writer : pc'[v] = "body" => StepsLeft(v)' /\ StepNow(v)' \in Cell
    BY <1>2, BodyKept DEF Warn, TypeOK
  <2> QED
    BY <1>2, <2>2, <2>3 DEF Warn, TypeOK
<1>3. ASSUME NEW w \in Writer, WarnRaises(w) PROVE TypeOK'
  <2>1. /\ pc' = [pc EXCEPT ![w] = "down"] /\ UNCHANGED at
        /\ exit' \in [Writer -> {"none", "zero", "one", "dead"}]
    BY <1>3 DEF WarnRaises, Exits, TypeOK
  <2> QED
    BY <1>3, <2>1, LeavesBody DEF WarnRaises, TypeOK
<1>4. ASSUME NEW w \in Writer, Skip(w) PROVE TypeOK'
  <2>1. UNCHANGED pc /\ pc[w] = "run" /\ NextStep(w)
    BY <1>4 DEF Skip
  <2> QED
    BY <1>4, <2>1, NextStepType DEF Skip, TypeOK
<1>5. ASSUME NEW w \in Writer, Start(w) PROVE TypeOK'
  <2>1. ASSUME NEW v \in Writer
        PROVE  pc'[v] = "body" => StepsLeft(v)' /\ StepNow(v)' \in Cell
    <3>1. CASE v = w
      BY <1>5, <3>1 DEF Start, TypeOK, StepsLeft, StepNow, Here, Remaining
    <3>2. CASE v # w
      BY <1>5, <3>2, BodyKept DEF Start, TypeOK
    <3> QED
      BY <3>1, <3>2
  <2> QED
    BY <1>5, <2>1 DEF Start, TypeOK
<1>6. ASSUME NEW w \in Writer, NEW failed \in BOOLEAN, Record(w, failed) PROVE TypeOK'
  <2>1. disk' \in [FileName -> File]
    BY <1>6, AppendRowType DEF Record
  <2>2. finished' \in [Writer -> SUBSET Cell]
    BY <1>6 DEF Record, TypeOK
  <2>3. pc' = [pc EXCEPT ![w] = "run"] /\ NextStep(w)
    BY <1>6 DEF Record
  <2> QED
    BY <1>6, <2>1, <2>2, <2>3, NextStepType DEF Record, TypeOK
<1>7. ASSUME NEW w \in Writer, NEW failed \in BOOLEAN, RecordError(w, failed) PROVE TypeOK'
  <2>1. pc[w] = "body" /\ Abort(w) /\ UNCHANGED <<finished, launches>>
    BY <1>7 DEF RecordError
  <2>2. PICK torn \in BOOLEAN :
          /\ Fault(IF torn THEN "tornError" ELSE "writeError")
          /\ \E f \in PutFailed(disk[FileOf(w)], RowNow(w, failed), torn) :
               disk' = [disk EXCEPT ![FileOf(w)] = f]
    BY <1>7 DEF RecordError
  <2>6. PICK f \in PutFailed(disk[FileOf(w)], RowNow(w, failed), torn) :
          disk' = [disk EXCEPT ![FileOf(w)] = f]
    BY <2>2
  <2>3. f \in File
    BY <2>1, <2>6, RowNowType, AppendType DEF TypeOK
  <2>4. disk' \in [FileName -> File]
    BY <2>6, <2>3 DEF TypeOK
  <2>5. faults' \in 0..MaxFaults
    BY <2>2, FaultType
  <2> QED
    BY <2>1, <2>4, <2>5, BodyRemains, AbortType DEF TypeOK, Abort
<1>8. ASSUME NEW w \in Writer, NEW failed \in BOOLEAN, LogRaises(w, failed) PROVE TypeOK'
  <2>1. pc[w] = "body" /\ Abort(w) /\ UNCHANGED launches
    BY <1>8 DEF LogRaises
  <2>2. disk' \in [FileName -> File]
    BY <1>8, AppendRowType DEF LogRaises
  <2>3. finished' \in [Writer -> SUBSET Cell]
    BY <1>8 DEF LogRaises, TypeOK
  <2>4. faults' \in 0..MaxFaults
    BY <1>8, FaultType DEF LogRaises
  <2> QED
    BY <2>1, <2>2, <2>3, <2>4, BodyRemains, AbortType DEF TypeOK, Abort
<1>9. ASSUME NEW w \in Writer, Escape(w) PROVE TypeOK'
  <2>1. pc[w] = "body" /\ Abort(w) /\ UNCHANGED <<disk, finished, launches>>
    BY <1>9 DEF Escape
  <2>2. faults' \in 0..MaxFaults
    BY <1>9, FaultType DEF Escape
  <2> QED
    BY <2>1, <2>2, BodyRemains, AbortType DEF TypeOK, Abort
<1>10. ASSUME NEW w \in Writer, Summarise(w) PROVE TypeOK'
  <2>1. UNCHANGED pc /\ pc[w] = "run" /\ NextStep(w)
    BY <1>10 DEF Summarise
  <2> QED
    BY <1>10, <2>1, NextStepType DEF Summarise, TypeOK
<1>11. ASSUME NEW w \in Writer, SummaryRaises(w) PROVE TypeOK'
  <2>1. Remaining(w) /\ Abort(w) /\ UNCHANGED <<disk, finished, launches>>
    BY <1>11 DEF SummaryRaises, StepsLeft
  <2>2. faults' \in 0..MaxFaults
    BY <1>11, FaultType DEF SummaryRaises, TypeOK
  <2> QED
    BY <2>1, <2>2, AbortType DEF TypeOK, Abort
<1>12. ASSUME NEW w \in Writer, EndExperiment(w) PROVE TypeOK'
  <2>1. Remaining(w) /\ NextExperiment(w) /\ UNCHANGED pc /\ pc[w] = "run"
    BY <1>12 DEF EndExperiment
  <2>2. ASSUME NEW v \in Writer
        PROVE  pc'[v] = "body" => StepsLeft(v)' /\ StepNow(v)' \in Cell
    <3>1. CASE v = w
      BY <2>1, <3>1
    <3>2. CASE v # w
      BY <2>1, <3>2, BodyKept, NextExperimentType
    <3> QED
      BY <3>1, <3>2
  <2> QED
    BY <1>12, <2>1, <2>2, NextExperimentType DEF EndExperiment, TypeOK
<1>13. ASSUME NEW w \in Writer, Finish(w) PROVE TypeOK'
  <2>1. pc' = [pc EXCEPT ![w] = "down"] /\ UNCHANGED at
    BY <1>13 DEF Finish, Exits
  <2>2. exit' \in [Writer -> {"none", "zero", "one", "dead"}]
    BY <1>13 DEF Finish, Exits, TypeOK
  <2> QED
    BY <1>13, <2>1, <2>2, LeavesBody DEF Finish, TypeOK
<1>14. ASSUME NEW w \in Writer, Kill(w) PROVE TypeOK'
  <2>1. pc' = [pc EXCEPT ![w] = "down"] /\ UNCHANGED at
    BY <1>14 DEF Kill, Exits
  <2>2. exit' \in [Writer -> {"none", "zero", "one", "dead"}]
    BY <1>14 DEF Kill, Exits, TypeOK
  <2>3. faults' \in 0..MaxFaults
    BY <1>14, FaultType DEF Kill
  <2> QED
    BY <1>14, <2>1, <2>2, <2>3, LeavesBody DEF Kill, TypeOK
<1>15. ASSUME NEW w \in Writer, NEW failed \in BOOLEAN, KillAfterAppend(w, failed)
       PROVE  TypeOK'
  <2>1. pc' = [pc EXCEPT ![w] = "down"] /\ UNCHANGED at
    BY <1>15 DEF KillAfterAppend, Exits
  <2>2. exit' \in [Writer -> {"none", "zero", "one", "dead"}]
    BY <1>15 DEF KillAfterAppend, Exits, TypeOK
  <2>3. disk' \in [FileName -> File]
    BY <1>15, AppendRowType DEF KillAfterAppend
  <2>4. faults' \in 0..MaxFaults
    BY <1>15, FaultType DEF KillAfterAppend
  <2> QED
    BY <1>15, <2>1, <2>2, <2>3, <2>4, LeavesBody DEF KillAfterAppend, TypeOK
<1>16. ASSUME NEW w \in Writer, NEW failed \in BOOLEAN, KillInAppend(w, failed)
       PROVE  TypeOK'
  <2>1. pc' = [pc EXCEPT ![w] = "down"] /\ UNCHANGED at /\ pc[w] = "body"
    BY <1>16 DEF KillInAppend, Exits
  <2>2. exit' \in [Writer -> {"none", "zero", "one", "dead"}]
    BY <1>16 DEF KillInAppend, Exits, TypeOK
  <2>3. PICK f \in PutTorn(disk[FileOf(w)], RowNow(w, failed)) :
          disk' = [disk EXCEPT ![FileOf(w)] = f]
    BY <1>16 DEF KillInAppend
  <2>4. disk' \in [FileName -> File]
    BY <2>1, <2>3, RowNowType, AppendType DEF TypeOK
  <2>5. faults' \in 0..MaxFaults
    BY <1>16, FaultType DEF KillInAppend
  <2> QED
    BY <1>16, <2>1, <2>2, <2>4, <2>5, LeavesBody DEF KillInAppend, TypeOK
<1>17. CASE UNCHANGED vars
  BY <1>17, BodyKept DEF vars, process, TypeOK
<1> QED
  BY <1>1, <1>2, <1>3, <1>4, <1>5, <1>6, <1>7, <1>8, <1>9, <1>10, <1>11, <1>12,
     <1>13, <1>14, <1>15, <1>16, <1>17 DEF Next, Run, Disturb

\* Every variable keeps its type, no writer runs past its plan, and a body is
\* always that of a cell (runner.py:253-267).
THEOREM TypeCorrect == Spec => []TypeOK
  BY InitType, StepType, PTL DEF Spec

-----------------------------------------------------------------------------
(* Ledgers and their processes, as long as every append starts on a line.  *)

\* When every append starts on a line of its own: no append is torn in a
\* process that lives on, and what a kill may tear is never appended to again,
\* because every writer has a file for itself and is launched once.
WholeWrites ==
  /\ "tornError" \notin Faults
  /\ \/ "tornKill" \notin Faults
     \/ /\ MaxLaunches <= 1
        /\ \A v, w \in Writer : FileOf(v) = FileOf(w) => v = w

\* A writer that is up, or may still come up, finds its file's last line ended.
AppendsStartLines ==
  \A w \in Writer : pc[w] # "down" \/ launches[w] < MaxLaunches => disk[FileOf(w)].ended

UpWasLaunched == \A w \in Writer : pc[w] # "down" => launches[w] >= 1

IInv == TypeOK /\ UpWasLaunched /\ AppendsStartLines /\ FinishedReadable

\* The rows of d are rows of e, in their places.
Grows(d, e) ==
  \A f \in FileName : \A i \in RowsOf(d[f]) :
    i \in RowsOf(e[f]) /\ e[f].lines[i] = d[f].lines[i]

-----------------------------------------------------------------------------
\* Rows that stay keep their cells finished for every reader.
LEMMA GrowsCells ==
  ASSUME NEW d, NEW e, Grows(d, e)
  PROVE  CellsOn(d) \subseteq CellsOn(e)
<1> SUFFICES ASSUME NEW c \in CellsOn(d) PROVE c \in CellsOn(e)
  OBVIOUS
<1>0. PICK f \in FileName : \E i \in RowsOf(d[f]) : c \in Cell /\ d[f].lines[i].cell = c
  BY DEF CellsOn
<1>1. PICK i \in RowsOf(d[f]) : c \in Cell /\ d[f].lines[i].cell = c
  BY <1>0
<1>2. i \in RowsOf(e[f]) /\ e[f].lines[i].cell = c
  BY <1>1 DEF Grows
<1> QED
  BY <1>1, <1>2 DEF CellsOn

\* A write to a file whose last line is ended loses no row of any file, and a
\* row that arrives makes its cell finished.
LEMMA WriteGrows ==
  ASSUME NEW d \in [FileName -> File], NEW name \in FileName, d[name].ended,
         NEW text \in Line, NEW ended \in BOOLEAN,
         NEW e, e = [d EXCEPT ![name] = Put(d[name], text, ended)]
  PROVE  /\ Grows(d, e)
         /\ text \in Row => text.cell \in CellsOn(e)
         /\ \A f \in FileName \ {name} : e[f] = d[f]
<1>1. e[name] = Put(d[name], text, ended) /\ \A f \in FileName \ {name} : e[f] = d[f]
  OBVIOUS
<1>2. d[name] \in File
  OBVIOUS
<1>3. /\ \A i \in RowsOf(d[name]) : i \in RowsOf(e[name]) /\ e[name].lines[i] = d[name].lines[i]
      /\ text # Garbage => \E i \in RowsOf(e[name]) : e[name].lines[i] = text
  BY <1>1, <1>2, PutOnEndedLine
<1>4. Grows(d, e)
  BY <1>1, <1>3 DEF Grows
<1>5. ASSUME text \in Row PROVE text.cell \in CellsOn(e)
  <2>1. text # Garbage /\ text.cell \in Cell
    BY <1>5, GarbageIsNoRow DEF Row
  <2>2. PICK i \in RowsOf(e[name]) : e[name].lines[i] = text
    BY <1>3, <2>1
  <2> QED
    BY <2>1, <2>2 DEF CellsOn
<1> QED
  BY <1>1, <1>3, <1>4, <1>5

LEMMA FileOfType == \A w \in Writer : FileOf(w) \in FileName
BY DEF FileName

\* A step that leaves the disk alone, launches nobody and lets no process
\* believe more than before.
LEMMA QuietStep ==
  ASSUME IInv, UNCHANGED <<disk, launches>>,
         \A v \in Writer : pc'[v] # "down" => pc[v] # "down" /\ finished'[v] = finished[v]
  PROVE  UpWasLaunched' /\ AppendsStartLines' /\ FinishedReadable' /\ Grows(disk, disk')
<1>1. UpWasLaunched'
  BY DEF IInv, UpWasLaunched
<1>2. AppendsStartLines'
  BY DEF IInv, AppendsStartLines
<1>3. CellsOn(disk)' = CellsOn(disk)
  BY DEF CellsOn
<1>4. FinishedReadable'
  BY <1>3 DEF IInv, FinishedReadable
<1> QED
  BY <1>1, <1>2, <1>4 DEF Grows

\* A step that appends one whole row, after which the writer may know about it.
LEMMA RowStep ==
  ASSUME IInv, NEW w \in Writer, pc[w] = "body", NEW failed \in BOOLEAN,
         AppendRow(w, failed), UNCHANGED launches,
         finished'[w] \subseteq finished[w] \cup {StepNow(w)},
         \A v \in Writer \ {w} : pc'[v] = pc[v] /\ finished'[v] = finished[v]
  PROVE  UpWasLaunched' /\ AppendsStartLines' /\ FinishedReadable' /\ Grows(disk, disk')
<1> DEFINE row == RowNow(w, failed)
           name == FileOf(w)
<1>1. row \in Row /\ row \in Line /\ row.cell = StepNow(w)
  BY RowNowType DEF IInv, RowNow, Line
<1>2. name \in FileName /\ disk \in [FileName -> File] /\ disk[name].ended
  BY FileOfType DEF IInv, TypeOK, AppendsStartLines
<1>3. disk' = [disk EXCEPT ![name] = Put(disk[name], row, TRUE)]
  BY DEF AppendRow, PutRow
<1> HIDE DEF row, name
<1>4. /\ Grows(disk, disk')
      /\ StepNow(w) \in CellsOn(disk')
      /\ disk'[name].ended = TRUE
      /\ \A f \in FileName \ {name} : disk'[f] = disk[f]
  <2>1. /\ Grows(disk, disk')
        /\ row \in Row => row.cell \in CellsOn(disk')
        /\ \A f \in FileName \ {name} : disk'[f] = disk[f]
    BY <1>1, <1>2, <1>3, WriteGrows
  <2>2. disk'[name].ended = TRUE
    BY <1>2, <1>3 DEF Put
  <2> QED
    BY <1>1, <2>1, <2>2
<1>5. CellsOn(disk) \subseteq CellsOn(disk')
  BY <1>4, GrowsCells
<1>6. UpWasLaunched'
  BY DEF IInv, UpWasLaunched
<1>7. AppendsStartLines'
  BY <1>4, FileOfType DEF IInv, AppendsStartLines
<1>8. FinishedReadable'
  BY <1>4, <1>5 DEF IInv, FinishedReadable
<1> QED
  BY <1>4, <1>6, <1>7, <1>8

-----------------------------------------------------------------------------
\* Every step of a writer keeps the invariant and the rows on disk.
LEMMA StepKeeps ==
  ASSUME WholeWrites, IInv, [Next]_vars
  PROVE  UpWasLaunched' /\ AppendsStartLines' /\ FinishedReadable' /\ Grows(disk, disk')
<1> USE DEF IInv
<1>1. ASSUME NEW w \in Writer, Open(w)
      PROVE  UpWasLaunched' /\ AppendsStartLines' /\ FinishedReadable' /\ Grows(disk, disk')
  <2>1. /\ disk' = disk
        /\ launches[w] < MaxLaunches /\ launches' = [launches EXCEPT ![w] = @ + 1]
        /\ pc' = [pc EXCEPT ![w] = "open"]
        /\ finished' = [finished EXCEPT ![w] = CellsOn(disk)]
    BY <1>1 DEF Open
  <2>2. UpWasLaunched'
    BY <2>1, RunnerAssumption DEF UpWasLaunched, TypeOK
  <2>3. AppendsStartLines'
    BY <2>1, RunnerAssumption DEF AppendsStartLines, TypeOK
  <2>4. CellsOn(disk') = CellsOn(disk)
    BY <2>1
  <2>5. FinishedReadable'
    BY <2>1, <2>4 DEF FinishedReadable, TypeOK
  <2> QED
    BY <2>1, <2>2, <2>3, <2>5 DEF Grows
<1>2. ASSUME NEW w \in Writer, Record(w, TRUE) \/ Record(w, FALSE)
      PROVE  UpWasLaunched' /\ AppendsStartLines' /\ FinishedReadable' /\ Grows(disk, disk')
  <2>1. PICK failed \in BOOLEAN : Record(w, failed)
    BY <1>2
  <2>2. /\ pc[w] = "body" /\ AppendRow(w, failed) /\ UNCHANGED launches
        /\ finished'[w] \subseteq finished[w] \cup {StepNow(w)}
        /\ \A v \in Writer \ {w} : pc'[v] = pc[v] /\ finished'[v] = finished[v]
    BY <2>1 DEF Record, TypeOK
  <2> QED
    BY <2>2, RowStep
<1>3. ASSUME NEW w \in Writer, NEW failed \in BOOLEAN, LogRaises(w, failed)
      PROVE  UpWasLaunched' /\ AppendsStartLines' /\ FinishedReadable' /\ Grows(disk, disk')
  <2>1. /\ pc[w] = "body" /\ AppendRow(w, failed) /\ UNCHANGED launches
        /\ finished'[w] \subseteq finished[w] \cup {StepNow(w)}
        /\ \A v \in Writer \ {w} : pc'[v] = pc[v] /\ finished'[v] = finished[v]
    BY <1>3 DEF LogRaises, Abort, TypeOK
  <2> QED
    BY <2>1, RowStep
<1>4. ASSUME NEW w \in Writer, NEW failed \in BOOLEAN, KillAfterAppend(w, failed)
      PROVE  UpWasLaunched' /\ AppendsStartLines' /\ FinishedReadable' /\ Grows(disk, disk')
  <2>1. /\ pc[w] = "body" /\ AppendRow(w, failed) /\ UNCHANGED launches
        /\ finished'[w] \subseteq finished[w] \cup {StepNow(w)}
        /\ \A v \in Writer \ {w} : pc'[v] = pc[v] /\ finished'[v] = finished[v]
    BY <1>4 DEF KillAfterAppend, Exits, TypeOK
  <2> QED
    BY <2>1, RowStep
<1>5. ASSUME NEW w \in Writer, NEW failed \in BOOLEAN, RecordError(w, failed)
      PROVE  UpWasLaunched' /\ AppendsStartLines' /\ FinishedReadable' /\ Grows(disk, disk')
  <2>1. /\ \E f \in PutFailed(disk[FileOf(w)], RowNow(w, failed), FALSE) :
             disk' = [disk EXCEPT ![FileOf(w)] = f]
        /\ pc[w] = "body" /\ Abort(w) /\ UNCHANGED <<finished, launches>>
    BY <1>5 DEF RecordError, Fault, WholeWrites
  <2>2. PICK f \in {disk[FileOf(w)], PutRow(disk[FileOf(w)], RowNow(w, failed))} :
          disk' = [disk EXCEPT ![FileOf(w)] = f]
    BY <2>1 DEF PutFailed
  <2>3. /\ \A v \in Writer : pc'[v] # "down" => pc[v] # "down"
        /\ \A v \in Writer \ {w} : pc'[v] = pc[v]
    BY <2>1 DEF Abort, TypeOK
  <2>4. CASE f = disk[FileOf(w)]
    <3>1. disk' = disk
      BY <2>2, <2>4, FileOfType DEF TypeOK
    <3> QED
      BY <2>1, <2>3, <3>1, QuietStep
  <2>5. CASE f = PutRow(disk[FileOf(w)], RowNow(w, failed))
    <3>1. AppendRow(w, failed)
      BY <2>2, <2>5, FileOfType DEF AppendRow, TypeOK
    <3> QED
      BY <2>1, <2>3, <3>1, RowStep
  <2> QED
    BY <2>2, <2>4, <2>5
<1>6. ASSUME NEW w \in Writer, NEW failed \in BOOLEAN, KillInAppend(w, failed)
      PROVE  UpWasLaunched' /\ AppendsStartLines' /\ FinishedReadable' /\ Grows(disk, disk')
  <2>1. /\ MaxLaunches <= 1
        /\ \A v \in Writer : FileOf(v) = FileOf(w) => v = w
    BY <1>6 DEF KillInAppend, Fault, WholeWrites
  <2>2. /\ pc[w] = "body" /\ pc' = [pc EXCEPT ![w] = "down"]
        /\ UNCHANGED <<finished, launches>>
    BY <1>6 DEF KillInAppend, Exits
  <2>3. PICK f \in PutTorn(disk[FileOf(w)], RowNow(w, failed)) :
          disk' = [disk EXCEPT ![FileOf(w)] = f]
    BY <1>6 DEF KillInAppend
  <2>4. PICK text \in Line : f = Put(disk[FileOf(w)], text, FALSE)
    <3>1. RowNow(w, failed) \in Line /\ Garbage \in Line
      BY <2>2, RowNowType DEF Line
    <3> QED
      BY <2>3, <3>1 DEF PutTorn
  <2>5. /\ FileOf(w) \in FileName /\ disk \in [FileName -> File]
        /\ disk[FileOf(w)].ended
    BY <2>2, FileOfType DEF TypeOK, AppendsStartLines
  <2>6. Grows(disk, disk') /\ \A n \in FileName \ {FileOf(w)} : disk'[n] = disk[n]
    BY <2>3, <2>4, <2>5, WriteGrows
  <2>7. CellsOn(disk) \subseteq CellsOn(disk')
    BY <2>6, GrowsCells
  <2>8. launches[w] >= 1 /\ launches[w] \in Nat /\ ~(launches[w] < MaxLaunches)
    BY <2>1, <2>2, RunnerAssumption DEF UpWasLaunched, TypeOK
  <2>9. ASSUME NEW v \in Writer, pc'[v] # "down" \/ launches'[v] < MaxLaunches
        PROVE  disk'[FileOf(v)].ended
    <3>1. v # w
      BY <2>2, <2>8, <2>9 DEF TypeOK
    <3>2. FileOf(v) \in FileName \ {FileOf(w)}
      BY <2>1, <3>1, FileOfType
    <3>3. pc'[v] = pc[v] /\ launches'[v] = launches[v]
      BY <2>2, <3>1 DEF TypeOK
    <3> QED
      BY <2>6, <2>9, <3>2, <3>3 DEF AppendsStartLines
  <2>10. AppendsStartLines'
    BY <2>9 DEF AppendsStartLines
  <2>11. UpWasLaunched'
    BY <2>2 DEF UpWasLaunched, TypeOK
  <2>12. FinishedReadable'
    BY <2>2, <2>7 DEF FinishedReadable, TypeOK
  <2> QED
    BY <2>6, <2>10, <2>11, <2>12
<1>7. ASSUME NEW w \in Writer,
             \/ Warn(w) \/ WarnRaises(w) \/ Skip(w) \/ Start(w) \/ Summarise(w)
             \/ SummaryRaises(w) \/ EndExperiment(w) \/ Finish(w) \/ Escape(w) \/ Kill(w)
      PROVE  UpWasLaunched' /\ AppendsStartLines' /\ FinishedReadable' /\ Grows(disk, disk')
  <2>1. UNCHANGED <<disk, launches, finished>>
    BY <1>7 DEF Warn, WarnRaises, Skip, Start, Summarise, SummaryRaises, EndExperiment,
                Finish, Escape, Kill
  <2>2. \A v \in Writer : pc'[v] # "down" => pc[v] # "down"
    BY <1>7 DEF Warn, WarnRaises, Skip, Start, Summarise, SummaryRaises, EndExperiment,
                Finish, Escape, Kill, Abort, Exits, TypeOK
  <2> QED
    BY <2>1, <2>2, QuietStep
<1>8. CASE UNCHANGED vars
  BY <1>8, QuietStep DEF vars, process
<1>9. CASE Next
  <2>1. PICK w \in Writer : Open(w) \/ Run(w) \/ Disturb(w)
    BY <1>9 DEF Next
  <2>2. CASE Open(w)
    BY <1>1, <2>2
  <2>3. CASE Run(w)
    BY <1>2, <1>7, <2>3 DEF Run
  <2>4. CASE Disturb(w)
    BY <1>3, <1>4, <1>5, <1>6, <1>7, <2>4 DEF Disturb
  <2> QED
    BY <2>1, <2>2, <2>3, <2>4
<1> QED
  BY <1>8, <1>9

LEMMA InitKeeps == Init => IInv
<1> SUFFICES ASSUME Init PROVE IInv
  OBVIOUS
<1>1. \A f \in FileName : disk[f].ended
  BY DEF Init, EmptyFile
<1> QED
  BY <1>1, InitType, FileOfType
  DEF IInv, Init, UpWasLaunched, AppendsStartLines, FinishedReadable

-----------------------------------------------------------------------------
\* The inductive invariant holds in every behaviour.
THEOREM Invariance == ASSUME WholeWrites PROVE Spec => []IInv
<1>1. IInv /\ [Next]_vars => IInv'
  BY StepType, StepKeeps DEF IInv
<1> QED
  BY InitKeeps, <1>1, PTL DEF Spec

\* What a running process believes finished is on disk in a line that a restart
\* can read, however many jobs run at the same time (ledger.py:44-48).
THEOREM FinishedStaysReadable == ASSUME WholeWrites PROVE Spec => []FinishedReadable
<1>1. IInv => FinishedReadable
  BY DEF IInv
<1> QED
  BY Invariance, <1>1, PTL

\* No step of any job, not even one torn by a kill, loses or changes a row that
\* could be read (ledger.py:14-18, runner.py:47-50).
THEOREM RowsStay == ASSUME WholeWrites PROVE Spec => KeepsRows
<1>1. IInv /\ [Next]_vars =>
        [\A f \in FileName : \A i \in RowsOf(disk[f]) :
           i \in RowsOf(disk'[f]) /\ disk'[f].lines[i] = disk[f].lines[i]]_vars
  BY StepKeeps DEF Grows
<1> QED
  BY Invariance, <1>1, PTL DEF Spec, KeepsRows

-----------------------------------------------------------------------------
(* What a process that skips a cell has warned about.                      *)

\* Some ledger holds a row of the cell from the writer's partition, or from an
\* unknown one.
RowFromHere(w, c) ==
  \E f \in FileName : \E i \in RowsOf(disk[f]) :
    /\ disk[f].lines[i].cell = c
    /\ disk[f].lines[i].partition \in {w.partition, NoPartition}

WarnedOf(w, c) == \A e \in Experiments(w) : c \in CellsOfExperiment(e) => e \in warned[w]

\* A job under Slurm that is past its warnings has warned about every finished
\* cell that was measured only elsewhere.
Warned ==
  \A w \in Writer : pc[w] \in {"run", "body"} /\ w.partition # NoPartition =>
    \A c \in finished[w] : RowFromHere(w, c) \/ WarnedOf(w, c)

\* The row of a whole write is on disk, where every reader finds it.
LEMMA RowArrives ==
  ASSUME IInv, NEW w \in Writer, pc[w] = "body", NEW failed \in BOOLEAN, AppendRow(w, failed)
  PROVE  \E i \in RowsOf(disk'[FileOf(w)]) : disk'[FileOf(w)].lines[i] = RowNow(w, failed)
<1> DEFINE name == FileOf(w)
           row == RowNow(w, failed)
<1>1. row \in Line /\ row # Garbage
  BY RowNowType, GarbageIsNoRow DEF IInv, Line
<1>2. name \in FileName /\ disk[name] \in File /\ disk[name].ended
  BY FileOfType DEF IInv, TypeOK, AppendsStartLines
<1>3. disk'[name] = Put(disk[name], row, TRUE)
  BY <1>2 DEF AppendRow, PutRow, IInv, TypeOK
<1> HIDE DEF name, row
<1>4. \E i \in RowsOf(disk'[name]) : disk'[name].lines[i] = row
  <2> DEFINE f == disk[name]
  <2>1. f \in File /\ f.ended
    BY <1>2
  <2> HIDE DEF f
  <2>2. row # Garbage =>
          \E i \in RowsOf(Put(f, row, TRUE)) : Put(f, row, TRUE).lines[i] = row
    BY <1>1, <2>1, PutOnEndedLine
  <2> QED
    BY <1>1, <1>3, <2>2 DEF f
<1> QED
  BY <1>1, <1>4 DEF name, row

\* A row that stays goes on telling where its cell was measured.
LEMMA RowFromHereStays ==
  ASSUME Grows(disk, disk'), NEW w \in Writer, NEW c, RowFromHere(w, c)
  PROVE  RowFromHere(w, c)'
BY DEF Grows, RowFromHere

LEMMA WarnedStep ==
  ASSUME WholeWrites, IInv, Warned, [Next]_vars
  PROVE  Warned'
<1>0. Grows(disk, disk')
  BY StepKeeps
\* A writer that comes to no new conclusion.
<1>1. ASSUME NEW v \in Writer,
             pc'[v] \in {"run", "body"} => pc[v] \in {"run", "body"},
             finished'[v] = finished[v], warned'[v] = warned[v],
             pc'[v] \in {"run", "body"}, v.partition # NoPartition,
             NEW c \in finished'[v]
      PROVE  RowFromHere(v, c)' \/ WarnedOf(v, c)'
  <2>1. RowFromHere(v, c) \/ WarnedOf(v, c)
    BY <1>1 DEF Warned
  <2> QED
    BY <1>0, <1>1, <2>1, RowFromHereStays DEF WarnedOf
<1>2. ASSUME NEW w \in Writer, Warn(w), w.partition # NoPartition, NEW c \in finished'[w]
      PROVE  RowFromHere(w, c)' \/ WarnedOf(w, c)'
  <2>1. /\ finished' = finished /\ disk' = disk /\ pc[w] = "open"
        /\ warned'[w] = {e \in Experiments(w) : Elsewhere(disk, e, w.partition) # {}}
    BY <1>2 DEF Warn, IInv, TypeOK
  <2>2. c \in CellsOn(disk)
    BY <1>2, <2>1 DEF IInv, FinishedReadable
  <2>3. PICK f \in FileName : \E i \in RowsOf(disk[f]) : disk[f].lines[i].cell = c
    BY <2>2 DEF CellsOn
  <2>4. PICK i \in RowsOf(disk[f]) : disk[f].lines[i].cell = c
    BY <2>3
  <2>5. disk[f].lines[i] \in Row
    BY <2>4 DEF IInv, TypeOK, File, RowsOf, Line
  <2>6. disk[f].lines[i].partition \in Partition
    BY <2>5 DEF Row
  <2>7. CASE disk[f].lines[i].partition \in {w.partition, NoPartition}
    BY <2>1, <2>4, <2>7 DEF RowFromHere
  <2>8. CASE disk[f].lines[i].partition \notin {w.partition, NoPartition}
    <3> SUFFICES ASSUME NEW e \in Experiments(w), c \in CellsOfExperiment(e)
                 PROVE  e \in warned'[w]
      BY DEF WarnedOf
    <3>1. disk[f].lines[i].partition \in Elsewhere(disk, e, w.partition)
      BY <2>4, <2>6, <2>8 DEF Elsewhere
    <3> QED
      BY <2>1, <3>1
  <2> QED
    BY <2>7, <2>8
<1>3. ASSUME NEW w \in Writer, NEW failed \in BOOLEAN,
             Record(w, failed) \/ LogRaises(w, failed),
             w.partition # NoPartition, NEW c \in finished'[w]
      PROVE  RowFromHere(w, c)' \/ WarnedOf(w, c)'
  <2>1. /\ pc[w] = "body" /\ AppendRow(w, failed)
        /\ finished'[w] = finished[w] \cup {StepNow(w)} /\ warned' = warned
    BY <1>3 DEF Record, LogRaises, Abort, IInv, TypeOK
  <2>2. CASE c = StepNow(w)
    <3>1. PICK i \in RowsOf(disk'[FileOf(w)]) : disk'[FileOf(w)].lines[i] = RowNow(w, failed)
      BY <2>1, RowArrives
    <3>2. disk'[FileOf(w)].lines[i].cell = c /\ disk'[FileOf(w)].lines[i].partition = w.partition
      BY <2>2, <3>1 DEF RowNow
    <3> QED
      BY <3>2, FileOfType DEF RowFromHere
  <2>3. CASE c \in finished[w]
    <3>1. RowFromHere(w, c) \/ WarnedOf(w, c)
      BY <1>3, <2>1, <2>3 DEF Warned
    <3> QED
      BY <1>0, <2>1, <3>1, RowFromHereStays DEF WarnedOf
  <2> QED
    BY <2>1, <2>2, <2>3
<1>4. CASE UNCHANGED vars
  <2>1. UNCHANGED <<pc, finished, warned>>
    BY <1>4 DEF vars, process
  <2> QED
    BY <1>1, <2>1 DEF Warned
<1>5. CASE Next
  <2>1. PICK w \in Writer : Open(w) \/ Run(w) \/ Disturb(w)
    BY <1>5 DEF Next
  <2>2. \A v \in Writer \ {w} :
          pc'[v] = pc[v] /\ finished'[v] = finished[v] /\ warned'[v] = warned[v]
    BY <2>1 DEF Run, Disturb, Open, Warn, WarnRaises, Skip, Start, Record, RecordError, Escape,
                LogRaises, Summarise, SummaryRaises, EndExperiment, Finish, Kill,
                KillAfterAppend, KillInAppend, Abort, Exits, IInv, TypeOK
  <2>3. \/ Warn(w)
        \/ \E failed \in BOOLEAN : Record(w, failed) \/ LogRaises(w, failed)
        \/ pc'[w] \notin {"run", "body"}
        \/ /\ pc[w] \in {"run", "body"}
           /\ finished'[w] = finished[w] /\ warned'[w] = warned[w]
    BY <2>1 DEF Run, Disturb, Open, WarnRaises, Skip, Start, RecordError, Escape,
                Summarise, SummaryRaises, EndExperiment, Finish, Kill,
                KillAfterAppend, KillInAppend, Abort, Exits, IInv, TypeOK
  <2>4. ASSUME NEW v \in Writer, pc'[v] \in {"run", "body"}, v.partition # NoPartition,
               NEW c \in finished'[v]
        PROVE  RowFromHere(v, c)' \/ WarnedOf(v, c)'
    BY <1>1, <1>2, <1>3, <2>2, <2>3, <2>4
  <2> QED
    BY <2>4 DEF Warned
<1> QED
  BY <1>4, <1>5

\* A job that skips a cell measured only on other partitions has said so: the
\* warning of its start covers all it will skip, since it skips what was on disk
\* then or what it measured itself (runner.py:71, 121-143).
THEOREM SkipsAreAnnounced == ASSUME WholeWrites PROVE Spec => SkipWarned
<1>1. Init => Warned
  BY DEF Init, Warned
<1>2. IInv /\ Warned /\ [Next]_vars => Warned'
  BY WarnedStep
<1>3. ASSUME IInv, Warned, NEW w \in Writer, Skip(w), w.partition # NoPartition
      PROVE  \/ Here(w).name \in warned[w]
             \/ \E f \in FileName : \E i \in RowsOf(disk[f]) :
                  /\ disk[f].lines[i].cell = StepNow(w)
                  /\ disk[f].lines[i].partition \in {w.partition, NoPartition}
  <2> DEFINE x == at[w].exp
             c == StepNow(w)
  <2>1. pc[w] = "run" /\ c \in finished[w] /\ StepsLeft(w)
    BY <1>3 DEF Skip
  <2>2. RowFromHere(w, c) \/ WarnedOf(w, c)
    BY <1>3, <2>1 DEF Warned
  <2>3. x \in 1..Len(Plan[w]) /\ Here(w) = Plan[w][x]
    BY <1>3, <2>1, PlanType DEF IInv, StepsLeft, Remaining, Here
  <2>4. Here(w).name \in Experiments(w)
    BY <2>3 DEF Experiments
  <2>5. at[w].step \in 1..Len(Plan[w][x].steps) /\ c \in Cell
    <3>1. Len(Plan[w][x].steps) \in Nat
      BY <2>3, RunnerAssumption
    <3>2. at[w].step <= Len(Plan[w][x].steps) /\ at[w].step \in Nat \ {0}
      BY <1>3, <2>1, <2>3 DEF StepsLeft, IInv, TypeOK
    <3>3. c \in Cell
      BY <1>3, <2>1 DEF IInv, TypeOK
    <3> QED
      BY <3>1, <3>2, <3>3
  <2>6. c \in CellsIn(Plan[w][x].steps)
    BY <2>3, <2>5 DEF CellsIn, StepNow, Here
  <2>7. c \in CellsOfExperiment(Here(w).name)
    BY <2>3, <2>6 DEF CellsOfExperiment
  <2> QED
    BY <2>2, <2>4, <2>7 DEF RowFromHere, WarnedOf
<1>4. IInv /\ Warned =>
        [\A w \in Writer :
           Skip(w) /\ w.partition # NoPartition =>
             \/ Here(w).name \in warned[w]
             \/ \E f \in FileName : \E i \in RowsOf(disk[f]) :
                  /\ disk[f].lines[i].cell = StepNow(w)
                  /\ disk[f].lines[i].partition \in {w.partition, NoPartition}]_vars
  BY <1>3
<1> QED
  BY Invariance, <1>1, <1>2, <1>4, PTL DEF Spec, SkipWarned

-----------------------------------------------------------------------------
(* What the exit status of a process says.                                 *)

\* The first n steps of an experiment are done, as far as they are cells.
StepsDone(w, i, n) ==
  \A j \in 1..Len(Plan[w][i].steps) :
    j < n /\ Plan[w][i].steps[j] \in Cell => Plan[w][i].steps[j] \in finished[w]

\* What lies behind a process that is up is finished, or on its list.
AccountOf(w) ==
  /\ exit[w] = "none"
  /\ \A i \in 1..Len(Plan[w]) : i < at[w].exp =>
       Plan[w][i].name \in failures[w] \/ CellsIn(Plan[w][i].steps) \subseteq finished[w]
  /\ at[w].exp \in 1..Len(Plan[w]) => StepsDone(w, at[w].exp, at[w].step)

Accounted == \A w \in Writer : pc[w] # "down" => AccountOf(w)

\* A step within an experiment, past a cell that is finished then.
LEMMA NextStepAccount ==
  ASSUME TypeOK, NEW w \in Writer, AccountOf(w),
         NextStep(w) \/ at'[w] = at[w],
         NextStep(w) /\ StepNow(w) \in Cell => StepNow(w) \in finished'[w],
         finished[w] \subseteq finished'[w],
         failures'[w] = failures[w], exit'[w] = exit[w]
  PROVE  AccountOf(w)'
<1>1. /\ at[w].exp \in Nat /\ at[w].step \in Nat /\ at'[w].exp = at[w].exp
      /\ \/ at'[w].step = at[w].step
         \/ at'[w].step = at[w].step + 1 /\ NextStep(w)
  BY DEF TypeOK, NextStep
<1>2. ASSUME at[w].exp \in 1..Len(Plan[w]),
             NEW j \in 1..Len(Plan[w][at[w].exp].steps), j < at'[w].step,
             Plan[w][at[w].exp].steps[j] \in Cell
      PROVE  Plan[w][at[w].exp].steps[j] \in finished'[w]
  <2>1. j < at[w].step \/ (j = at[w].step /\ NextStep(w))
    BY <1>1, <1>2
  <2>2. CASE j < at[w].step
    BY <1>2, <2>2 DEF AccountOf, StepsDone
  <2>3. CASE j = at[w].step /\ NextStep(w)
    BY <1>2, <2>3 DEF StepNow, Here
  <2> QED
    BY <2>1, <2>2, <2>3
<1> QED
  BY <1>1, <1>2 DEF AccountOf, StepsDone

\* A step to the next experiment, when this one is noted as failed or is done.
LEMMA NextExperimentAccount ==
  ASSUME TypeOK, NEW w \in Writer, AccountOf(w), NextExperiment(w), Remaining(w),
         Here(w).name \in failures'[w] \/ CellsIn(Here(w).steps) \subseteq finished'[w],
         finished[w] \subseteq finished'[w],
         failures[w] \subseteq failures'[w], exit'[w] = exit[w]
  PROVE  AccountOf(w)'
<1>1. at[w].exp \in Nat /\ at'[w] = [exp |-> at[w].exp + 1, step |-> 1]
  BY DEF TypeOK, NextExperiment
<1>2. ASSUME NEW i \in 1..Len(Plan[w]), i < at'[w].exp
      PROVE  \/ Plan[w][i].name \in failures'[w]
             \/ CellsIn(Plan[w][i].steps) \subseteq finished'[w]
  <2>1. i < at[w].exp \/ i = at[w].exp
    BY <1>1, <1>2, PlanType
  <2>2. CASE i < at[w].exp
    BY <2>2 DEF AccountOf
  <2>3. CASE i = at[w].exp
    BY <2>3 DEF Here
  <2> QED
    BY <2>1, <2>2, <2>3
<1>3. ASSUME NEW i \in 1..Len(Plan[w]) PROVE StepsDone(w, i, at[w].step)'
  <2>1. \A j \in 1..Len(Plan[w][i].steps) : ~(j < 1)
    <3>1. Len(Plan[w][i].steps) \in Nat
      BY RunnerAssumption
    <3> QED
      BY <3>1
  <2> QED
    BY <1>1, <2>1 DEF StepsDone
<1> QED
  BY <1>1, <1>2, <1>3 DEF AccountOf

\* An experiment without steps left is done.
LEMMA EndIsDone ==
  ASSUME TypeOK, NEW w \in Writer, AccountOf(w), Remaining(w), ~StepsLeft(w)
  PROVE  CellsIn(Here(w).steps) \subseteq finished[w]
<1>1. at[w].exp \in 1..Len(Plan[w])
  BY PlanType DEF Remaining
<1>2. Len(Here(w).steps) \in Nat /\ at[w].step \in Nat /\ at[w].step > Len(Here(w).steps)
  <2>1. Len(Plan[w][at[w].exp].steps) \in Nat
    BY <1>1, RunnerAssumption
  <2> QED
    BY <2>1 DEF Here, StepsLeft, TypeOK
<1> QED
  BY <1>1, <1>2 DEF AccountOf, StepsDone, CellsIn, Here

LEMMA AccountedStep ==
  ASSUME TypeOK, Accounted, [Next]_vars
  PROVE  Accounted'
<1>1. ASSUME NEW w \in Writer, Open(w), pc'[w] # "down" PROVE AccountOf(w)'
  <2>1. at'[w] = [exp |-> 1, step |-> 1] /\ exit'[w] = "none"
    BY <1>1 DEF Open, TypeOK
  <2> QED
    BY <2>1 DEF AccountOf, StepsDone
<1>2. ASSUME NEW w \in Writer, pc'[w] # "down", pc[w] # "down",
             Warn(w) \/ Skip(w) \/ Start(w) \/ Summarise(w) \/ \E failed \in BOOLEAN : Record(w, failed)
      PROVE  AccountOf(w)'
  <2>1. /\ NextStep(w) \/ at'[w] = at[w]
        /\ NextStep(w) /\ StepNow(w) \in Cell => StepNow(w) \in finished'[w]
        /\ finished[w] \subseteq finished'[w]
        /\ failures'[w] = failures[w] /\ exit'[w] = exit[w]
    BY <1>2, RunnerAssumption
    DEF Warn, Skip, Start, Summarise, Record, NextStep, TypeOK
  <2> QED
    BY <1>2, <2>1, NextStepAccount DEF Accounted
<1>3. ASSUME NEW w \in Writer, pc'[w] # "down", pc[w] # "down",
             \/ SummaryRaises(w) \/ Escape(w)
             \/ \E failed \in BOOLEAN : RecordError(w, failed) \/ LogRaises(w, failed)
      PROVE  AccountOf(w)'
  <2>1. Abort(w) /\ finished[w] \subseteq finished'[w] /\ StepsLeft(w)
    BY <1>3 DEF SummaryRaises, Escape, RecordError, LogRaises, TypeOK
  <2>2. /\ NextExperiment(w) /\ Remaining(w)
        /\ Here(w).name \in failures'[w] /\ failures[w] \subseteq failures'[w]
        /\ exit'[w] = exit[w]
    BY <2>1 DEF Abort, StepsLeft, TypeOK
  <2> QED
    BY <1>3, <2>1, <2>2, NextExperimentAccount DEF Accounted
<1>4. ASSUME NEW w \in Writer, EndExperiment(w), pc'[w] # "down" PROVE AccountOf(w)'
  <2>1. /\ pc[w] # "down" /\ Remaining(w) /\ ~StepsLeft(w) /\ NextExperiment(w)
        /\ UNCHANGED <<finished, failures, exit>>
    BY <1>4 DEF EndExperiment
  <2>2. AccountOf(w)
    BY <2>1 DEF Accounted
  <2>3. CellsIn(Here(w).steps) \subseteq finished[w]
    BY <2>1, <2>2, EndIsDone
  <2> QED
    BY <2>1, <2>2, <2>3, NextExperimentAccount
<1>5. ASSUME NEW v \in Writer, pc'[v] # "down", pc'[v] = pc[v], at'[v] = at[v],
             finished'[v] = finished[v], failures'[v] = failures[v], exit'[v] = exit[v]
      PROVE  AccountOf(v)'
  <2>1. AccountOf(v)
    BY <1>5 DEF Accounted
  <2> QED
    BY <1>5, <2>1 DEF AccountOf, StepsDone
<1>6. CASE UNCHANGED vars
  <2>1. UNCHANGED <<pc, at, finished, failures, exit>>
    BY <1>6 DEF vars, process
  <2> QED
    BY <1>5, <2>1 DEF Accounted
<1>7. CASE Next
  <2>1. PICK w \in Writer : Open(w) \/ Run(w) \/ Disturb(w)
    BY <1>7 DEF Next
  <2>2. \A v \in Writer \ {w} :
          /\ pc'[v] = pc[v] /\ at'[v] = at[v] /\ finished'[v] = finished[v]
          /\ failures'[v] = failures[v] /\ exit'[v] = exit[v]
    BY <2>1 DEF Run, Disturb, Open, Warn, WarnRaises, Skip, Start, Record, RecordError, Escape,
                LogRaises, Summarise, SummaryRaises, EndExperiment, Finish, Kill,
                KillAfterAppend, KillInAppend, Abort, Exits, NextStep, NextExperiment, TypeOK
  <2>3. Open(w) \/ pc[w] # "down"
    BY <2>1 DEF Run, Disturb, Warn, WarnRaises, Skip, Start, Record, RecordError, Escape,
                LogRaises, Summarise, SummaryRaises, EndExperiment, Finish, Kill,
                KillAfterAppend, KillInAppend
  <2>4. \/ pc'[w] = "down"
        \/ Open(w) \/ EndExperiment(w)
        \/ Warn(w) \/ Skip(w) \/ Start(w) \/ Summarise(w)
        \/ \E failed \in BOOLEAN : Record(w, failed)
        \/ SummaryRaises(w) \/ Escape(w)
        \/ \E failed \in BOOLEAN : RecordError(w, failed) \/ LogRaises(w, failed)
    BY <2>1 DEF Run, Disturb, WarnRaises, Finish, Kill, KillAfterAppend, KillInAppend,
                Exits, TypeOK
  <2>5. ASSUME pc'[w] # "down" PROVE AccountOf(w)'
    BY <1>1, <1>2, <1>3, <1>4, <2>3, <2>4, <2>5
  <2> QED
    BY <1>5, <2>2, <2>5 DEF Accounted
<1> QED
  BY <1>6, <1>7

\* A process that reports anything has gone through its whole plan.
LEMMA ReportIsComplete ==
  ASSUME IInv, Accounted, [Next]_vars, NEW w \in Writer, pc[w] # "down",
         exit'[w] \in {"zero", "one"}
  PROVE  /\ \A i \in 1..Len(Plan[w]) :
              Plan[w][i].name \notin failures[w] =>
                CellsIn(Plan[w][i].steps) \subseteq CellsOn(disk')
         /\ (exit'[w] = "zero") <=> (failures[w] = {})
<1>1. AccountOf(w)
  BY DEF Accounted
<1>2. exit[w] = "none"
  BY <1>1 DEF AccountOf
<1>3. Finish(w)
  <2>1. exit' # exit
    BY <1>2
  <2>2. PICK v \in Writer : Open(v) \/ Run(v) \/ Disturb(v)
    BY <2>1 DEF Next, vars, process
  <2>3. v = w
    BY <1>2, <2>2
    DEF Run, Disturb, Open, Warn, WarnRaises, Skip, Start, Record, RecordError, Escape,
        LogRaises, Summarise, SummaryRaises, EndExperiment, Finish, Kill,
        KillAfterAppend, KillInAppend, Abort, Exits, IInv, TypeOK
  <2> QED
    BY <1>2, <2>2, <2>3
    DEF Run, Disturb, Open, Warn, WarnRaises, Skip, Start, Record, RecordError, Escape,
        LogRaises, Summarise, SummaryRaises, EndExperiment, Kill,
        KillAfterAppend, KillInAppend, Abort, Exits, IInv, TypeOK
<1>4. /\ ~Remaining(w) /\ disk' = disk
      /\ exit'[w] = IF ~RowsReadable(disk) THEN "dead"
                    ELSE IF failures[w] # {} THEN "one" ELSE "zero"
  BY <1>3 DEF Finish, Exits, IInv, TypeOK
<1>5. at[w].exp \in Nat /\ Len(Plan[w]) \in Nat /\ at[w].exp > Len(Plan[w])
  BY <1>4, PlanType DEF IInv, Remaining
<1>6. finished[w] \subseteq CellsOn(disk)
  BY DEF IInv, FinishedReadable
<1>7. \A i \in 1..Len(Plan[w]) :
        Plan[w][i].name \notin failures[w] =>
          CellsIn(Plan[w][i].steps) \subseteq CellsOn(disk')
  BY <1>1, <1>4, <1>5, <1>6 DEF AccountOf
<1> QED
  BY <1>4, <1>7

\* The exit status tells the truth: whatever aborted, was lost or ran at the
\* same time, an experiment that is not listed as aborted has a readable row
\* for each of its cells (runner.py:253-277).
THEOREM ExitTellsTheTruth == ASSUME WholeWrites PROVE Spec => ExitReport
<1>1. Init => Accounted
  BY DEF Init, Accounted
<1>2. IInv /\ Accounted /\ [Next]_vars => Accounted'
  BY AccountedStep DEF IInv
<1>3. IInv /\ Accounted /\ [Next]_vars =>
        [\A w \in Writer :
           pc[w] # "down" /\ exit'[w] \in {"zero", "one"} =>
             /\ \A i \in 1..Len(Plan[w]) :
                  Plan[w][i].name \notin failures[w] =>
                    CellsIn(Plan[w][i].steps) \subseteq CellsOn(disk')
             /\ (exit'[w] = "zero") <=> (failures[w] = {})]_vars
  BY ReportIsComplete
<1> QED
  BY Invariance, <1>1, <1>2, <1>3, PTL DEF Spec, ExitReport
=============================================================================
