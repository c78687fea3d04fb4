-------------------------- MODULE RunnerResumeProofs --------------------------
(***************************************************************************)
(* What resuming from the ledgers guarantees when the jobs of a campaign   *)
(* run one after another: no cell has two rows, and the ledgers implement  *)
(* CellStore.                                                              *)
(***************************************************************************)
EXTENDS RunnerProofs

PlannedFor(w) == UNION {CellsIn(Plan[w][i].steps) : i \in 1..Len(Plan[w])}

\* Jobs that do not overlap, as the campaign script chains them, and ranks of one
\* job that share no cell, as keys with the rank in them ensure.
OneByOne ==
  /\ ~Overlap
  /\ \A v, w \in Writer : v.job = w.job /\ v # w => PlannedFor(v) \cap PlannedFor(w) = {}

\* No job is asked for a cell twice: the keys of an experiment's cells differ,
\* and their prefixes tell experiments apart.
PlansDistinct ==
  \A w \in Writer : \A i, k \in 1..Len(Plan[w]) :
    \A j \in 1..Len(Plan[w][i].steps), l \in 1..Len(Plan[w][k].steps) :
      Plan[w][i].steps[j] \in Cell /\ Plan[w][i].steps[j] = Plan[w][k].steps[l] =>
        i = k /\ j = l

OneJobUp == \A v, w \in Writer : pc[v] # "down" /\ pc[w] # "down" => v.job = w.job

\* The cells a writer has not come to yet, the current one included.
Ahead(w) ==
  {c \in Cell : \E i \in 1..Len(Plan[w]) : \E j \in 1..Len(Plan[w][i].steps) :
     /\ Plan[w][i].steps[j] = c
     /\ i > at[w].exp \/ (i = at[w].exp /\ j >= at[w].step)}

\* A cell that has a row is known to be finished or lies behind.
NothingAheadTwice ==
  \A w \in Writer : pc[w] # "down" => CellsOn(disk) \cap Ahead(w) \subseteq finished[w]

BodyUnfinished == \A w \in Writer : pc[w] = "body" => StepNow(w) \notin finished[w]

ResumeInv == TypeOK /\ OneJobUp /\ NothingAheadTwice /\ BodyUnfinished /\ OneRowPerCell

\* g holds no row that f does not hold, except a new one, `row`, at its end.
Gains(f, g, row) ==
  \A i \in RowsOf(g) :
    \/ i \in RowsOf(f) /\ g.lines[i] = f.lines[i]
    \/ i = Len(f.lines) + 1 /\ g.lines[i] = row

-----------------------------------------------------------------------------
LEMMA PutGains ==
  ASSUME NEW f \in File, NEW text \in Line, NEW ended \in BOOLEAN
  PROVE  Gains(f, Put(f, text, ended), text)
<1> DEFINE g == Put(f, text, ended)
<1>1. f.lines \in Seq(Line) /\ Len(f.lines) \in Nat /\ DOMAIN f.lines = 1..Len(f.lines)
  BY DEF File
<1>2. CASE f.ended
  <2>1. g.lines = Append(f.lines, text)
    BY <1>2 DEF Put
  <2>2. /\ DOMAIN g.lines = 1..(Len(f.lines) + 1)
        /\ \A i \in 1..Len(f.lines) : g.lines[i] = f.lines[i]
        /\ g.lines[Len(f.lines) + 1] = text
    BY <1>1, <2>1, AppendProperties
  <2> HIDE DEF g
  <2> QED
    BY <1>1, <2>2 DEF Gains, RowsOf, g
<1>3. CASE ~f.ended
  <2>1. g.lines = [f.lines EXCEPT ![Len(f.lines)] = Garbage]
    BY <1>3 DEF Put
  <2>2. /\ DOMAIN g.lines = DOMAIN f.lines
        /\ \A i \in DOMAIN f.lines : g.lines[i] # Garbage => g.lines[i] = f.lines[i]
    BY <1>1, <2>1
  <2> HIDE DEF g
  <2> QED
    BY <2>2 DEF Gains, RowsOf, g
<1> QED
  BY <1>2, <1>3

\* Whatever becomes of an append, the file gains no other row than the one
\* that was to be written.
LEMMA AppendGains ==
  ASSUME NEW f \in File, NEW row \in Row,
         NEW g \in {PutRow(f, row)} \cup PutTorn(f, row)
                   \cup UNION {PutFailed(f, row, torn) : torn \in BOOLEAN}
  PROVE  Gains(f, g, row)
<1>1. row \in Line /\ Garbage \in Line
  BY DEF Line
<1>2. g \in {f, Put(f, row, TRUE), Put(f, row, FALSE), Put(f, Garbage, FALSE)}
  BY DEF PutRow, PutTorn, PutFailed
<1>3. CASE g = f
  BY <1>3 DEF Gains
<1>4. CASE g = Put(f, row, TRUE) \/ g = Put(f, row, FALSE)
  BY <1>1, <1>4, PutGains
<1>5. CASE g = Put(f, Garbage, FALSE)
  <2>1. Gains(f, g, Garbage)
    BY <1>1, <1>5, PutGains
  <2> QED
    BY <2>1 DEF Gains, RowsOf
<1> QED
  BY <1>2, <1>3, <1>4, <1>5

\* What all ways to append have in common: the disk changes in one file, by
\* the row of the current cell if at all, and the writer leaves its body.
Appends(w) ==
  /\ pc[w] = "body"
  /\ \E failed \in BOOLEAN : \E g \in File :
       /\ Gains(disk[FileOf(w)], g, RowNow(w, failed))
       /\ disk' = [disk EXCEPT ![FileOf(w)] = g]
  /\ pc'[w] # "body"
  /\ pc'[w] # "down" =>
       \/ finished'[w] = finished[w] \cup {StepNow(w)} /\ (NextStep(w) \/ NextExperiment(w))
       \/ finished'[w] = finished[w] /\ NextExperiment(w)
  /\ \A v \in Writer \ {w} : pc'[v] = pc[v] /\ at'[v] = at[v] /\ finished'[v] = finished[v]

LEMMA AppendingActions ==
  ASSUME TypeOK, NEW w \in Writer, NEW failed \in BOOLEAN,
         \/ Record(w, failed) \/ RecordError(w, failed) \/ LogRaises(w, failed)
         \/ KillAfterAppend(w, failed) \/ KillInAppend(w, failed)
  PROVE  Appends(w)
<1> DEFINE f == disk[FileOf(w)]
           row == RowNow(w, failed)
<1>1. pc[w] = "body"
  BY DEF Record, RecordError, LogRaises, KillAfterAppend, KillInAppend
<1>2. f \in File /\ row \in Row
  BY <1>1, RowNowType DEF TypeOK
<1>3. PICK g \in {PutRow(f, row)} \cup PutTorn(f, row)
                 \cup UNION {PutFailed(f, row, torn) : torn \in BOOLEAN} :
        disk' = [disk EXCEPT ![FileOf(w)] = g]
  BY DEF Record, RecordError, LogRaises, KillAfterAppend, KillInAppend, AppendRow
<1> HIDE DEF f, row
<1>4. Gains(f, g, row) /\ g \in File
  BY <1>2, <1>3, AppendGains, AppendType
<1>5. /\ pc'[w] \in {"run", "down"}
      /\ pc'[w] # "down" =>
           \/ finished'[w] = finished[w] \cup {StepNow(w)} /\ (NextStep(w) \/ NextExperiment(w))
           \/ finished'[w] = finished[w] /\ NextExperiment(w)
  BY DEF Record, RecordError, LogRaises, KillAfterAppend, KillInAppend, Abort, Exits, TypeOK
<1>6. \A v \in Writer \ {w} : pc'[v] = pc[v] /\ at'[v] = at[v] /\ finished'[v] = finished[v]
  BY DEF Record, RecordError, LogRaises, KillAfterAppend, KillInAppend, Abort, Exits,
         NextStep, NextExperiment, TypeOK
<1> QED
  BY <1>1, <1>3, <1>4, <1>5, <1>6 DEF Appends, f, row

-----------------------------------------------------------------------------
\* Every row after an append was there before, or is the current cell's.
LEMMA RowsAfterAppend ==
  ASSUME TypeOK, NEW w \in Writer, Appends(w)
  PROVE  \E failed \in BOOLEAN : \A f \in FileName : \A i \in RowsOf(disk'[f]) :
           \/ i \in RowsOf(disk[f]) /\ disk'[f].lines[i] = disk[f].lines[i]
           \/ /\ f = FileOf(w) /\ i = Len(disk[f].lines) + 1
              /\ disk'[f].lines[i] = RowNow(w, failed)
<1>1. PICK failed \in BOOLEAN : \E g \in File :
        /\ Gains(disk[FileOf(w)], g, RowNow(w, failed))
        /\ disk' = [disk EXCEPT ![FileOf(w)] = g]
  BY DEF Appends
<1>2. PICK g \in File :
        /\ Gains(disk[FileOf(w)], g, RowNow(w, failed))
        /\ disk' = [disk EXCEPT ![FileOf(w)] = g]
  BY <1>1
<1>3. ASSUME NEW f \in FileName, NEW i \in RowsOf(disk'[f])
      PROVE  \/ i \in RowsOf(disk[f]) /\ disk'[f].lines[i] = disk[f].lines[i]
             \/ /\ f = FileOf(w) /\ i = Len(disk[f].lines) + 1
                /\ disk'[f].lines[i] = RowNow(w, failed)
  <2>1. CASE f = FileOf(w)
    <3>1. disk'[f] = g
      BY <1>2, <2>1 DEF TypeOK
    <3> QED
      BY <1>2, <1>3, <2>1, <3>1 DEF Gains
  <2>2. CASE f # FileOf(w)
    <3>1. disk'[f] = disk[f]
      BY <1>2, <2>2 DEF TypeOK
    <3> QED
      BY <1>3, <3>1
  <2> QED
    BY <2>1, <2>2
<1> QED
  BY <1>3

\* The current cell of a body lies ahead.
LEMMA BodyIsAhead ==
  ASSUME TypeOK, NEW w \in Writer, pc[w] = "body"
  PROVE  StepNow(w) \in Ahead(w)
<1>1. StepsLeft(w) /\ StepNow(w) \in Cell
  BY DEF TypeOK
<1>2. at[w].exp \in 1..Len(Plan[w]) /\ at[w].step \in Nat \ {0}
  BY <1>1, PlanType DEF StepsLeft, Remaining
<1>3. /\ Plan[w][at[w].exp].steps[at[w].step] = StepNow(w)
      /\ at[w].step <= Len(Plan[w][at[w].exp].steps)
  BY <1>1 DEF StepsLeft, StepNow, Here
<1>4. Len(Plan[w][at[w].exp].steps) \in Nat
  BY <1>2, RunnerAssumption
<1>5. at[w].step \in 1..Len(Plan[w][at[w].exp].steps)
  BY <1>2, <1>3, <1>4
<1> QED
  BY <1>1, <1>2, <1>3, <1>5 DEF Ahead

LEMMA AheadIsPlanned ==
  ASSUME NEW w \in Writer
  PROVE  Ahead(w) \subseteq PlannedFor(w)
BY DEF Ahead, PlannedFor, CellsIn

\* What lies ahead only shrinks while a writer is up.
LEMMA AheadShrinks ==
  ASSUME TypeOK, NEW w \in Writer,
         at'[w] = at[w] \/ NextStep(w) \/ NextExperiment(w)
  PROVE  Ahead(w)' \subseteq Ahead(w)
<1>1. /\ at[w].exp \in Nat /\ at[w].step \in Nat
      /\ \/ at'[w] = at[w]
         \/ at'[w].exp = at[w].exp /\ at'[w].step = at[w].step + 1
         \/ at'[w].exp = at[w].exp + 1
  BY DEF NextStep, NextExperiment, TypeOK
<1>2. \A i, j \in Int :
        i > at'[w].exp \/ (i = at'[w].exp /\ j >= at'[w].step)
          => i > at[w].exp \/ (i = at[w].exp /\ j >= at[w].step)
  BY <1>1
<1> QED
  BY <1>2, PlanType DEF Ahead

\* An aborted experiment leaves its current cell behind.
LEMMA AbortLeavesBehind ==
  ASSUME TypeOK, PlansDistinct, NEW w \in Writer, pc[w] = "body", NextExperiment(w)
  PROVE  StepNow(w) \notin Ahead(w)'
<1> SUFFICES ASSUME StepNow(w) \in Ahead(w)' PROVE FALSE
  OBVIOUS
<1>1. StepsLeft(w) /\ StepNow(w) \in Cell
  BY DEF TypeOK
<1>2. at[w].exp \in 1..Len(Plan[w]) /\ at[w].step \in Nat \ {0} /\ Len(Plan[w]) \in Nat
  BY <1>1, PlanType DEF StepsLeft, Remaining
<1>3. at[w].step \in 1..Len(Plan[w][at[w].exp].steps)
  <2>1. Len(Plan[w][at[w].exp].steps) \in Nat
    BY <1>2, RunnerAssumption
  <2> QED
    BY <1>1, <1>2, <2>1 DEF StepsLeft, Here
<1>4. at'[w] = [exp |-> at[w].exp + 1, step |-> 1]
  BY DEF NextExperiment, TypeOK
<1>5. PICK i \in 1..Len(Plan[w]) : \E j \in 1..Len(Plan[w][i].steps) :
        /\ Plan[w][i].steps[j] = StepNow(w)
        /\ i > at'[w].exp \/ (i = at'[w].exp /\ j >= at'[w].step)
  BY DEF Ahead
<1>6. Plan[w][at[w].exp].steps[at[w].step] = StepNow(w)
  BY DEF StepNow, Here
<1>7. i = at[w].exp
  <2>1. PICK j \in 1..Len(Plan[w][i].steps) : Plan[w][i].steps[j] = StepNow(w)
    BY <1>5
  <2>2. \A k \in 1..Len(Plan[w]) : \A l \in 1..Len(Plan[w][k].steps) :
          Plan[w][i].steps[j] = Plan[w][k].steps[l] => i = k
    <3>1. Plan[w][i].steps[j] \in Cell
      BY <1>1, <2>1
    <3> QED
      BY <3>1, Zenon DEF PlansDistinct
  <2>3. \A l \in 1..Len(Plan[w][at[w].exp].steps) :
          Plan[w][i].steps[j] = Plan[w][at[w].exp].steps[l] => i = at[w].exp
    BY <1>2, <2>2
  <2>4. Plan[w][i].steps[j] = Plan[w][at[w].exp].steps[at[w].step]
    BY <1>6, <2>1
  <2> QED
    BY <1>3, <2>3, <2>4, Zenon
<1> QED
  BY <1>2, <1>4, <1>5, <1>7

-----------------------------------------------------------------------------
\* A step that leaves the disk alone, starts nobody and goes only forward.
LEMMA QuietResume ==
  ASSUME ResumeInv, UNCHANGED disk,
         \A v \in Writer :
           /\ pc'[v] # "down" => pc[v] # "down" /\ finished'[v] = finished[v]
           /\ pc'[v] # "down" => at'[v] = at[v] \/ NextStep(v) \/ NextExperiment(v)
           /\ pc'[v] = "body" => at'[v] = at[v] /\ StepNow(v) \notin finished[v]
  PROVE  OneJobUp' /\ NothingAheadTwice' /\ BodyUnfinished' /\ OneRowPerCell'
<1> USE DEF ResumeInv
<1>1. OneJobUp'
  BY DEF OneJobUp
<1>2. NothingAheadTwice'
  <2> SUFFICES ASSUME NEW v \in Writer, pc'[v] # "down"
               PROVE  CellsOn(disk') \cap Ahead(v)' \subseteq finished'[v]
    BY DEF NothingAheadTwice
  <2>1. Ahead(v)' \subseteq Ahead(v)
    BY AheadShrinks
  <2>2. CellsOn(disk) \cap Ahead(v) \subseteq finished[v]
    BY DEF NothingAheadTwice
  <2> QED
    BY <2>1, <2>2
<1>3. BodyUnfinished'
  <2> SUFFICES ASSUME NEW v \in Writer, pc'[v] = "body"
               PROVE  StepNow(v)' \notin finished'[v]
    BY DEF BodyUnfinished
  <2> QED
    BY DEF StepNow, Here
<1>4. OneRowPerCell'
  BY DEF OneRowPerCell
<1> QED
  BY <1>1, <1>2, <1>3, <1>4

\* A cell gets its row only when no ledger holds one.
LEMMA AppendResume ==
  ASSUME OneByOne, PlansDistinct, ResumeInv, NEW w \in Writer, Appends(w)
  PROVE  OneJobUp' /\ NothingAheadTwice' /\ BodyUnfinished' /\ OneRowPerCell'
<1> USE DEF ResumeInv
<1>1. pc[w] = "body" /\ StepNow(w) \notin finished[w]
  BY DEF Appends, BodyUnfinished
<1>2. \A v \in Writer \ {w} : pc'[v] = pc[v] /\ at'[v] = at[v] /\ finished'[v] = finished[v]
  BY DEF Appends
<1>3. StepNow(w) \in Cell /\ StepNow(w) \in Ahead(w)
  BY <1>1, BodyIsAhead DEF TypeOK
<1>4. StepNow(w) \notin CellsOn(disk)
  BY <1>1, <1>3 DEF NothingAheadTwice
<1>10. PICK failed \in BOOLEAN : \A f \in FileName : \A i \in RowsOf(disk'[f]) :
        \/ i \in RowsOf(disk[f]) /\ disk'[f].lines[i] = disk[f].lines[i]
        \/ /\ f = FileOf(w) /\ i = Len(disk[f].lines) + 1
           /\ disk'[f].lines[i] = RowNow(w, failed)
  BY RowsAfterAppend
<1>11. RowNow(w, failed).cell = StepNow(w)
  BY DEF RowNow
<1>5. OneJobUp'
  BY <1>1, <1>2 DEF OneJobUp
<1>6. BodyUnfinished'
  <2> SUFFICES ASSUME NEW v \in Writer, pc'[v] = "body"
               PROVE  StepNow(v)' \notin finished'[v]
    BY DEF BodyUnfinished
  <2>1. v # w
    BY DEF Appends
  <2> QED
    BY <1>2, <2>1 DEF BodyUnfinished, StepNow, Here
<1>7. OneRowPerCell'
  <2> SUFFICES ASSUME NEW f \in FileName, NEW g \in FileName,
                      NEW i \in RowsOf(disk'[f]), NEW j \in RowsOf(disk'[g]),
                      disk'[f].lines[i].cell = disk'[g].lines[j].cell
               PROVE  f = g /\ i = j
    BY DEF OneRowPerCell
  <2> DEFINE Old(h, k) == k \in RowsOf(disk[h]) /\ disk'[h].lines[k] = disk[h].lines[k]
             New(h, k) == /\ h = FileOf(w) /\ k = Len(disk[h].lines) + 1
                          /\ disk'[h].lines[k].cell = StepNow(w)
  <2>1. (Old(f, i) \/ New(f, i)) /\ (Old(g, j) \/ New(g, j))
    BY <1>10, <1>11
  <2>2. \A h \in FileName : \A k : Old(h, k) => disk'[h].lines[k].cell # StepNow(w)
    BY <1>3, <1>4 DEF CellsOn
  <2>3. CASE Old(f, i) /\ Old(g, j)
    BY <2>3 DEF OneRowPerCell
  <2>4. CASE New(f, i) /\ New(g, j)
    BY <2>4
  <2> HIDE DEF Old
  <2> QED
    BY <2>1, <2>2, <2>3, <2>4
<1>8. CellsOn(disk') \subseteq CellsOn(disk) \cup {StepNow(w)}
  <2> SUFFICES ASSUME NEW c \in CellsOn(disk'), c # StepNow(w) PROVE c \in CellsOn(disk)
    OBVIOUS
  <2>0. PICK f \in FileName : \E i \in RowsOf(disk'[f]) : c \in Cell /\ disk'[f].lines[i].cell = c
    BY DEF CellsOn
  <2>1. PICK i \in RowsOf(disk'[f]) : c \in Cell /\ disk'[f].lines[i].cell = c
    BY <2>0
  <2>2. i \in RowsOf(disk[f]) /\ disk'[f].lines[i] = disk[f].lines[i]
    BY <1>10, <1>11, <2>1
  <2> QED
    BY <2>1, <2>2 DEF CellsOn
<1>9. NothingAheadTwice'
  <2>6. ASSUME NEW v \in Writer \ {w}, pc'[v] # "down"
        PROVE  CellsOn(disk') \cap Ahead(v)' \subseteq finished'[v]
    <3>1. pc[v] # "down" /\ finished'[v] = finished[v] /\ Ahead(v)' = Ahead(v)
      BY <1>2, <2>6 DEF Ahead
    <3>2. CellsOn(disk) \cap Ahead(v) \subseteq finished[v]
      BY <3>1 DEF NothingAheadTwice
    <3>3. v.job = w.job
      BY <1>1, <3>1 DEF OneJobUp
    <3>4. StepNow(w) \notin Ahead(v)
      BY <1>3, <3>3, AheadIsPlanned DEF OneByOne
    <3> QED
      BY <1>8, <3>1, <3>2, <3>4
  <2> SUFFICES ASSUME pc'[w] # "down"
               PROVE  CellsOn(disk') \cap Ahead(w)' \subseteq finished'[w]
    BY <2>6 DEF NothingAheadTwice
  <2>1. CellsOn(disk) \cap Ahead(w) \subseteq finished[w]
    BY <1>1 DEF NothingAheadTwice
  <2>2. \/ finished'[w] = finished[w] \cup {StepNow(w)} /\ (NextStep(w) \/ NextExperiment(w))
        \/ finished'[w] = finished[w] /\ NextExperiment(w)
    BY DEF Appends
  <2>3. Ahead(w)' \subseteq Ahead(w)
    BY <2>2, AheadShrinks
  <2>4. CASE finished'[w] = finished[w] \cup {StepNow(w)}
    BY <1>8, <2>1, <2>3, <2>4
  <2>5. CASE finished'[w] = finished[w] /\ NextExperiment(w)
    <3>1. StepNow(w) \notin Ahead(w)'
      BY <1>1, <2>5, AbortLeavesBehind
    <3> QED
      BY <1>8, <2>1, <2>3, <2>5, <3>1
  <2> QED
    BY <2>2, <2>4, <2>5
<1> QED
  BY <1>5, <1>6, <1>7, <1>9

\* Every step keeps what resuming rests on.
LEMMA ResumeStep ==
  ASSUME OneByOne, PlansDistinct, ResumeInv, [Next]_vars
  PROVE  OneJobUp' /\ NothingAheadTwice' /\ BodyUnfinished' /\ OneRowPerCell'
<1> USE DEF ResumeInv
<1>1. ASSUME NEW w \in Writer, Open(w)
      PROVE  OneJobUp' /\ NothingAheadTwice' /\ BodyUnfinished' /\ OneRowPerCell'
  <2>1. /\ disk' = disk
        /\ pc' = [pc EXCEPT ![w] = "open"]
        /\ finished' = [finished EXCEPT ![w] = CellsOn(disk)]
    BY <1>1 DEF Open
  <2>2. \A v \in Writer : v.job # w.job => pc[v] = "down"
    BY <1>1 DEF Open, OneByOne
  <2>3. /\ pc'[w] = "open" /\ finished'[w] = CellsOn(disk)
        /\ \A v \in Writer \ {w} :
             pc'[v] = pc[v] /\ at'[v] = at[v] /\ finished'[v] = finished[v]
    BY <1>1, <2>1 DEF Open, TypeOK
  <2>4. CellsOn(disk') = CellsOn(disk)
    BY <2>1
  <2>5. OneJobUp'
    BY <2>2, <2>3 DEF OneJobUp
  <2>6. NothingAheadTwice'
    <3>1. \A v \in Writer \ {w} : Ahead(v)' = Ahead(v)
      BY <2>3 DEF Ahead
    <3> QED
      BY <2>3, <2>4, <3>1 DEF NothingAheadTwice
  <2>7. BodyUnfinished'
    BY <2>3 DEF BodyUnfinished, StepNow, Here
  <2>8. OneRowPerCell'
    BY <2>1 DEF OneRowPerCell
  <2> QED
    BY <2>5, <2>6, <2>7, <2>8
<1>2. ASSUME NEW w \in Writer, NEW failed \in BOOLEAN,
             \/ Record(w, failed) \/ RecordError(w, failed) \/ LogRaises(w, failed)
             \/ KillAfterAppend(w, failed) \/ KillInAppend(w, failed)
      PROVE  OneJobUp' /\ NothingAheadTwice' /\ BodyUnfinished' /\ OneRowPerCell'
  <2>1. Appends(w)
    BY <1>2, AppendingActions
  <2> QED
    BY <2>1, AppendResume
<1>3. ASSUME NEW w \in Writer,
             \/ Warn(w) \/ WarnRaises(w) \/ Skip(w) \/ Start(w) \/ Summarise(w)
             \/ SummaryRaises(w) \/ EndExperiment(w) \/ Finish(w) \/ Escape(w) \/ Kill(w)
      PROVE  OneJobUp' /\ NothingAheadTwice' /\ BodyUnfinished' /\ OneRowPerCell'
  <2>1. UNCHANGED <<disk, finished>>
    BY <1>3 DEF Warn, WarnRaises, Skip, Start, Summarise, SummaryRaises, EndExperiment,
                Finish, Escape, Kill
  <2>2. /\ pc'[w] # "down" => pc[w] # "down"
        /\ at'[w] = at[w] \/ NextStep(w) \/ NextExperiment(w)
        /\ pc'[w] = "body" => at'[w] = at[w] /\ StepNow(w) \notin finished[w]
    BY <1>3 DEF Warn, WarnRaises, Skip, Start, Summarise, SummaryRaises, EndExperiment,
                Finish, Escape, Kill, Abort, Exits, TypeOK
  <2>3. \A v \in Writer \ {w} : pc'[v] = pc[v] /\ at'[v] = at[v]
    BY <1>3 DEF Warn, WarnRaises, Skip, Start, Summarise, SummaryRaises, EndExperiment,
                Finish, Escape, Kill, Abort, Exits, NextStep, NextExperiment, TypeOK
  <2>4. \A v \in Writer : pc[v] = "body" => StepNow(v) \notin finished[v]
    BY DEF BodyUnfinished
  <2> QED
    BY <2>1, <2>2, <2>3, <2>4, QuietResume
<1>4. CASE UNCHANGED vars
  <2>1. UNCHANGED <<disk, pc, at, finished>>
    BY <1>4 DEF vars, process
  <2>2. \A v \in Writer : pc[v] = "body" => StepNow(v) \notin finished[v]
    BY DEF BodyUnfinished
  <2> QED
    BY <2>1, <2>2, QuietResume
<1>5. CASE Next
  <2>1. PICK w \in Writer : Open(w) \/ Run(w) \/ Disturb(w)
    BY <1>5 DEF Next
  <2> QED
    BY <1>1, <1>2, <1>3, <2>1 DEF Run, Disturb
<1> QED
  BY <1>4, <1>5

LEMMA InitResumes == Init => ResumeInv
<1> SUFFICES ASSUME Init PROVE ResumeInv
  OBVIOUS
<1>1. \A w \in Writer : pc[w] = "down"
  BY DEF Init
<1>2. \A f \in FileName : RowsOf(disk[f]) = {}
  BY DEF Init, EmptyFile, RowsOf
<1> QED
  BY <1>1, <1>2, InitType
  DEF ResumeInv, OneJobUp, NothingAheadTwice, BodyUnfinished, OneRowPerCell

-----------------------------------------------------------------------------
\* Resuming never measures twice: when the jobs of a campaign run one after
\* another, no cell gets a second row, whichever of them is killed, even in the
\* middle of a write, and whatever aborts (ledger.py:24-33, runner.py:71).
THEOREM NoCellMeasuredTwice ==
  ASSUME OneByOne, PlansDistinct
  PROVE  Spec => []OneRowPerCell
<1>1. ResumeInv /\ [Next]_vars => ResumeInv'
  BY StepType, ResumeStep DEF ResumeInv
<1>2. ResumeInv => OneRowPerCell
  BY DEF ResumeInv
<1> QED
  BY InitResumes, <1>1, <1>2, PTL DEF Spec

-----------------------------------------------------------------------------
\* An append gives the current cell its outcome, or leaves all outcomes alone.
LEMMA OutcomesAfterAppend ==
  ASSUME TypeOK, NEW w \in Writer, Appends(w), Grows(disk, disk'),
         StepNow(w) \notin CellsOn(disk), StepNow(w) \in Cell
  PROVE  /\ \A c \in Cell \ {StepNow(w)} : OutcomesOf(c)' = OutcomesOf(c)
         /\ OutcomesOf(StepNow(w)) = {}
         /\ \E failed \in BOOLEAN :
              {outcome \in BOOLEAN : \E f \in FileName : \E i \in RowsOf(disk'[f]) :
                 disk'[f].lines[i].cell = StepNow(w) /\ disk'[f].lines[i].failed = outcome}
              \in {{}, {failed}}
<1>1. PICK failed \in BOOLEAN : \A f \in FileName : \A i \in RowsOf(disk'[f]) :
        \/ i \in RowsOf(disk[f]) /\ disk'[f].lines[i] = disk[f].lines[i]
        \/ disk'[f].lines[i] = RowNow(w, failed)
  BY RowsAfterAppend
<1>2. OutcomesOf(StepNow(w)) = {}
  BY DEF OutcomesOf, CellsOn
<1>3. ASSUME NEW c \in Cell \ {StepNow(w)} PROVE OutcomesOf(c)' = OutcomesOf(c)
  <2>1. ASSUME NEW outcome \in OutcomesOf(c) PROVE outcome \in OutcomesOf(c)'
    BY <2>1 DEF OutcomesOf, Grows
  <2>2. ASSUME NEW outcome \in OutcomesOf(c)' PROVE outcome \in OutcomesOf(c)
    <3>1. PICK f \in FileName : \E i \in RowsOf(disk'[f]) :
            disk'[f].lines[i].cell = c /\ disk'[f].lines[i].failed = outcome
      BY <2>2 DEF OutcomesOf
    <3>2. PICK i \in RowsOf(disk'[f]) :
            disk'[f].lines[i].cell = c /\ disk'[f].lines[i].failed = outcome
      BY <3>1
    <3>3. i \in RowsOf(disk[f]) /\ disk'[f].lines[i] = disk[f].lines[i]
      BY <1>1, <3>2 DEF RowNow
    <3> QED
      BY <2>2, <3>2, <3>3 DEF OutcomesOf
  <2> QED
    BY <2>1, <2>2
<1>4. ASSUME NEW f \in FileName, NEW i \in RowsOf(disk'[f]),
             disk'[f].lines[i].cell = StepNow(w)
      PROVE  disk'[f].lines[i].failed = failed
  <2>1. \/ i \in RowsOf(disk[f]) /\ disk'[f].lines[i] = disk[f].lines[i]
        \/ disk'[f].lines[i] = RowNow(w, failed)
    BY <1>1
  <2>2. ~(i \in RowsOf(disk[f]) /\ disk'[f].lines[i] = disk[f].lines[i])
    BY <1>4 DEF CellsOn
  <2> QED
    BY <2>1, <2>2 DEF RowNow
<1> QED
  BY <1>2, <1>3, <1>4

\* A step of an append is a step of the store, or none.
LEMMA AppendMeasures ==
  ASSUME TypeOK, NEW w \in Writer, Appends(w), Grows(disk, disk'),
         StepNow(w) \notin CellsOn(disk), StepNow(w) \in Cell
  PROVE  CS!Next \/ UNCHANGED RecordedStatus
<1> DEFINE now == StepNow(w)
           after(c) == {outcome \in BOOLEAN : \E f \in FileName : \E i \in RowsOf(disk'[f]) :
                          disk'[f].lines[i].cell = c /\ disk'[f].lines[i].failed = outcome}
           st(outcomes) == CASE FALSE \in outcomes -> "ok"
                             [] outcomes = {TRUE} -> "failed"
                             [] outcomes = {} -> "none"
<1>1. /\ \A c \in Cell \ {now} : after(c) = OutcomesOf(c)
      /\ OutcomesOf(now) = {}
      /\ \E failed \in BOOLEAN : after(now) \in {{}, {failed}}
  <2>1. \A c \in Cell : OutcomesOf(c)' = after(c)
    BY DEF OutcomesOf
  <2>2. \A c \in Cell \ {now} : OutcomesOf(c)' = OutcomesOf(c)
    BY OutcomesAfterAppend
  <2> QED
    BY <2>1, <2>2, OutcomesAfterAppend
<1>2. /\ RecordedStatus = [c \in Cell |-> st(OutcomesOf(c))]
      /\ RecordedStatus' = [c \in Cell |-> st(after(c))]
  BY DEF RecordedStatus, OutcomesOf
<1>3. now \in Cell
  OBVIOUS
<1>4. \A c \in Cell \ {now} : RecordedStatus'[c] = RecordedStatus[c]
  <2> HIDE DEF st, after
  <2> QED
    BY <1>1, <1>2
<1>5. RecordedStatus[now] = "none" /\ RecordedStatus'[now] = st(after(now))
  <2>1. st({}) = "none"
    OBVIOUS
  <2> HIDE DEF st, after
  <2> QED
    BY <1>1, <1>2, <1>3, <2>1
<1>6. st(after(now)) \in {"none", "ok", "failed"}
  BY <1>1
<1> HIDE DEF st, after
<1>7. RecordedStatus' = [RecordedStatus EXCEPT ![now] = st(after(now))]
  BY <1>2, <1>3, <1>4, <1>5
<1>8. CASE st(after(now)) = "none"
  BY <1>2, <1>5, <1>7, <1>8
<1>9. CASE st(after(now)) \in {"ok", "failed"}
  <2>1. CS!Measure(now, st(after(now)))
    BY <1>5, <1>7 DEF CS!Measure
  <2> QED
    BY <1>3, <1>9, <2>1 DEF CS!Next
<1> QED
  BY <1>6, <1>8, <1>9

LEMMA StepMeasures ==
  ASSUME WholeWrites, OneByOne, PlansDistinct, IInv, ResumeInv, [Next]_vars
  PROVE  CS!Next \/ UNCHANGED RecordedStatus
<1>1. Grows(disk, disk')
  BY StepKeeps
<1>2. ASSUME NEW w \in Writer, Appends(w) PROVE CS!Next \/ UNCHANGED RecordedStatus
  <2>1. pc[w] = "body" /\ StepNow(w) \in Cell /\ StepNow(w) \in Ahead(w)
    BY <1>2, BodyIsAhead DEF Appends, ResumeInv, TypeOK
  <2>2. StepNow(w) \notin CellsOn(disk)
    BY <2>1 DEF ResumeInv, BodyUnfinished, NothingAheadTwice
  <2> QED
    BY <1>1, <1>2, <2>1, <2>2, AppendMeasures DEF ResumeInv
<1>3. ASSUME UNCHANGED disk PROVE UNCHANGED RecordedStatus
  BY <1>3 DEF RecordedStatus, OutcomesOf
<1>4. CASE UNCHANGED vars
  BY <1>3, <1>4 DEF vars
<1>5. CASE Next
  <2>1. PICK w \in Writer : Open(w) \/ Run(w) \/ Disturb(w)
    BY <1>5 DEF Next
  <2>2. \A failed \in BOOLEAN :
          \/ Record(w, failed) \/ RecordError(w, failed) \/ LogRaises(w, failed)
          \/ KillAfterAppend(w, failed) \/ KillInAppend(w, failed)
          => Appends(w)
    BY AppendingActions DEF ResumeInv
  <2>3. UNCHANGED disk \/ Appends(w)
    BY <2>1, <2>2 DEF Run, Disturb, Open, Warn, WarnRaises, Skip, Start, Summarise,
                      SummaryRaises, EndExperiment, Finish, Escape, Kill
  <2> QED
    BY <1>2, <1>3, <2>3
<1> QED
  BY <1>4, <1>5

\* The ledgers implement the store: one outcome for a cell, once, and kept
\* (ledger.py:6-10, runner.py:58-69).  Appends that fail are allowed, as long as
\* they leave nothing or the whole line, and so are kills, but not in the middle
\* of a write that another process appends to.
THEOREM LedgersAreAStore ==
  ASSUME WholeWrites, OneByOne, PlansDistinct
  PROVE  Spec => MeasuredOnce
<1>1. Init => CS!Init
  <2> SUFFICES ASSUME Init PROVE CS!Init
    OBVIOUS
  <2>1. \A f \in FileName : RowsOf(disk[f]) = {}
    BY DEF Init, EmptyFile, RowsOf
  <2>2. \A c \in Cell : OutcomesOf(c) = {}
    BY <2>1 DEF OutcomesOf
  <2> QED
    BY <2>2 DEF CS!Init, RecordedStatus
<1>2. ResumeInv /\ [Next]_vars => ResumeInv'
  BY StepType, ResumeStep DEF ResumeInv
<1>3. IInv /\ ResumeInv /\ [Next]_vars => [CS!Next]_RecordedStatus
  BY StepMeasures
<1> QED
  BY InitResumes, Invariance, <1>1, <1>2, <1>3, PTL DEF Spec, MeasuredOnce, CS!Spec
=============================================================================
