------------------------------- MODULE Runner -------------------------------
(***************************************************************************)
(* The measurement runs of layout_tuning: runner.main over its ledger.     *)
(*                                                                         *)
(* A writer is one (job, rank) pair or, outside Slurm, "the local run".  It *)
(* owns the name of one results file.  A writer is launched, reads every   *)
(* results file once to learn which cells are finished, goes through the   *)
(* experiments it was asked for, appends one row per cell it measures, and *)
(* exits.  It may be killed anywhere and launched again under the same     *)
(* name: #SBATCH --requeue keeps the job id, and a local run is always     *)
(* results.jsonl.                                                          *)
(***************************************************************************)
EXTENDS LedgerFile

CONSTANTS
  Writer,        \* the processes: job, rank, multi-node or not, partition
  Job,           \* job ids, NoJob (outside Slurm) among them
  NoJob,
  NoPartition,   \* SLURM_JOB_PARTITION unset
  Experiment,    \* registered experiment names
  Plan,          \* the experiments of a writer, each a sequence of steps
  Summary,       \* the step that reads rows(prefix) and logs medians
  Overlap,       \* may a job start while another one runs?
  Faults,        \* the kinds of fault that may happen
  MaxLaunches,   \* bound on the launches of one writer
  MaxFaults      \* bound on the faults of a behaviour

FaultKind == {"kill", "tornKill", "writeError", "tornError", "escape", "summary"}

ASSUME RunnerAssumption ==
  /\ NoPartition \in Partition
  /\ NoJob \in Job
  /\ Writer \subseteq [job : Job, rank : Nat, multi : BOOLEAN, partition : Partition]
  /\ Summary \notin Cell
  /\ Plan \in [Writer -> Seq([name : Experiment, steps : Seq(Cell \cup {Summary})])]
  /\ \A w \in Writer : Plan[w] # <<>>
  /\ Overlap \in BOOLEAN
  /\ Faults \subseteq FaultKind
  /\ MaxLaunches \in Nat
  /\ MaxFaults \in Nat

\* A bug FileOf could have: only the rank tells the files of multi-node jobs
\* apart, so two such jobs append to one file.
FileOfRank(w) == [job |-> IF w.multi THEN NoJob ELSE w.job,
                  suffix |-> IF w.multi THEN {w.rank} ELSE {}]

\* The file a writer appends to: results[_<job>][_rank<rank>].jsonl.
FileOf(w) == [job |-> w.job, suffix |-> IF w.multi THEN {w.rank} ELSE {}]

\* The names the glob results*.jsonl finds.
FileName == {FileOf(w) : w \in Writer}

VARIABLES
  disk,      \* the results files in the shared scratch directory
  pc,        \* where a writer's process stands
  at,        \* the experiment and the step it has reached
  finished,  \* Ledger.finished of its current launch
  failures,  \* main's list of aborted experiments
  warned,    \* experiments it warned about: rows from another partition
  exit,      \* how its last launch ended
  launches,  \* how often it was launched
  faults     \* faults so far (bounds the behaviour, no part of the code)

process == <<pc, at, finished, failures, warned, exit>>
vars == <<disk, process, launches, faults>>

-----------------------------------------------------------------------------
(* What a writer sees of the ledgers.                                      *)

\* A bug CellsOn could have: a failed row does not count as done.
CellsOnSucceeded(d) ==
  {c \in Cell : \E f \in FileName : \E i \in RowsOf(d[f]) :
     d[f].lines[i].cell = c /\ ~d[f].lines[i].failed}

\* Ledger.__init__ collects the cells of all lines that parse ...
CellsOn(d) ==
  {c \in Cell : \E f \in FileName : \E i \in RowsOf(d[f]) : d[f].lines[i].cell = c}

\* ... and Ledger.rows raises on the first line that does not, whatever the
\* prefix it was asked for.
RowsReadable(d) == \A f \in FileName : Parses(d[f])

Experiments(w) == {Plan[w][i].name : i \in 1..Len(Plan[w])}

CellsIn(steps) == {c \in Cell : \E j \in 1..Len(steps) : steps[j] = c}

\* An experiment's prefix selects the rows of its cells.
CellsOfExperiment(e) ==
  UNION {UNION {CellsIn(Plan[w][i].steps) : i \in {j \in 1..Len(Plan[w]) : Plan[w][j].name = e}}
         : w \in Writer}

\* A bug Elsewhere could have: rows of this partition hide the others.
ElsewhereUnlessHere(d, e, here) ==
  {p \in Partition \ {here, NoPartition} :
     /\ \E f \in FileName : \E i \in RowsOf(d[f]) :
          d[f].lines[i].partition = p /\ d[f].lines[i].cell \in CellsOfExperiment(e)
     /\ \A f \in FileName : \A i \in RowsOf(d[f]) :
          d[f].lines[i].partition = here => d[f].lines[i].cell \notin CellsOfExperiment(e)}

\* _warn_on_mixed_hardware: the partitions an experiment has rows from that
\* are neither this one nor unknown.
Elsewhere(d, e, here) ==
  {p \in Partition \ {here, NoPartition} :
     \E f \in FileName : \E i \in RowsOf(d[f]) :
        d[f].lines[i].partition = p /\ d[f].lines[i].cell \in CellsOfExperiment(e)}

-----------------------------------------------------------------------------
(* Where a writer stands in its plan.                                      *)

Remaining(w) == at[w].exp <= Len(Plan[w])

Here(w) == Plan[w][at[w].exp]

StepsLeft(w) == Remaining(w) /\ at[w].step <= Len(Here(w).steps)

StepNow(w) == Here(w).steps[at[w].step]

NextStep(w) == at' = [at EXCEPT ![w].step = @ + 1]

\* A bug NextExperiment could have: an aborted experiment takes the next with it.
NextExperimentTwice(w) == at' = [at EXCEPT ![w] = [exp |-> at[w].exp + 2, step |-> 1]]

NextExperiment(w) == at' = [at EXCEPT ![w] = [exp |-> at[w].exp + 1, step |-> 1]]

\* A bug Abort could have: the experiment is left out of the list of failures.
AbortSilently(w) ==
  /\ NextExperiment(w)
  /\ pc' = [pc EXCEPT ![w] = "run"]
  /\ UNCHANGED <<failures, warned, exit>>

\* main's except clause: note the experiment as failed, go on to the next one.
Abort(w) ==
  /\ failures' = [failures EXCEPT ![w] = @ \cup {Here(w).name}]
  /\ NextExperiment(w)
  /\ pc' = [pc EXCEPT ![w] = "run"]
  /\ UNCHANGED <<warned, exit>>

Exits(w, code) ==
  /\ pc' = [pc EXCEPT ![w] = "down"]
  /\ exit' = [exit EXCEPT ![w] = code]

Fault(kind) ==
  /\ kind \in Faults
  /\ faults < MaxFaults
  /\ faults' = faults + 1

\* The row of the current cell.
RowNow(w, failed) ==
  [cell |-> StepNow(w), failed |-> failed, partition |-> w.partition]

\* A bug AppendRow could have: a failed cell leaves no row.
AppendSuccess(w, failed) ==
  disk' = IF failed THEN disk
          ELSE [disk EXCEPT ![FileOf(w)] = PutRow(@, RowNow(w, failed))]

AppendRow(w, failed) ==
  disk' = [disk EXCEPT ![FileOf(w)] = PutRow(@, RowNow(w, failed))]

-----------------------------------------------------------------------------
Init ==
  /\ disk = [f \in FileName |-> EmptyFile]
  /\ pc = [w \in Writer |-> "down"]
  /\ at = [w \in Writer |-> [exp |-> 1, step |-> 1]]
  /\ finished = [w \in Writer |-> {}]
  /\ failures = [w \in Writer |-> {}]
  /\ warned = [w \in Writer |-> {}]
  /\ exit = [w \in Writer |-> "none"]
  /\ launches = [w \in Writer |-> 0]
  /\ faults = 0

\* srun starts the ranks of a job side by side; a requeued job starts all of
\* them anew, after the last one of the earlier launch is gone.
JoinsLaunch(w, v) ==
  \/ launches[v] = launches[w] /\ pc[v] = "down"
  \/ launches[v] = launches[w] + 1

\* A job starts, configure() opens the ledger: the cells already on disk are
\* read once, here, and never again in this launch.
Open(w) ==
  /\ pc[w] = "down"
  /\ launches[w] < MaxLaunches
  /\ Overlap \/ \A v \in Writer : v.job # w.job => pc[v] = "down"
  /\ \A v \in Writer : v.job = w.job => JoinsLaunch(w, v)
  /\ launches' = [launches EXCEPT ![w] = @ + 1]
  /\ pc' = [pc EXCEPT ![w] = "open"]
  /\ at' = [at EXCEPT ![w] = [exp |-> 1, step |-> 1]]
  /\ finished' = [finished EXCEPT ![w] = CellsOn(disk)]
  /\ failures' = [failures EXCEPT ![w] = {}]
  /\ warned' = [warned EXCEPT ![w] = {}]
  /\ exit' = [exit EXCEPT ![w] = "none"]
  /\ UNCHANGED <<disk, faults>>

\* _warn_on_mixed_hardware reads rows(name/) for every name, but only under
\* Slurm; what follows it up to the loop (_report_eviction_mode, _preflight)
\* touches no ledger, and a failing preflight ends the process like a Kill.
Warn(w) ==
  /\ pc[w] = "open"
  /\ w.partition = NoPartition \/ RowsReadable(disk)
  /\ warned' = [warned EXCEPT ![w] =
       IF w.partition = NoPartition THEN {}
       ELSE {e \in Experiments(w) : Elsewhere(disk, e, w.partition) # {}}]
  /\ pc' = [pc EXCEPT ![w] = "run"]
  /\ UNCHANGED <<disk, at, finished, failures, exit, launches, faults>>

\* The same read outside any try block: a line that does not parse ends the job.
WarnRaises(w) ==
  /\ pc[w] = "open"
  /\ w.partition # NoPartition
  /\ ~RowsReadable(disk)
  /\ Exits(w, "dead")
  /\ UNCHANGED <<disk, at, finished, failures, warned, launches, faults>>

\* measured(): a cell the ledger already holds is not measured again.
Skip(w) ==
  /\ pc[w] = "run"
  /\ StepsLeft(w)
  /\ StepNow(w) \in finished[w]
  /\ NextStep(w)
  /\ UNCHANGED <<disk, pc, finished, failures, warned, exit, launches, faults>>

Start(w) ==
  /\ pc[w] = "run"
  /\ StepsLeft(w)
  /\ StepNow(w) \in Cell \ finished[w]
  /\ pc' = [pc EXCEPT ![w] = "body"]
  /\ UNCHANGED <<disk, at, finished, failures, warned, exit, launches, faults>>

\* measured(): the body returned a row, or raised and becomes a failed row.
Record(w, failed) ==
  /\ pc[w] = "body"
  /\ AppendRow(w, failed)
  /\ finished' = [finished EXCEPT ![w] = @ \cup {StepNow(w)}]
  /\ NextStep(w)
  /\ pc' = [pc EXCEPT ![w] = "run"]
  /\ UNCHANGED <<failures, warned, exit, launches, faults>>

\* The append itself raises (ENOSPC, EDQUOT, EIO): measured() does not catch
\* that, main does, and the process keeps appending to the same file.
RecordError(w, failed) ==
  /\ pc[w] = "body"
  /\ \E torn \in BOOLEAN :
       /\ Fault(IF torn THEN "tornError" ELSE "writeError")
       /\ \E f \in PutFailed(disk[FileOf(w)], RowNow(w, failed), torn) :
            disk' = [disk EXCEPT ![FileOf(w)] = f]
  /\ Abort(w)
  /\ UNCHANGED <<finished, launches>>

\* Something raises in measured() outside its try block before the append:
\* the counter delta (zero files), the lock count, a log line.
Escape(w) ==
  /\ pc[w] = "body"
  /\ Fault("escape")
  /\ Abort(w)
  /\ UNCHANGED <<disk, finished, launches>>

\* The log line after the append raises (run.log is a file like any other): the
\* row is in the ledger, the rest of the experiment is not measured.
LogRaises(w, failed) ==
  /\ pc[w] = "body"
  /\ Fault("escape")
  /\ AppendRow(w, failed)
  /\ finished' = [finished EXCEPT ![w] = @ \cup {StepNow(w)}]
  /\ Abort(w)
  /\ UNCHANGED launches

\* The summary between the cells reads every ledger and logs.
Summarise(w) ==
  /\ pc[w] = "run"
  /\ StepsLeft(w)
  /\ StepNow(w) = Summary
  /\ RowsReadable(disk)
  /\ NextStep(w)
  /\ UNCHANGED <<disk, pc, finished, failures, warned, exit, launches, faults>>

SummaryRaises(w) ==
  /\ pc[w] = "run"
  /\ StepsLeft(w)
  /\ StepNow(w) = Summary
  /\ \/ ~RowsReadable(disk) /\ UNCHANGED faults
     \/ Fault("summary")
  /\ Abort(w)
  /\ UNCHANGED <<disk, finished, launches>>

\* The experiment function returned.
EndExperiment(w) ==
  /\ pc[w] = "run"
  /\ Remaining(w)
  /\ ~StepsLeft(w)
  /\ NextExperiment(w)
  /\ UNCHANGED <<disk, pc, finished, failures, warned, exit, launches, faults>>

\* The end of main: count the failed cells, return 1 if anything aborted.
Finish(w) ==
  /\ pc[w] = "run"
  /\ ~Remaining(w)
  /\ Exits(w, IF ~RowsReadable(disk) THEN "dead"
              ELSE IF failures[w] # {} THEN "one" ELSE "zero")
  /\ UNCHANGED <<disk, at, finished, failures, warned, launches, faults>>

\* The time limit, scancel, a node failure, an exception nobody catches.
Kill(w) ==
  /\ pc[w] # "down"
  /\ Fault("kill")
  /\ Exits(w, "dead")
  /\ UNCHANGED <<disk, at, finished, failures, warned, launches>>

\* The same when the row has just reached the file ...
KillAfterAppend(w, failed) ==
  /\ pc[w] = "body"
  /\ Fault("kill")
  /\ AppendRow(w, failed)
  /\ Exits(w, "dead")
  /\ UNCHANGED <<at, finished, failures, warned, launches>>

\* ... and in the middle of the write.
KillInAppend(w, failed) ==
  /\ pc[w] = "body"
  /\ Fault("tornKill")
  /\ \E f \in PutTorn(disk[FileOf(w)], RowNow(w, failed)) :
       disk' = [disk EXCEPT ![FileOf(w)] = f]
  /\ Exits(w, "dead")
  /\ UNCHANGED <<at, finished, failures, warned, launches>>

Run(w) ==
  \/ Warn(w) \/ WarnRaises(w)
  \/ Skip(w) \/ Start(w)
  \/ \E failed \in BOOLEAN : Record(w, failed)
  \/ Summarise(w) \/ SummaryRaises(w)
  \/ EndExperiment(w) \/ Finish(w)

Disturb(w) ==
  \/ Escape(w)
  \/ \E failed \in BOOLEAN :
       \/ RecordError(w, failed) \/ LogRaises(w, failed)
       \/ KillAfterAppend(w, failed) \/ KillInAppend(w, failed)
  \/ Kill(w)

Next == \E w \in Writer : Open(w) \/ Run(w) \/ Disturb(w)

Spec == Init /\ [][Next]_vars

\* A process that is up keeps running, and a job that ended is submitted again
\* while launches are left ("re-submitting the same job continues").
Fairness == \A w \in Writer : WF_vars(Run(w)) /\ WF_vars(Open(w))

FairSpec == Spec /\ Fairness

-----------------------------------------------------------------------------
(* Properties.                                                             *)

\* Every variable has its type; a writer stands inside its plan or just behind it.
TypeOK ==
  /\ disk \in [FileName -> File]
  /\ pc \in [Writer -> {"down", "open", "run", "body"}]
  /\ at \in [Writer -> [exp : Nat \ {0}, step : Nat \ {0}]]
  /\ finished \in [Writer -> SUBSET Cell]
  /\ failures \in [Writer -> SUBSET Experiment]
  /\ warned \in [Writer -> SUBSET Experiment]
  /\ exit \in [Writer -> {"none", "zero", "one", "dead"}]
  /\ launches \in [Writer -> 0..MaxLaunches]
  /\ faults \in 0..MaxFaults
  /\ \A w \in Writer : at[w].exp <= Len(Plan[w]) + 1
  /\ \A w \in Writer : pc[w] = "body" => StepsLeft(w) /\ StepNow(w) \in Cell

\* No cell has two rows, in one file or in two: resume skips what any ledger
\* holds (ledger.py:24-33, runner.py:71), so a campaign whose jobs run one after
\* another measures no cell twice, whatever is killed or aborts.
OneRowPerCell ==
  \A f, g \in FileName : \A i \in RowsOf(disk[f]), j \in RowsOf(disk[g]) :
    disk[f].lines[i].cell = disk[g].lines[j].cell => f = g /\ i = j

\* What a running process believes finished is on disk in a line that a restart
\* can read: the set in memory never runs ahead of the ledger (ledger.py:44-48,
\* "every finished cell is written and fsynced immediately").
FinishedReadable ==
  \A w \in Writer : pc[w] # "down" => finished[w] \subseteq CellsOn(disk)

\* A row that could be read stays in its file, unchanged: appends of other jobs
\* and torn writes never reach it (ledger.py:14-18, runner.py:47-50).
KeepsRows ==
  [][\A f \in FileName : \A i \in RowsOf(disk[f]) :
       i \in RowsOf(disk'[f]) /\ disk'[f].lines[i] = disk[f].lines[i]]_vars

\* The exit status tells the truth: a job that reports anything at all has a
\* readable row for every cell of each experiment it does not list as aborted,
\* and it returns 0 only when it lists none (runner.py:253-277).
ExitReport ==
  [][\A w \in Writer :
       pc[w] # "down" /\ exit'[w] \in {"zero", "one"} =>
         /\ \A i \in 1..Len(Plan[w]) :
              Plan[w][i].name \notin failures[w] =>
                CellsIn(Plan[w][i].steps) \subseteq CellsOn(disk')
         /\ (exit'[w] = "zero") <=> (failures[w] = {})]_vars

\* A job under Slurm that skips a cell measured only on other partitions has
\* warned about that cell's experiment (runner.py:121-143).
SkipWarned ==
  [][\A w \in Writer :
       Skip(w) /\ w.partition # NoPartition =>
         \/ Here(w).name \in warned[w]
         \/ \E f \in FileName : \E i \in RowsOf(disk[f]) :
              /\ disk[f].lines[i].cell = StepNow(w)
              /\ disk[f].lines[i].partition \in {w.partition, NoPartition}]_vars

\* The outcomes of a cell that the ledgers hold, as rows() returns them.
OutcomesOf(c) ==
  {outcome \in BOOLEAN : \E f \in FileName : \E i \in RowsOf(disk[f]) :
     disk[f].lines[i].cell = c /\ disk[f].lines[i].failed = outcome}

RecordedStatus ==
  [c \in Cell |-> CASE FALSE \in OutcomesOf(c) -> "ok"
                    [] OutcomesOf(c) = {TRUE} -> "failed"
                    [] OutcomesOf(c) = {} -> "none"]

CS == INSTANCE CellStore WITH status <- RecordedStatus

\* The ledgers implement the store: each cell gets one outcome, once, and keeps
\* it across kills and restarts under the same file name.
MeasuredOnce == CS!Spec

PlannedCells == UNION {UNION {CellsIn(Plan[w][i].steps) : i \in 1..Len(Plan[w])} : w \in Writer}

\* "A killed job resumes where it stopped": with more launches than faults,
\* every cell asked for ends up in a ledger for good (ledger.py:6-10).
Completes == <>[](PlannedCells \subseteq CellsOn(disk))
=============================================================================
