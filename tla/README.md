# Verification of bottleneck-aware-layout-tuning

TLA+ models of the measurement suite in `layout_tuning/` and `slurm/`: TLC
checks them on small instances, TLAPS proves what matters most for every
instance. Paths below are relative to the repository.

The suite runs for days on a shared cluster. What has to be right is not the
arithmetic of one measurement but the machinery around it: which cells are
measured, when, by whom, together with whom, on which files, and what a results
file holds after kills, requeues and failing writes; then that what is concluded
from the rows is not about rows that are missing. That machinery is what is
modelled. Numbers are left out wherever no property depends on them.

## 1. Inventory

| component | state it keeps | operations | talks to |
|---|---|---|---|
| **Ledger** `layout_tuning/ledger.py` | one results file per writer; the set `finished`, read once at start from all files | open, `done`, `append`, `rows`, `log` | files of all jobs in the scratch directory |
| **Runner** `layout_tuning/runner.py` | the ledger of the process, the list of aborted experiments | `configure`, `measured`, `_warn_on_mixed_hardware`, `_preflight`, `main` | ledger, experiments |
| **Multi-node experiments** `experiments/multinode.py`, `slurm/multi.sbatch` | marker files `barrier_<job>_<nodes>_<arm>_<rank>` | `_rendezvous`, two arms per rank; the batch script's sweep | peers, through the file system |
| **Timed reads** `io.py`: `prewarm`, `read_many`, `read_until`, `ranged_reader`, `write_files` | a thread pool, a barrier, the offset of the next slice | submit, barrier, read pass | Python's executor |
| **Working directories** `layout.py` | directories, their layout stamps and files | `fresh_dir`, `working_dir`, flush, evict | `lfs`, other jobs using the same name |
| **Experiments** `experiments/{dom,stripe,budget}.py` | none but `repeated_epochs`, whose files outlive a cell | sequences of cells and summaries | runner, timed reads |
| **Core restriction** `io.py`: `restricted_to_cores` | the CPU mask of the process | enter, leave | one experiment |
| **Probes** `probes.py` | none | counters, phase timing, percentiles | `/proc` |
| **Lustre queries** `io.py` | none | stripe counts, pools, targets | `lfs` |
| **Campaign scripts** `slurm/run_campaign.sh`, `reset.sh` | the chain of job ids; `archive/` | submit, reset | Slurm, results files |
| **Site probes** `slurm/evict_probe.py`, `dom_probe.sh` | directories they never remove | one table | working directories |
| **Analysis** `analysis/load.py` | none | load | results files |

How they interact: a batch script starts one process per rank. A process opens
its ledger (and reads everybody's), warns about rows of other partitions, and
runs its experiments; each cell goes through `measured`, which skips it or runs
the body and appends one row. A body makes a working directory, writes files,
possibly meets its peers at the rendezvous, and reads through a thread pool.
Jobs share nothing but the scratch directory: results files, working
directories, marker files.

What is hard in it: kills inside a ledger write and requeues under the same job
id; failing writes in a process that lives on; jobs that overlap; ranks that
reach a barrier in different launches, out of step or not at all; the timeout of
a barrier racing the last arrival; worker threads of a pool that start late or
never. `PROJECT.json` lists each at its line under `hazards`.

What makes each component correct:

- Ledger and runner: a cell has at most one row; what a process believes
  finished is readable on disk; no row is lost; the exit status tells the truth;
  resubmitting brings every cell to an outcome.
- Rendezvous: nobody reads while a peer writes; good rows of an arm belong
  together; everyone leaves the barrier in the end.
- Timed reads: the clock starts with all threads up; no file is read twice; the
  cell ends.
- Working directories and experiments: a directory belongs to one cell while it
  is measured; a flushed cell reads cold; the epochs of an arm read the same
  files; nothing is left behind, in the file system or in the CPU mask.
- Summaries and analysis: no arm wins because its rows are missing; medians,
  percentiles and tables are of the good rows.
- Campaign: no two jobs measure at once; every job gets its turn; a reset splits
  no campaign that it could see in the queue.

## 2. Modules

| module | models | state |
|---|---|---|
| `LedgerFile` | the text of one results file: complete rows, torn and glued lines | none (operators on a file) |
| `CellStore` | abstract: each cell gets one outcome, once | `status` |
| `Runner` (extends `LedgerFile`, instantiates `CellStore`) | `ledger.py`, `runner.py`, launches and requeues | `disk`, `pc`, `at`, `finished`, `failures`, `warned`, `exit`, `launches`, `faults` |
| `MCRunner` | small campaigns for TLC | |
| `Rendezvous` | `experiments/multinode.py`, `slurm/multi.sbatch` | `marker`, `row`, `pc`, `arm`, `expired`, `launch`, `faults` |
| `MCRendezvous` | a job under test and a job that starts up beside it | |
| `ReadPool` | `prewarm`, `read_whole`, `read_many`, `read_until`, `ranged_reader` in `io.py` | `reader`, `files`, `size`, `fd`, `main`, `worker`, `task`, `queue`, `submitted`, `barrier`, `offset`, `passes`, `enough`, `raised`, `reads` |
| `Bodies` | the body of every experiment's cells, of the start-up check and of `evict_probe.py` | none (a catalogue of records) |
| `Cells` (extends `Bodies`) | what processes do to directories and files going through such bodies: `layout.py`, `write_files`, `profile_reads`, `restricted_to_cores` | `plan`, `dirs`, `rows`, `proc`, `launches`, `happened` |
| `CellPlans` (extends `Cells`) | what the theorems assume of plans, and what plans the experiments make | |
| `MCCells` | plans of two cells of each experiment, ranks side by side | |
| `Summaries` | `median_by`, the conclusion of `budget.py`, `analysis/load.py`, `distribution` | `rows`, `torn`, `timed` |
| `Campaign` | `slurm/run_campaign.sh`, `slurm/reset.sh`, the queue | `script`, `previous`, `started`, `job`, `after`, `requeues`, `scratch`, `archived`, `reset`, `toMove`, `overtaken` |

| proof module | about | proves |
|---|---|---|
| `RunnerProofs` | `Runner`, any jobs side by side | `TypeCorrect`, `FinishedStaysReadable`, `RowsStay`, `SkipsAreAnnounced`, `ExitTellsTheTruth` |
| `RunnerResumeProofs` | `Runner`, jobs one after another | `NoCellMeasuredTwice`, `LedgersAreAStore` (refinement of `CellStore`) |
| `RendezvousProofs` | `Rendezvous` | `TypeCorrect`, `ReadersWaitForWriters`, `ArmsAreOfOneLaunch`, `WaitersKeepTheirMarker` |
| `ReadPoolProofs` | `ReadPool` | `TypeCorrect`, `ThreadsUpBeforeTheClock`, `EveryPassIsCold`, `NobodyReadsAnotherFile`, `RatesAreOfWholePasses` |
| `CampaignProofs` | `Campaign` | `TypeCorrect`, `JobsTakeTurns`, `ArchiveIsFinal` |
| `CellsProofs` | `Bodies`, `CellPlans`, cores and places in `Cells` | `CoresAreGivenBack`, `ExperimentsPlanWell`, `OnlyStartUpIsShared` |
| `CellsFilesProofs` | files in `Cells` | `TypesOfCells`, `RowsAreOfOwnFiles`, `FlushedFilesAreCold`, `NothingIsLeftBehind`, `EpochsReadTheSameFiles`, `CellsOfExperiments` |
| `SummariesProofs` | `Summaries` | `NearestRankOfAnySample`, `TableOfMeasured`, `MediansAreOfGoodRows`, `MissingArmsNeverWin` |

### LedgerFile and Runner

A file is a sequence of lines and a flag: is the last line ended? A line is a
row (cell, failed flag, partition) or `Garbage`, text `json.loads` refuses. One
`append` is one write of `<row>\n`. If the previous line has no newline, the
text is glued to it, and two JSON texts on a line are not JSON: `Put` turns the
shared line into `Garbage`. A write cut short leaves part of the row, or all of
it but the newline; the latter is a readable row *until* something is appended.

A *writer* is a record of job id, rank, whether its experiments are multi-node,
and partition: exactly what file names and warnings depend on. `FileOf` is
`configure()`'s file name. A writer's process goes through

    down --Open--> open --Warn--> run --Start--> body --Record--> run ... --Finish--> down

`Open` reads the finished cells of every file once. `Warn` covers
`_warn_on_mixed_hardware`, `_report_eviction_mode` and `_preflight`: only the
first touches a ledger; if preflight fails the process ends, which is a `Kill`
in state `open` or `run`. `Skip`, `Start` and `Record` are the three ways
through `measured`, `Record` with a good or a failed row (a body that raises).
`Summary` steps stand for the `rows(...)` and `log(...)` calls between cells.
The faults are actions of their own: `Kill`, `KillAfterAppend`, `KillInAppend`
(the process ends before, after or inside the write), `RecordError` (the append
raises; `tornError` if part of the line is in the file, `writeError` if nothing
or the whole line is), `Escape` (something raises after the body and before the append),
`LogRaises` (the log line after the append raises), `SummaryRaises`. All but the
kills end in `Abort`, `main`'s `except` clause.

Relaunches: `#SBATCH --requeue` restarts a job under its id, and a run outside
Slurm is always `results.jsonl`, so the same writer may be launched again.
`JoinsLaunch` says that srun starts the ranks of one job together.

### Rendezvous

A client is a (job, rank) pair. `Launch` is the batch script: the sweep of the
job's own markers, then all ranks start. Per arm a client skips (a row is
there), or writes, leaves its marker (`Arrive`), and looks for its peers'
markers. A look either finds all (`Pass`) or not (`Miss`); after a miss the
deadline decides between `Sleep` and `TimeOut`, so that "look, then check the
clock, then sleep" keeps its order and a marker that appears between the look
and the clock is seen too late. `Expire` lets time pass at any moment. A row
remembers the launch it is from; that is not in the file, it is there for the
properties to talk about.

The peers' markers are read in one step though the code reads them one by one.
Within a launch markers are only added, so a look that finds all of them would
also have found all of them at its end, and one that misses one may be placed at
the moment it missed it.

### ReadPool

The main thread and the workers are separate processes. Python's executor and
barrier are modelled from how `io.py` uses them: `submit` queues the task and
starts a thread for it (the executor would rather use an idle worker, but it
knows of one only when a worker has finished a task or found the queue empty,
and while the barrier fills neither happens); a worker takes the oldest task;
leaving the `with` statement waits until the workers have emptied the queue and
ended; a broken barrier raises in everyone who waits. Whether the time floor is
reached after a pass is nondeterministic. `reader` says which of the three
readers the cell uses, and `files` and `size` for how many files or bytes; both
are chosen once. The ranges of `ranged_reader` share one descriptor, which
the main thread closes in its `finally` while workers may still be in `pread`:
`fd` is then "closed", and "reused" once the process has gone on and opened
something else.

### Bodies and Cells

A *body* says what a cell is: its key, its directories with their layouts,
whether it makes them (`fresh_dir`) and removes them, whether it flushes, and its
operations in order (`write`, `evict`, `stat`, `restrict`, `read`, ...). `Bodies`
has one operator per experiment, with the parameters of its loops; directory
names are kept with every part they have in the code, since a part too few is
what lets two cells collide (`MdsDirOfRank`).

`Cells` runs such plans in any number of processes:

    down --Launch--> next --Begin--> enter --Enter--> run --Work--> leave --Leave--> record --Record--> next ... done

(`aborted` instead of `done` when `main` ends with exit status 1.)

An operation takes effect as a whole, or, when it raises or the process is
killed in it, on any number of the files it goes through. `Raise` leads through
the `with` statement's exits to a failed row; `Kill` leaves everything as it is.
`Escape` is what raises outside a body, in `measured` around it, in the append of
the row or in a summary between two cells: `main` gives up the rest of the
experiment, the removal at the end of `repeated_epochs` included, and goes on
with the next one (`Beyond`).
`rmtree(ignore_errors=True)` may not get through ("leftover"). A file remembers
the layout it got when it was created (`O_TRUNC` does not change it), the
execution that wrote it, and what the reading client holds of it: its pages
("cached"), a lock ("locked"), or nothing ("clean"). That last part is Lustre's;
it follows what `layout.py:134-156` and `docs/experiments.md:181-188, 540-565`
say was measured. What a read finds goes into the row for the properties to
talk about.

### Summaries

Rows are records with the keys the JSON has: a failed row has `failed` and no
value, a good one the reverse. NaN is a number that is neither less than nor
equal to others in `Less`. `Ascending` is the sorted list of an arm's values, given
by row; medians are doubled to stay whole numbers. `Tear` is a kill inside the
write of a row: the medians skip the line it leaves, `load.py` raises at it and
loads nothing (`Loads`). Percentiles are of samples of distinct values, where
the value at a rank is the rank. The conclusions are looked at in every state,
since a summary sees whatever rows there are.

### Campaign

`run_campaign.sh` is one `Submit` per `submit` call: sbatch takes the job, its
dependency is whatever `previous` holds, and `previous` becomes the new id. A
rejected submission ends the script (`set -e`); the jobs submitted before it stay
queued, although `docs/experiments.md:477-478` says this leaves no half-submitted
campaign behind. Slurm is modelled from how the scripts use it: `Begin` needs the
job named by `--dependency=afterany` to have ended in any way, `Requeue` is
`#SBATCH --requeue`, and a job may be cancelled while queued or running.
`reset.sh` looks at the queue once (`StartReset`), lists the results files, moves
them one by one, and removes the rest; it may be interrupted between any two.
What a job writes is only its results file (`Record`); its rows are `Runner`'s.

Two constants name what a run assumes. `Orderly`: a campaign is started only
when no job is queued or running. Nothing in the scripts enforces this, and
without it two campaigns run side by side. `SqueueFails`: `reset.sh` counts the
lines squeue prints, in a pipeline without `pipefail` and with its errors
discarded (`reset.sh:24`), so a squeue that fails looks like an empty queue; the
run lets it fail at any time. A reset may start while a campaign is being
submitted, and a campaign while a reset is under way. `overtaken` remembers the
campaigns that a reset could not see in either way: jobs of theirs may go on
writing beside an archive that has their earlier rows, and may lose the files
they are working on. `ArchivedIsOver` says that no other campaign is split.

## 3. Runs

| run | instance | checks | result |
|---|---|---|---|
| `runner_resume` | a requeued job and a local run, 3 launches each, 2 faults (kill, escape, summary, failing append), fairness | `TypeOK`, `OneRowPerCell`, `ExitReport`, `MeasuredOnce` (refinement of `CellStore`), `Completes` | pass |
| `runner_overlap` | two ranks of a multi-node job and another job on a second partition, all at once; one kill inside a write | `FinishedReadable`, `KeepsRows`, `SkipWarned` | pass |
| `runner_torn` | one job, one kill inside a write, fairness | `Completes` | **violated** |
| `runner_write_error` | one job, one append that fails half-way | `FinishedReadable` | **violated** |
| `rendezvous` | one job, 3 ranks, 2 arms, 2 launches, 1 fault of any kind, and a second job that starts up beside it, fairness | `TypeOK`, `NobodyReadsEarly`, `RowsOfOneLaunch`, `OwnMarkerStays`, `EveryRankEnds` | pass |
| `rendezvous_late` | one job, 2 ranks, 2 arms, a failing cell | `NobodyReadsAlone` | **violated** |
| `read_pool` | 3 threads; 2, 7, 10 or 32 files by slices, 2 or 7 at once, or one file of 2 or 8 bytes in 3 ranges; at most 3 slices; every fault, fairness | `TypeOK`, `AllWorkersAtStart`, `ReadOnce`, `PassesAddUp`, `NoForeignRead`, `CellEnds` | pass |
| `read_pool_spawn` | the same instance, without the exception `CellEnds` makes for a thread that cannot be started | `CellAlwaysEnds` | **violated** |
| `campaign` | two campaigns of three jobs, three submissions accepted, one preemption, cancellations, resets at any time, a squeue that may fail, fairness | `TypeOK`, `OneAtATime`, `ArchivedIsOver`, `EveryJobEnds` | pass |
| `cells` | 15 plans: two cells of each experiment, three epochs, the probe's arms, the start-up check, two ranks of one job, ranks of a 2-wide and a 3-wide job; 2 files per directory, 2 launches, one fault of each kind (kill, failing operation, escape, removal that does not get through, deleted row) | `TypeOK`, `OwnFiles`, `ColdRead`, `NoLeftovers`, `EpochsAgree`, `OwnCores` | pass |
| `cells_start` | two ranks of one job from their start-up check on, no faults | `NobodyRefused` | **violated** |
| `summaries` | 3 arms, 3 repeats, two values, failed, missing and torn rows, samples of up to 210 files | `MedianOfGoodRows`, `MissingArmNeverWins`, `LoadedAreMeasured`, `NearestRank` | pass |

`OneAtATime` has an exception that the model turned up: a job cancelled *in the
queue* counts as ended for `afterany`, so cancelling one in the middle of the
chain (`reset.sh:29` offers "scancel the specific ids") starts the job behind it
beside the one that is running. The property says that nothing else does.

`CHECK_DEADLOCK FALSE` everywhere: campaigns, jobs and reads end, and a state
with nothing left to do is their normal end.

### Bounds

- `MaxLaunches` and `MaxFaults` bound launches per writer (or job) and faults
  per behaviour. Two faults and three launches let a fault hit the relaunch that
  repairs an earlier one. For `Completes` launches exceed faults, which is what
  the property needs: each fault can spoil one launch.
- Three cells per campaign: one before a summary, one after it, one in a second
  experiment, so that an abort has something to skip and something to go on to.
- `runner_overlap` launches each writer once. With relaunches *and* torn writes
  a relaunch glues its first row to its own torn line (see `runner_torn` and
  section 5 for the exact assumption).
- Three ranks are the least with which two ranks can agree on something the
  third does not; two arms are what the code has.
- `cells`: a second cell of an experiment is what meets what the first one left,
  and a second launch what a kill left. Two files are the least an operation can
  get half-way through. Each kind of fault happens at most once, in any
  combination and order. Ranks of two widths meet in `mds_scaling`, whose jobs
  the campaign runs 2, 4 and 8 wide.
- `summaries`: three repeats give medians of one, two and three values; the
  sample floors are 10, 20 and 100.
- `read_pool`, with slices of at least three files (one per thread) and the
  code's limit of 50 passes made 3: seven files are slices of 3, 3 and 1, so that
  the files run out in a short one; ten files are cut off by the limit with one
  left over; two files are fewer than the threads; 32 take the other branch of
  the slice's size, four files (`len(paths) // 8`). Eight bytes do not divide by
  three (ranges of 2, 2 and 4), and two are fewer than the threads (0, 0 and 2).
  In each case the time floor may end the reading earlier.
- Three jobs are the shortest chain with a middle one, which cancellation needs.
  Three accepted submissions allow one whole campaign, or one cut short by a
  rejection and the start of another; `requeues` is counted only to
  bound the behaviour.

### Fairness

`Runner`: a process that is up keeps running (`WF` of `Run`), and a job that
ended is submitted again while launches are left (`WF` of `Open`), which is the
premise of "re-submitting the same job continues" (`ledger.py:9`). No fault is
fair. `Rendezvous`: processes keep running and time passes (`WF` of `Step` and
`Expire`); nobody has to launch a job. `ReadPool`: threads keep running; time
outs are possible, never forced. `Campaign`: Slurm starts a job that may start,
and no job runs for ever, since each has a time limit (`single.sbatch:10`); the
user's scripts may stop anywhere. `Cells` and `Summaries` state no liveness.

## 4. Findings

Five runs state what a comment or document promises and show the code doing
something else; each is listed under `findings`.

1. **A torn line stops every later job** (`runner_torn`). `Ledger.__init__`
   skips lines that do not parse, `rows()` raises on them, and under Slurm
   `main` calls `rows()` before its loop, outside any `try`.
2. **A row can be glued to a torn one** (`runner_write_error`). `append` never
   ends an unfinished last line. After an append that failed half-way, the next
   one of the same process is lost with it while `finished` says it is there.
3. **A late rank passes the barrier alone** (`rendezvous_late`). A rank that
   gave up leaves its marker. One whose peer is a whole timeout behind it finds
   all markers and records a good row for a read nobody shared.
4. **A thread that cannot be started hangs the cell** (`read_pool_spawn`). The
   timeout is only on the main thread's wait; `submit` raising keeps it from
   getting there, and the workers' waits have none.
5. **Ranks remove each other's start-up check** (`cells_start`). `_preflight`
   works in two directories whose names carry neither job nor rank, and srun
   starts the ranks together. One rank's `fresh_dir` or clean-up removes the
   files another is about to look at; that rank's process ends, and its peers
   wait out the barrier's ten minutes, arm after arm.

What the models show besides, without a run of its own:

- *Unflushed cells read warm.* `stripe.py`, `budget.py` and `neighbour_cost` write
  with `flush=False`, and `evict` does nothing to files, so their reads find the
  pages this client still has. The start-up message says that "every file is
  written, flushed and then read once" (`runner.py:165`), and `stripe.py:27-29`
  that the cache is dropped before every pass. In `Cells` every such read is
  "warm" as long as the pages fit in memory; `ColdRead` is about flushed cells.
- *`sorted()` and NaN* (`stripe.py:311`). A pool without good rows has the rate
  NaN, around which a sort leaves things as they are. Of two pools the one listed
  second is then called the faster, measured or not; of three with rates 3, NaN
  and 1 the slowest. The comment above says that which pool is faster is
  "measured, not assumed from the order `lfs pool_list` happens to return"
  (`stripe.py:306-309`); `budget.py:69-80` guards the same case. This is read from
  the code, no model shows it.
- *A reset looks once* (`reset.sh:24`). "It refuses to run while any job is queued,
  which is what makes that safe" (`docs/experiments.md:258-259`), but the look is
  before the moves and removals, and a squeue that fails counts as an empty queue.
  `ArchivedIsOver` does not hold of the campaigns in `overtaken`.
- *An experiment that is given up leaves its epochs' files.* The comment in
  `repeated_epochs` says that the clean-up "runs even if an epoch failed"
  (`dom.py:177-179`). It does when the body raises, but not when `measured` itself
  does (`runner.py:72-76, 81-102`, the appends included): then the rest of the
  function is skipped with it, and 6000 files stay until somebody runs the
  experiment again, which skips the cells and comes to the `rmtree`, or resets.
  The exit status is 1, which is what `NoLeftovers` goes by.
- *Redoing a failed epoch 0.* A failed epoch 0 leaves a part of its files, and the
  later epochs record good rows of that part. Deleting the failed row, as
  `docs/experiments.md:154-155` suggests, gives epoch 0 another set of files than
  theirs (`EpochsAgree` leaves deleted rows out); deleting the row of a later
  epoch makes it fail, since the directory is gone.
- *A killed `mixed_classes` cell* whose second attempt fails while it makes its
  first directory never comes to remove the second one (`NoLeftovers` leaves this
  out). `evict_probe.py` removes none of its directories.
- *A `neighbour_cost` key has no node count* (`multinode.py:73`): a wider job after
  the two-wide one skips the cells of its ranks 0 and 1.

## 5. Proofs

Each theorem holds for every value of the constants that satisfies the module's
assumption (`RunnerAssumption`, `GarbageIsNoRow`, `RendezvousAssumption`,
`ReadPoolAssumption`, `CampaignAssumption`, `CellsAssumption`,
`SummariesAssumption`: the constants' types; TLC evaluates them in every run).
What a theorem assumes beyond that is named in its `ASSUME` and given here.
Where a property is not inductive, the module's `IInv` (or `ResumeInv`,
`CoresInv`) is the conjunction that is, one lemma per conjunct and one step per
action.

**Types of Runner** (`RunnerProofs`). `TypeCorrect` needs no assumption. The last
two conjuncts of `TypeOK` (no writer runs past its plan; a body is always that of a
cell) make it inductive. The lemmas on `Put` say what an append does to a file.

**Ledgers of concurrent jobs** (`RunnerProofs`), under `WholeWrites`:
every append starts on a line of its own. That is, no append is cut short in a
process that lives on, and either no kill tears a write, or every writer has a
file of its own and is launched once. Appends that fail and leave nothing or the
whole line are allowed. The assumption is needed: dropping its first part is
`runner_write_error`; dropping the second, two writers on one file is the mutant
of `KeepsRows`, and a relaunch after a torn write loses the row whose newline is
missing. `IInv` adds `AppendsStartLines` (the file of a writer that is up, or may
come up again, ends with a newline) and `UpWasLaunched`, which together exclude
that a torn file meets another append. Every action but four leaves disk and
beliefs alone (`QuietStep`); three append one whole row (`RowStep`);
`KillInAppend` tears a line of a writer that never comes back.
`FinishedStaysReadable` and `RowsStay` follow. `SkipsAreAnnounced` adds
`Warned`: past its warnings, a process has a row from here, or a warning, for
every cell it holds finished. `ExitTellsTheTruth` adds `Accounted`: what lies
behind a process in its plan is finished or on its list of aborted experiments.

**Resuming** (`RunnerResumeProofs`), under `OneByOne` (jobs do not overlap, ranks
of one job share no cell) and `PlansDistinct` (no plan names a cell twice).
`NoCellMeasuredTwice` allows every fault, torn writes included: a torn row may
be lost, it is never doubled. Its invariant says that a cell ahead of a writer
either has no row or is finished in its eyes (`NothingAheadTwice`), and that a
body runs only for a cell not finished (`BodyUnfinished`). With `WholeWrites`,
`LedgersAreAStore` shows the refinement of `CellStore`: an append is its
`Measure`, every other step a stutter.

**Rendezvous.** No assumption: any jobs, ranks, arms, launches, faults. The
three properties are inductive together with: markers belong to ranks that have
arrived (`MarkersAreOfArrived`) and to this launch or to an arm without a row
(`MarkersAreOfThisLaunch`), a busy rank has no row for its arm
(`BusyWithoutRow`), and the peers of a reading rank have no row of an earlier
launch for the arm (`ReadersShareALaunch`). The sweep before the launch is what
makes the second one true.

**Timed reads.** No assumption. `Pace` ties the offset to the passes, `Started`
and `GoneWhenDone` the threads to the main thread's place. The parts
(`EachOnce`, `OnlyHandedOut`, `Kept`, `Idle`) are followed from queue to worker
to count: one is always in one place. `Ending` says how the loop ends.
`RangesPartition` shows that the ranges of any size by any number of threads
hold every byte once, the ranges of a file smaller than the threads included.

**Campaign.** The chain (`Chained`, `InTurn`) makes jobs take turns; `JobsTakeTurns`
assumes `Orderly` for it, without which two chains run side by side. The other two
theorems assume nothing. `Turns` says that whatever is queued, or still to be
submitted, while a reset is under way belongs to a campaign in `overtaken`, and
`Results` that archived ledgers are of campaigns that are over or in `overtaken`;
an archived job that is not excepted therefore has nobody left to write beside it,
now or later.

**Plans of cells.** What is proved of `Cells` is for plans of any length in any
number of processes, of which `CellPlans` says what they need: bodies make what
they write, write first and read last (`Shaped`); no cell is planned twice
(`KeysApart`); bodies that have a directory in common have all in common
(`DirsApart`); epochs come after their epoch 0, and the removal after them, and
what is done in their directory after epoch 0 is done by the same experiment in
one go, so that giving up the experiment gives up all of it (`EpochsInOrder`,
`RemovedLater`). All of these but `KeysApart` are themselves proved, not assumed,
of the experiments: `FromExperiments` says that every step of a plan is one of
`Bodies`, with any parameters; that `repeated_epochs` is planned in whole loops of
any length; and that what one client measures alone is in the plan of one process,
as the campaign's chain has it. `ExperimentsPlanWell` derives the rest, by giving
the layout of a directory as a function of its name. Its hypotheses are satisfied
by the epochs of an arm, any number of them (`EpochsAreExperiments`), and
`MCCells` lets TLC evaluate the conditions on its plans, all but `DirsApart`,
whose failure is what the mutant of `OwnFiles` is about (`MdsDirOfRank`).
`KeysApart` leaves out what section 4 says of `neighbour_cost`, whose key has no
node count: two jobs of different width are then the same cell twice.
`OnlyStartUpIsShared` says that nothing but the start-up check can collide, which
is what `cells_start` shows it does.

**Cores.** `CoresInv` follows each process through its operations to what its row
will say. `CatalogueIsWellMade` and `OtherStepsAreWellMade` show that every body of
`Bodies` gives up cores before it reads.

**Files of cells**, under `PlannedWell`. `TypeOK` and `OwnFiles` are not
inductive: `FilesInv` adds `Places` (where a process can stand in its plan, what
it may have seen, and that all files on disk are where somebody's plan has a
directory), `Stock` (from its write on, a process has all of its files on disk,
written by itself and under the layout it asked for, and clean until its last
operation if they were flushed), `Layouts` (a file that an earlier launch left has
the layout the directory will be stamped with again, so that `O_TRUNC` keeps the
right one) and `SeenByNow` (what was read so far is of these files). `Private`
directories are what the argument is about: those of a cell, that no other process
works in (`CellsArePrivate`). A process that is past a cell has a row for it, or
is past the end of its experiment too, which may have been given up (`GivenUp`, in
`Places`). One lemma says what each operation does to a directory, on all files or
on the first few (`AfterOnDisk`, `PartlyOnDisk`), and one that a step of another
process does nothing to it (`FilesOfOthers`). Each execution of a cell is told
apart by its launch, so that no file of an earlier one passes for its own.

**Nothing left behind**, under `RemovedLater` besides. The start-up checks of a
job's ranks share their directories, so the property, and `TidyInv`, are about
directories that nobody else has in its plan; those of cells are such
(`CellsArePrivate`). `TidyInv` says that a directory which some step of the plan
removes is empty or *pending*: a step of its process that has no row yet and
removes it is ahead or under way, also after a kill, when the plan starts again,
or it was passed over with an experiment that was given up, and then the process
will end with exit status 1. A body on its way out has emptied the directories it
is past. Only a body of several directories can end with one of them untouched,
when it was killed and fails the second time (`Excused`); without a kill it
cannot, since each of its directories is empty unless the body is inside it
(`Inside`).

**Epochs**, under `EpochsInOrder`. `EpochInv` has, for each epoch 0 and each later
one that reads its files: the later one has no row before the first has; when the
first has a good one, its files are all there, as it wrote them, until the later
one has a row (`AreIn`), and what the later one has seen, at its end and in its
row, is all of them and of that execution (`OfAllFiles`). That nothing writes
there again needs that nobody deletes a row. `CellsOfExperiments` puts all of it
together under `FromExperiments` and `KeysApart` alone.

**Summaries.** No assumption. The percentile theorem rests on `RankRoundsUp` and
`TailIsSupported` (a tail percentile is looked up only where the sample holds
enough above it). `TableOfMeasured` is of files without a torn line. It and the
others rest on `RowsInv`: finitely many rows, each with a value or the flag, never both.
`OrderOf` shows that the values of any number of rows can be sorted, by mapping
each row to the number of rows before it; `MedianHalves` that half of them lie on
either side of the middle. For `MissingArmNeverWins`, `Passes` is the winner of
`min()` after each arm, which `PassesExist` and `PassesKeepTheLeast` build and
follow. These two inductions are made without the library's induction theorems,
which the provers cannot instantiate: `LeastOf` says that a set of numbers has a
least element, and the set is that of the numbers for which the claim fails.

Only model-checked: liveness. `Completes`, `EveryRankEnds`, `CellEnds` and
`EveryJobEnds` need fairness and `ENABLED`, which the prover does not handle. Every
invariant and every safety property of a step that a passing run checks is also
the subject of a theorem, and so is the refinement.

## 6. Abstractions

- A row appears to readers as a whole: readers see a file before or after one
  write, or as a torn write left it. `open(...)` in the middle of another job's
  write is not modelled apart from that.
- The ranks of a job are launched together and a job's launches do not overlap.
- Single-node jobs have one process (`--ntasks=1` in `single.sbatch`).
- Cells, job ids, partitions, outcomes are members of small sets; error texts,
  timings and log lines are left out.
- In `Cells` an operation on a directory happens at once or, when it fails,
  after some of its files. Numbers and sizes of files are abstracted to
  `PerDir` files; that memory or the DoM region of a target may be full is left
  out. The barrier between the ranks is `Rendezvous`, not part of `Cells`, so
  that ranks interleave there in more ways than they can.
- Two jobs of one width share directory names (`layout.py:34`). The campaign
  chains its jobs, so that two of them at once are not modelled; ranks of jobs
  of different width are.
- A sample's percentiles are of distinct values.

## 7. Plan

Everything the plan listed is done: ledger and runner, rendezvous, timed reads
with ranges, campaign scripts, working directories under every experiment's
cells, summaries and analysis, and the safety proofs of section 5.

What could follow: `Rendezvous` composed with `Cells`, so that ranks interleave
only as the barrier lets them; the steps that the liveness arguments rest on
(what decreases with each step of a process that is up), proved as properties of
single steps; `sorted()` with NaN rates, for which Python's order of comparisons
would have to be modelled.

Not modelled, and why:

- the text of `lfs` queries (stripe counts, pools, targets, MDT fill) and the
  parsing of it: stateless, and what it should yield is Lustre's to say. Three
  bodies of `dom.py` ask for a file's DoM component between its flush and the
  measured read (`dom.py:48, 110, 140`); that `lfs getstripe` leaves no lock on it
  that the read would notice is assumed, not modelled;
- which pool the summary of `pool_selection` calls the faster (section 4);
- counters, lock counts, the timing of phases (`probes.py`) and
  `phase_breakdown`: numbers read from `/proc` that no other step depends on;
- `flush_cost`'s break-even, the spread of pipelined reads and the lines on
  gains: arithmetic on medians, printed and not stored;
- `drop_client_locks` and the version check, called for their answers, which
  only a start-up message uses;
- the question about superseded rows in `run_campaign.sh`: one grep, and one
  answer by the user;
- the shell site probes: sequences of commands printed for a reader.
