-------------------------------- MODULE Cells --------------------------------
(***************************************************************************)
(* Cells at work on the shared filesystem: processes go through their      *)
(* plans of bodies (module Bodies), make and stamp working directories,    *)
(* write, read and remove files, and record one row per cell.  A process   *)
(* may be killed at any point and launched again; what it was doing stays  *)
(* half done on disk.                                                      *)
(*                                                                         *)
(* What a read measures depends on what this client holds of the file.     *)
(* That is Lustre's doing, not this repository's; it is modelled from what *)
(* the code and docs/experiments.md (29-37, 181-188, 540-565) say they     *)
(* measured:  "cached": its pages are in client memory;  "locked": no      *)
(* pages, but a lock that keeps the data out of the open reply;  "clean":  *)
(* neither.                                                                *)
(***************************************************************************)
EXTENDS Bodies, FiniteSets

CONSTANTS
  Proc,         \* processes: local runs, jobs or ranks of jobs
  Workload,     \* the plans they may have been given, each [Proc -> Seq(body)]
  PerDir,       \* number of files of a directory
  Faults,       \* the kinds of fault that may happen, each at most once
  MaxLaunches   \* bound on the launches of a process

FaultKind == {"kill", "raise", "escape", "leftover", "redo"}

ASSUME CellsAssumption ==
  /\ Workload # {}
  /\ PerDir \in Nat \ {0}
  /\ Faults \subseteq FaultKind
  /\ MaxLaunches \in Nat

VARIABLES
  plan,      \* the plans of this behaviour
  dirs,      \* the working directories that exist: layout stamp and files, by path
  rows,      \* the rows in the ledgers, by cell
  proc,      \* where a process stands, and what its cell has read so far
  launches,  \* how often a process was launched
  happened   \* the faults so far

vars == <<plan, dirs, rows, proc, launches, happened>>

NoFile == [layout |-> "none", by |-> <<>>, client |-> "clean"]

Idle ==
  [pc |-> "down", at |-> 1, step |-> 1, failed |-> FALSE, few |-> FALSE, seen |-> {},
   aborted |-> FALSE]

\* "done" is exit status 0, "aborted" and "refused" are 1.
Ended == {"down", "done", "aborted", "refused"}

Left(p) == proc[p].at <= Len(plan[p])

Now(p) == plan[p][proc[p].at]

OpNow(p) == Now(p).ops[proc[p].step]

\* The execution of a cell that writes a file, or records a row.
Execution(p) == <<Now(p).cell, launches[p]>>

Paths(b) == {b.dirs[d].path : d \in 1..Len(b.dirs)}

Total(b) == Len(b.dirs) * PerDir

Fault(kind) ==
  /\ kind \in Faults \ happened
  /\ happened' = happened \cup {kind}

-----------------------------------------------------------------------------
(* What operations do to the directories.                                  *)

\* A body's files in the order in which they are written and read.
Place(b, path, i) ==
  (CHOOSE d \in 1..Len(b.dirs) : b.dirs[d].path = path) * PerDir - PerDir + i

\* The first m files of b as `new` has them, every other file as it was.
Changed(b, m, new) ==
  [path \in DOMAIN dirs |->
     [dirs[path] EXCEPT !.files =
        [i \in 1..PerDir |-> IF path \in Paths(b) /\ Place(b, path, i) <= m
                             THEN new[path][i] ELSE @[i]]]]

\* write_files: O_CREAT gives a new file the layout its directory is stamped
\* with, O_TRUNC keeps the layout of a file that is there.  The flush leaves
\* the client without the file's pages.
Written(p, m) ==
  LET LayoutOf(path, i) ==
        LET old == dirs[path].files[i] IN
        IF old = NoFile THEN dirs[path].layout ELSE old.layout
      client == IF Now(p).flush THEN "clean" ELSE "cached"
  IN  Changed(Now(p), m,
        [path \in DOMAIN dirs |-> [i \in 1..PerDir |->
           [layout |-> LayoutOf(path, i), by |-> Execution(p), client |-> client]]])

Touched(p, m, client) ==
  LET Held(file) == IF file = NoFile THEN NoFile ELSE [file EXCEPT !.client = client]
  IN  Changed(Now(p), m,
        [path \in DOMAIN dirs |-> [i \in 1..PerDir |-> Held(dirs[path].files[i])]])

\* A bug Evicted could have, and once had: the files are reopened to be evicted.
EvictedByReopen(p) == Touched(p, Total(Now(p)), "locked")

\* evict: sync, and nothing else.
Evicted(p) == dirs

\* The directories after the first m files have been through the operation:
\* a stat and a reopen (evict_by_flush, fadvise_evict) leave a lock, a read
\* leaves the pages.
After(p, op, m) ==
  CASE op = "write" -> Written(p, m)
    [] op \in {"stat", "reopen"} -> Touched(p, m, "locked")
    [] op \in {"read", "readUntil"} -> Touched(p, m, "cached")
    [] op = "evict" -> Evicted(p)
    [] op \in {"restrict", "query"} -> dirs

Without(paths) == [path \in DOMAIN dirs \ paths |-> dirs[path]]

\* rmtree that stops early, or ignores its errors: the files in `keep` stay.
Keeping(paths, keep) ==
  [path \in DOMAIN dirs |->
     IF path \notin paths THEN dirs[path]
     ELSE [dirs[path] EXCEPT !.files =
             [i \in 1..PerDir |-> IF i \in keep THEN @[i] ELSE NoFile]]]

\* What an rmtree may leave that does not get through.
Removing(paths) == {Keeping(paths, keep) : keep \in SUBSET (1..PerDir)}

Stamped(d, dir) ==
  [path \in DOMAIN d \cup {dir.path} |->
     IF path # dir.path THEN d[path]
     ELSE [layout |-> dir.layout,
           files |-> IF path \in DOMAIN d THEN d[path].files
                     ELSE [i \in 1..PerDir |-> NoFile]]]

\* What a file shows its reader.
Observed(file) ==
  CASE file.client = "cached" -> "warm"
    [] file.client = "clean" /\ file.layout = "dom" -> "inlined"
    [] OTHER -> "cold"

\* What reading the first m files of the body finds.
Found(p, m) ==
  LET b == Now(p)
      reached == {x \in Paths(b) \X (1..PerDir) :
                    Place(b, x[1], x[2]) <= m /\ dirs[x[1]].files[x[2]] # NoFile}
      Sight(x) == LET file == dirs[x[1]].files[x[2]] IN
                  [path |-> x[1], file |-> x[2], by |-> file.by, layout |-> file.layout,
                   observed |-> Observed(file), few |-> proc[p].few]
  IN  {Sight(x) : x \in reached}

-----------------------------------------------------------------------------
Init ==
  /\ plan \in Workload
  /\ dirs = <<>>
  /\ rows = <<>>
  /\ proc = [p \in Proc |-> Idle]
  /\ launches = [p \in Proc |-> 0]
  /\ happened = {}

\* A process starts, again after a kill or just once more.  It shares no cell
\* with another running one, so the rows it finds later are those of its start.
Launch(p) ==
  /\ proc[p].pc \in Ended
  /\ plan[p] # <<>>
  /\ launches[p] < MaxLaunches
  /\ launches' = [launches EXCEPT ![p] = @ + 1]
  /\ proc' = [proc EXCEPT ![p] = [Idle EXCEPT !.pc = "next"]]
  /\ UNCHANGED <<plan, dirs, rows, happened>>

\* A bug Done could have: a failed cell is done again.
DoneWell(c) == c \in DOMAIN rows /\ rows[c].ok /\ InLedger(c)

Done(c) == c \in DOMAIN rows /\ InLedger(c)

\* measured(): a cell that has a row is left out.
Skip(p) ==
  /\ proc[p].pc = "next" /\ Left(p)
  /\ Done(Now(p).cell)
  /\ proc' = [proc EXCEPT ![p].at = @ + 1]
  /\ UNCHANGED <<plan, dirs, rows, launches, happened>>

Begin(p) ==
  /\ proc[p].pc = "next" /\ Left(p)
  /\ ~Done(Now(p).cell)
  /\ proc' = [proc EXCEPT ![p] =
       [@ EXCEPT !.pc = IF Now(p).enters THEN "enter"
                        ELSE IF Now(p).ops # <<>> THEN "run" ELSE "leave",
                 !.step = 1, !.failed = FALSE, !.seen = {}]]
  /\ UNCHANGED <<plan, dirs, rows, launches, happened>>

\* A bug Cleanup could have, and once had: a cell that fails leaves its files.
CleanupUnlessFailed(p, failed) == IF Now(p).leaves /\ ~failed THEN "leave" ELSE "record"

\* The way out of a body: the `with` statement's exit if it has one.
Cleanup(p, failed) == IF Now(p).leaves THEN "leave" ELSE "record"

\* fresh_dir for the body's next directory: remove, make, stamp.
Enter(p) ==
  /\ proc[p].pc = "enter"
  /\ LET dir == Now(p).dirs[proc[p].step] IN
       \/ dirs' = Stamped(Without({dir.path}), dir) /\ UNCHANGED happened
       \/ /\ Fault("leftover")
          /\ \E left \in Removing({dir.path}) : dirs' = Stamped(left, dir)
  /\ proc' = [proc EXCEPT ![p] =
       IF @.step < Len(Now(p).dirs) THEN [@ EXCEPT !.step = proc[p].step + 1]
       ELSE [@ EXCEPT !.pc = "run", !.step = 1]]
  /\ UNCHANGED <<plan, rows, launches>>

\* Operations on files need the directories and, unless they create the files or
\* list what is there, all of the files.
Ready(p) ==
  OpNow(p) \in {"evict", "restrict"} \/
  /\ Paths(Now(p)) \subseteq DOMAIN dirs
  /\ Now(p).enters /\ OpNow(p) # "write" =>
       \A path \in Paths(Now(p)) : \A i \in 1..PerDir : dirs[path].files[i] # NoFile

\* How many files an operation goes through: read_until may stop after a pass.
Reach(p) == IF OpNow(p) = "readUntil" THEN 1..Total(Now(p)) ELSE {Total(Now(p))}

\* A bug OutOfRun could have: the cores are given back at the end of the block
\* only.
OutOfRunKeepingCores(p, failed) ==
  [proc[p] EXCEPT !.pc = Cleanup(p, failed), !.step = Len(Now(p).dirs),
                  !.failed = failed, !.few = failed /\ @]

\* The cores come back with the exit of restricted_to_cores, whatever happened.
OutOfRun(p, failed) ==
  [proc[p] EXCEPT !.pc = Cleanup(p, failed), !.step = Len(Now(p).dirs),
                  !.failed = failed, !.few = FALSE]

\* The next operation of the body.
Work(p) ==
  /\ proc[p].pc = "run"
  /\ Ready(p)
  /\ \E m \in Reach(p) :
       /\ dirs' = After(p, OpNow(p), m)
       /\ LET found == IF OpNow(p) \in {"read", "readUntil"} THEN Found(p, m) ELSE {}
              cores == proc[p].few \/ OpNow(p) = "restrict"
              more == proc[p].step < Len(Now(p).ops)
              next == IF more THEN [proc[p] EXCEPT !.step = @ + 1, !.few = cores]
                              ELSE OutOfRun(p, FALSE)
          IN  proc' = [proc EXCEPT ![p] = [next EXCEPT !.seen = found]]
  /\ UNCHANGED <<plan, rows, launches, happened>>

\* What an operation that does not end may have done by then.
Partly(p) ==
  LET b == Now(p) IN
  CASE proc[p].pc = "enter" ->
         LET path == b.dirs[proc[p].step].path IN
         {Without({path}), Stamped(Without({path}), Dir(path, "default"))}
    [] proc[p].pc = "run" /\ Paths(b) \subseteq DOMAIN dirs ->
         {After(p, OpNow(p), m) : m \in 0..Total(b)}
    [] proc[p].pc = "leave" -> Removing(Paths(b))
    [] OTHER -> {dirs}

\* An operation raises: no space, no layout, an unreadable file, no such
\* directory.  What has been entered is left, and the cell will be recorded as
\* failed; a directory whose fresh_dir failed is not cleaned up.
Raise(p) ==
  /\ proc[p].pc \in {"enter", "run"}
  /\ \/ Fault("raise")
     \/ proc[p].pc = "run" /\ ~Ready(p) /\ UNCHANGED happened
  /\ dirs' \in Partly(p)
  /\ proc' = [proc EXCEPT ![p] =
       IF @.pc = "run" THEN OutOfRun(p, TRUE)
       ELSE [@ EXCEPT !.pc = Cleanup(p, TRUE), !.step = proc[p].step - 1, !.failed = TRUE]]
  /\ UNCHANGED <<plan, rows, launches>>

\* working_dir.__exit__, or the rmtree after the last epoch.
Leave(p) ==
  /\ proc[p].pc = "leave"
  /\ LET entered == IF Now(p).enters THEN proc[p].step ELSE Len(Now(p).dirs)
         gone == {Now(p).dirs[d].path : d \in 1..entered} IN
       \/ dirs' = Without(gone) /\ UNCHANGED happened
       \/ /\ Fault("leftover")
          /\ dirs' \in Removing(gone)
  /\ proc' = [proc EXCEPT ![p].pc = "record"]
  /\ UNCHANGED <<plan, rows, launches>>

\* A bug Recorded could have: the removal after the last epoch has a row too.
RecordedAlways(p) ==
  [c \in DOMAIN rows \cup {Now(p).cell} |->
     IF c # Now(p).cell THEN rows[c]
     ELSE [ok |-> ~proc[p].failed, by |-> Execution(p),
           seen |-> IF proc[p].failed THEN {} ELSE proc[p].seen]]

\* The ledgers with the row of the cell, if the plan's step is one.
Recorded(p) == IF Now(p).cell = NoCell THEN rows ELSE RecordedAlways(p)

\* measured() records the row, failed or not, and the plan goes on.  What is
\* no cell and fails is the start-up check, and main ends with it.
Record(p) ==
  /\ proc[p].pc = "record"
  /\ rows' = Recorded(p)
  /\ proc' = [proc EXCEPT ![p] =
       IF Now(p).cell = NoCell /\ @.failed THEN [@ EXCEPT !.pc = "refused"]
       ELSE [@ EXCEPT !.pc = "next", !.at = proc[p].at + 1]]
  /\ UNCHANGED <<plan, dirs, launches, happened>>

\* A cell's key begins with the name of its experiment; what has none and comes
\* after cells is the removal of their files.
SameExperiment(b, c) == c.cell # NoCell => c.cell[1] = b.cell[1]

\* Where the experiment is over that is at work.
Beyond(p) ==
  {k \in (proc[p].at + 1)..(Len(plan[p]) + 1) :
     /\ \A j \in (proc[p].at + 1)..(k - 1) : SameExperiment(Now(p), plan[p][j])
     /\ k <= Len(plan[p]) => ~SameExperiment(Now(p), plan[p][k])}

\* What is outside the body raises: the code around it in measured(), before its
\* first line or after its last, the append of the row included, or a summary
\* between two cells.  main logs that, counts the experiment as aborted and goes
\* on with the next one; the rest of this one is left out, its removals too.
Escape(p) ==
  /\ proc[p].pc \in {"next", "record"} /\ Left(p)
  /\ Now(p).cell # NoCell /\ InLedger(Now(p).cell)
  /\ Fault("escape")
  /\ rows' \in {rows} \cup IF proc[p].pc = "record" THEN {Recorded(p)} ELSE {}
  /\ \E k \in Beyond(p) :
       proc' = [proc EXCEPT ![p] = [@ EXCEPT !.pc = "next", !.at = k, !.aborted = TRUE]]
  /\ UNCHANGED <<plan, dirs, launches>>

\* The end of main, with its exit status.
End(p) ==
  /\ proc[p].pc = "next" /\ ~Left(p)
  /\ proc' = [proc EXCEPT ![p].pc = IF proc[p].aborted THEN "aborted" ELSE "done"]
  /\ UNCHANGED <<plan, dirs, rows, launches, happened>>

\* The process is gone in the middle of whatever it did.
Kill(p) ==
  /\ proc[p].pc \notin Ended
  /\ Fault("kill")
  /\ dirs' \in {dirs} \cup Partly(p)
              \cup IF proc[p].pc # "enter" THEN {}
                   ELSE Removing({Now(p).dirs[proc[p].step].path})
  /\ proc' = [proc EXCEPT ![p] = Idle]
  /\ UNCHANGED <<plan, rows, launches>>

\* "To redo one, delete its line from the ledger", while nothing runs.
Redo(c) ==
  /\ \A p \in Proc : proc[p].pc \in Ended
  /\ Done(c) /\ ~rows[c].ok
  /\ Fault("redo")
  /\ rows' = [x \in DOMAIN rows \ {c} |-> rows[x]]
  /\ UNCHANGED <<plan, dirs, proc, launches>>

Next ==
  \/ \E p \in Proc :
       \/ Launch(p) \/ Skip(p) \/ Begin(p) \/ Enter(p) \/ Work(p) \/ Raise(p)
       \/ Leave(p) \/ Record(p) \/ Escape(p) \/ End(p) \/ Kill(p)
  \/ \E c \in DOMAIN rows : Redo(c)

Spec == Init /\ [][Next]_vars

-----------------------------------------------------------------------------
(* Properties.                                                             *)

Planned == UNION {{plan[p][i] : i \in 1..Len(plan[p])} : p \in Proc}

HasOp(b, op) == \E i \in 1..Len(b.ops) : b.ops[i] = op

\* The directories another process has in its plan.
Shared(p) == UNION {UNION {Paths(plan[q][i]) : i \in 1..Len(plan[q])} : q \in Proc \ {p}}

GoodRow(b) == b.cell \in DOMAIN rows /\ rows[b.cell].ok

Seen(b) == rows[b.cell].seen

\* Types; in addition, no process leaves its plan, and only cells have rows.
TypeOK ==
  /\ plan \in Workload
  /\ DOMAIN rows \subseteq {b.cell : b \in Planned} \ {NoCell}
  /\ DOMAIN dirs \subseteq UNION {Paths(b) : b \in Planned}
  /\ \A path \in DOMAIN dirs :
       \A i \in 1..PerDir : dirs[path].files[i].client \in {"clean", "locked", "cached"}
  /\ \A p \in Proc :
       /\ proc[p].pc \in {"down", "next", "enter", "run", "leave", "record"} \cup Ended
       /\ proc[p].at \in 1..(Len(plan[p]) + 1)
       /\ proc[p].pc = "enter" => proc[p].step \in 1..Len(Now(p).dirs)
       /\ proc[p].pc = "run" => proc[p].step \in 1..Len(Now(p).ops)
       /\ proc[p].failed \in BOOLEAN /\ proc[p].few \in BOOLEAN
       /\ proc[p].aborted \in BOOLEAN
  /\ launches \in [Proc -> 0..MaxLaunches]
  /\ happened \subseteq Faults

\* A good row was measured on the files its own execution wrote, in the layout
\* its arm asks for, and, unless its reading stops after some time, on all of
\* them: nothing left by an earlier cell or a killed run, nothing of another job
\* whose directory might be the same (fresh_dir, the names of the directories).
OwnFiles ==
  \A b \in Planned : GoodRow(b) /\ HasOp(b, "write") =>
    /\ \A x \in Seen(b) :
         /\ x.by = rows[b.cell].by
         /\ \E d \in 1..Len(b.dirs) : b.dirs[d] = Dir(x.path, x.layout)
    /\ HasOp(b, "read") => Cardinality(Seen(b)) = Total(b)

\* What a flushed cell reads is cold, and inlined where its layout is DoM: the
\* measured read is the first to open a file after its flush, whatever failed
\* or was killed before (write_files, evict).
ColdRead ==
  \A b \in Planned :
    GoodRow(b) /\ b.flush /\ HasOp(b, "write") /\ ~HasOp(b, "reopen") =>
      \A x \in Seen(b) : x.observed = IF x.layout = "dom" THEN "inlined" ELSE "cold"

\* A process that ends with exit status 0 leaves no file behind in a directory
\* it was to remove, unless it shares the directory (the start-up checks of a
\* job's ranks do): also after failed cells and kills, and after a launch that
\* gave up an experiment and with it the removal of its files, unless rmtree
\* itself did not get through (working_dir, the end of repeated_epochs).  One
\* case is left out: a killed cell of two directories whose second attempt fails
\* in the first of them never comes to the second.
NoLeftovers ==
  "leftover" \notin happened =>
    \A p \in Proc : proc[p].pc = "done" =>
      \A k \in 1..Len(plan[p]) :
        /\ plan[p][k].leaves
        /\ Len(plan[p][k].dirs) = 1 \/ ~({"kill", "raise"} \subseteq happened)
        => \A path \in (Paths(plan[p][k]) \cap DOMAIN dirs) \ Shared(p) :
          \A i \in 1..PerDir : dirs[path].files[i] = NoFile

\* The epochs of an arm with good rows read the same files, written by the same
\* epoch 0, whichever launches they ran in, as long as nobody deletes a row
\* (repeated_epochs, whose files outlive a cell).
EpochsAgree ==
  "redo" \notin happened =>
    \A b, c \in Planned :
      /\ GoodRow(b) /\ HasOp(b, "write") /\ ~b.leaves
      /\ GoodRow(c) /\ ~HasOp(c, "write") /\ Paths(b) = Paths(c)
      => {<<x.by, x.path, x.file>> : x \in Seen(b)}
           = {<<x.by, x.path, x.file>> : x \in Seen(c)}

\* A cell reads on few cores if and only if it is about cores, whatever
\* happened to the cells before it (restricted_to_cores).
OwnCores ==
  \A b \in Planned : GoodRow(b) => \A x \in Seen(b) : x.few = HasOp(b, "restrict")

\* "Fail in seconds rather than hours if the environment cannot measure"
\* (runner.py:177): where nothing fails, nobody's start-up check does.  It does
\* not hold for the ranks of a job, which all check in the same directories
\* (_preflight), though "names must carry the run" (docs/experiments.md:137).
NobodyRefused == happened = {} => \A p \in Proc : proc[p].pc # "refused"
=============================================================================
