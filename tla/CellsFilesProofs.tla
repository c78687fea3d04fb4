--------------------------- MODULE CellsFilesProofs ---------------------------
(***************************************************************************)
(* What cells find on disk and leave there, for plans of any length in any *)
(* number of processes: a good row is of the cell's own files, flushed     *)
(* files are cold, epochs agree, and nothing is left behind.               *)
(***************************************************************************)
EXTENDS CellsProofs, FunctionTheorems

-----------------------------------------------------------------------------
(* The files of a cell.                                                    *)

\* The files of the body are all there, from its write on.
Filled(p) ==
  /\ Now(p).enters
  /\ \/ proc[p].pc = "run" /\ proc[p].step > 1
     \/ proc[p].pc = "record" /\ ~proc[p].failed /\ ~Now(p).leaves

\* What a process at work has on disk, for one of its directories.
Stocked(p, dir) ==
  /\ \/ proc[p].pc = "enter" /\ \E d \in 1..Len(Now(p).dirs) : d < proc[p].step /\ Now(p).dirs[d] = dir
     \/ proc[p].pc = "run" /\ Now(p).enters
     => dir.path \in DOMAIN dirs /\ dirs[dir.path].layout = dir.layout
  /\ Filled(p) =>
       /\ dir.path \in DOMAIN dirs
       /\ \A i \in 1..PerDir :
            LET file == dirs[dir.path].files[i] IN
            /\ file # NoFile /\ file.by = Execution(p) /\ file.layout = dir.layout
            /\ proc[p].pc = "run" /\ Now(p).flush /\ ~HasOp(Now(p), "reopen")
                 => file.client = "clean"

Stock(p) ==
  proc[p].pc \in AtWork =>
    \A d \in 1..Len(Now(p).dirs) :
      Now(p).dirs[d].path \in Private(p) => Stocked(p, Now(p).dirs[d])

\* A file has the layout that the plan has for its directory.
Layouts(p) ==
  \A k \in 1..Len(plan[p]) : \A d \in 1..Len(plan[p][k].dirs) :
    LET dir == plan[p][k].dirs[d] IN
    dir.path \in Private(p) \cap DOMAIN dirs =>
      \A i \in 1..PerDir :
        dirs[dir.path].files[i] = NoFile \/ dirs[dir.path].files[i].layout = dir.layout

\* What was seen is of the files that the execution `by` of body b wrote, and as
\* cold as the flush left them.
OfOwnFiles(b, seen, by) ==
  /\ \A x \in seen :
       /\ x.by = by /\ x.path \in Paths(b) /\ x.file \in 1..PerDir
       /\ \E d \in 1..Len(b.dirs) : b.dirs[d] = Dir(x.path, x.layout)
       /\ b.flush /\ ~HasOp(b, "reopen") =>
            x.observed = IF x.layout = "dom" THEN "inlined" ELSE "cold"
  /\ HasOp(b, "read") =>
       /\ Cardinality(seen) = Total(b)
       /\ \A path \in Paths(b) : \A i \in 1..PerDir : \E x \in seen : x.path = path /\ x.file = i

SeenByNow(p) ==
  proc[p].pc \in {"leave", "record"} /\ ~proc[p].failed /\ Now(p).enters /\ Now(p).cell # NoCell =>
    OfOwnFiles(Now(p), proc[p].seen, Execution(p))

RowsOfOwnFiles ==
  \A b \in Planned : GoodRow(b) /\ HasOp(b, "write") => OfOwnFiles(b, Seen(b), rows[b.cell].by)

FilesInv ==
  /\ CoresInv /\ Places
  /\ \A p \in Proc : Stock(p) /\ Layouts(p) /\ SeenByNow(p)
  /\ RowsOfOwnFiles

-----------------------------------------------------------------------------
(* What is left behind.                                                    *)

Empty(path) == path \in DOMAIN dirs => \A i \in 1..PerDir : dirs[path].files[i] = NoFile

\* The process has a body before it that will remove the directory, or will have
\* it in its next launch.
Pending(p, path) ==
  \E j \in 1..Len(plan[p]) :
    /\ path \in Paths(plan[p][j]) /\ plan[p][j].leaves /\ ~Done(plan[p][j].cell)
    /\ \/ proc[p].pc \in {"down", "refused"}
       \/ proc[p].aborted /\ j < proc[p].at
       \/ j > proc[p].at
       \/ j = proc[p].at /\ proc[p].pc # "record"

\* The exception: a body of several directories that fails after it was killed.
Excused(b) == Len(b.dirs) > 1 /\ {"kill", "raise"} \subseteq happened

\* The body has come to its d-th directory, and not yet removed it.
Inside(p, b, d) ==
  /\ proc[p].pc \in {"enter", "run", "leave"}
  /\ Now(p).dirs = b.dirs
  /\ \/ proc[p].pc = "run"
     \/ proc[p].pc = "enter" /\ d < proc[p].step
     \/ proc[p].pc = "leave" /\ d <= proc[p].step

\* All of it is about directories that nobody else works in.
Tidy(p) ==
  /\ "leftover" \notin happened =>
       /\ \A k \in 1..Len(plan[p]) : plan[p][k].leaves =>
            \A path \in Paths(plan[p][k]) \cap Private(p) :
              Empty(path) \/ Pending(p, path) \/ Excused(plan[p][k])
       /\ proc[p].pc = "leave" /\ Now(p).enters =>
            \A d \in 1..Len(Now(p).dirs) :
              d > proc[p].step /\ Now(p).dirs[d].path \in Private(p) =>
                Empty(Now(p).dirs[d].path) \/ Excused(Now(p))
  /\ {"leftover", "kill"} \cap happened = {} =>
       \A k \in 1..Len(plan[p]) : Len(plan[p][k].dirs) > 1 =>
         \A d \in 1..Len(plan[p][k].dirs) :
           plan[p][k].dirs[d].path \in Private(p) =>
             Empty(plan[p][k].dirs[d].path) \/ Inside(p, plan[p][k], d)

TidyInv == CoresInv /\ Places /\ \A p \in Proc : Tidy(p)

-----------------------------------------------------------------------------
(* Epochs.                                                                 *)

\* The seen files are all files of body b, written by the execution `by`.
OfAllFiles(b, seen, by) ==
  /\ \A x \in seen : x.by = by /\ x.path \in Paths(b) /\ x.file \in 1..PerDir
  /\ \A path \in Paths(b) : \A i \in 1..PerDir : \E x \in seen : x.path = path /\ x.file = i

\* All files of body b are in the directories d, written by the execution `by`.
AreIn(d, b, by) ==
  \A path \in Paths(b) :
    /\ path \in DOMAIN d
    /\ \A i \in 1..PerDir : d[path].files[i] # NoFile /\ d[path].files[i].by = by

\* The later epoch finds and has seen what the first has written.
EpochOf(p, i, k) ==
  LET first == plan[p][i]
      later == plan[p][k]
  IN  /\ later.cell \in DOMAIN rows => first.cell \in DOMAIN rows
      /\ GoodRow(first) =>
           /\ later.cell \notin DOMAIN rows => AreIn(dirs, first, rows[first.cell].by)
           /\ proc[p].at = k /\ proc[p].pc \in {"leave", "record"} /\ ~proc[p].failed =>
                OfAllFiles(later, proc[p].seen, rows[first.cell].by)
           /\ GoodRow(later) => OfAllFiles(later, Seen(later), rows[first.cell].by)

EpochInv ==
  /\ FilesInv
  /\ "redo" \notin happened =>
       \A p \in Proc : \A i, k \in 1..Len(plan[p]) : Follows(plan, p, i, k) => EpochOf(p, i, k)

-----------------------------------------------------------------------------
(* Files are kept.                                                         *)

\* What a process has of its own, nobody else touches.
LEMMA OwnIsLeftAlone ==
  ASSUME PlannedWell, CoresInv, NEW p \in Proc, NEW q \in Proc, q # p,
         OnDisk(p, dirs'), NEW path \in Private(q)
  PROVE  SameDir(dirs', path)
<1>1. ~WorksIn(p, path)
  BY AtNow, OthersWorkElsewhere DEF WorksIn
<1> QED
  BY <1>1 DEF OnDisk

LEMMA SamePlan ==
  ASSUME plan' = plan
  PROVE  /\ Planned' = Planned
         /\ \A p \in Proc : PathsOf(p)' = PathsOf(p) /\ Private(p)' = Private(p)
<1>1. \A p \in Proc : PathsOf(p)' = PathsOf(p)
  BY DEF PathsOf, Paths
<1> QED
  BY <1>1 DEF Private, Planned

\* Nothing changes for a process whose own directories are as they were.
LEMMA FilesOfOthers ==
  ASSUME NEW q \in Proc, plan' = plan, proc'[q] = proc[q], launches'[q] = launches[q],
         \A path \in Private(q) : SameDir(dirs', path),
         Stock(q), Layouts(q), SeenByNow(q)
  PROVE  Stock(q)' /\ Layouts(q)' /\ SeenByNow(q)'
<1>1. Now(q)' = Now(q) /\ Execution(q)' = Execution(q) /\ Private(q)' = Private(q)
  BY SameNow, SamePlan DEF Execution
<1>2. ASSUME NEW dir, dir.path \in Private(q), Stocked(q, dir)
      PROVE  Stocked(q, dir)'
  <2>1. SameDir(dirs', dir.path)
    BY <1>2
  <2>2. Filled(q)' <=> Filled(q)
    BY <1>1 DEF Filled
  <2>3. HasOp(Now(q), "reopen")' <=> HasOp(Now(q), "reopen")
    BY <1>1 DEF HasOp
  <2> QED
    BY <1>1, <1>2, <2>1, <2>2, <2>3 DEF Stocked, SameDir
<1>3. Stock(q)'
  BY <1>1, <1>2 DEF Stock
<1>4. Layouts(q)'
  <2> SUFFICES ASSUME NEW k \in 1..Len(plan[q]), NEW d \in 1..Len(plan[q][k].dirs),
                      plan[q][k].dirs[d].path \in Private(q) \cap DOMAIN dirs',
                      NEW i \in 1..PerDir
               PROVE  \/ dirs'[plan[q][k].dirs[d].path].files[i] = NoFile
                      \/ dirs'[plan[q][k].dirs[d].path].files[i].layout = plan[q][k].dirs[d].layout
    BY <1>1 DEF Layouts
  <2> DEFINE path == plan[q][k].dirs[d].path
  <2>1. path \in DOMAIN dirs /\ dirs'[path].files[i] = dirs[path].files[i]
    BY DEF SameDir
  <2>2. dirs[path].files[i] = NoFile \/ dirs[path].files[i].layout = plan[q][k].dirs[d].layout
    BY <2>1 DEF Layouts
  <2> QED
    BY <2>1, <2>2
<1>5. SeenByNow(q)'
  BY <1>1 DEF SeenByNow, OfOwnFiles, HasOp
<1> QED
  BY <1>3, <1>4, <1>5

\* Two bodies of a process that share a directory, share all.
LEMMA SamePlace ==
  ASSUME PlannedWell, CoresInv, NEW p \in Proc, proc[p].pc \in AtWork,
         NEW path \in Paths(Now(p)), NEW k \in 1..Len(plan[p]), path \in Paths(plan[p][k])
  PROVE  Now(p).dirs = plan[p][k].dirs
<1>1. proc[p].at \in 1..Len(plan[p]) /\ Now(p) = plan[p][proc[p].at]
  BY AtNow
<1>2. path \in Paths(plan[p][proc[p].at])
  BY <1>1
<1>3. plan[p][proc[p].at].dirs = plan[p][k].dirs
  BY <1>1, <1>2, OnePlace
<1> QED
  BY <1>1, <1>3

\* Who makes directories starts with a write, and writes only then.
LEMMA WriteIsFirst ==
  ASSUME PlannedWell, CoresInv, NEW p \in Proc, proc[p].pc = "run"
  PROVE  OpNow(p) = "write" <=> Now(p).enters /\ proc[p].step = 1
<1>1. WellShaped(Now(p)) /\ proc[p].step \in 1..Len(Now(p).ops)
  BY AtNow, OpIsOp DEF AtWork
<1>2. /\ Now(p).enters <=> HasOp(Now(p), "write")
      /\ \A i \in 1..Len(Now(p).ops) : Now(p).ops[i] = "write" => i = 1
  BY <1>1 DEF WellShaped
<1>3. OpNow(p) = "write" => HasOp(Now(p), "write") /\ proc[p].step = 1
  BY <1>1, <1>2 DEF OpNow, HasOp
<1>4. HasOp(Now(p), "write") => Now(p).ops[1] = "write"
  BY <1>2 DEF HasOp
<1> QED
  BY <1>2, <1>3, <1>4 DEF OpNow

\* A file has the layout its directory was planned with, or the one it had.
LEMMA LayoutsAreKept ==
  ASSUME PlannedWell, CoresInv, NEW p \in Proc, plan' = plan, OnDisk(p, dirs'),
         Stock(p), Layouts(p)
  PROVE  Layouts(p)'
<1> SUFFICES ASSUME NEW k \in 1..Len(plan[p]), NEW d \in 1..Len(plan[p][k].dirs),
                    NEW i \in 1..PerDir
             PROVE  LET dir == plan[p][k].dirs[d] IN
                    dir.path \in Private(p) \cap DOMAIN dirs' =>
                      \/ dirs'[dir.path].files[i] = NoFile
                      \/ dirs'[dir.path].files[i].layout = dir.layout
  <2>1. Private(p)' = Private(p)
    BY SamePlan
  <2> QED
    BY <2>1 DEF Layouts
<1> DEFINE dir == plan[p][k].dirs[d]
           new == dirs'[dir.path].files[i]
           old == dirs[dir.path].files[i]
<1> SUFFICES ASSUME dir.path \in Private(p), dir.path \in DOMAIN dirs', new # NoFile
             PROVE  new.layout = dir.layout
  OBVIOUS
<1>1. dir.path \in DOMAIN dirs => old = NoFile \/ old.layout = dir.layout
  BY DEF Layouts
<1>2. CASE NoNewFiles(dirs', dir.path)
  <2>1. dir.path \in DOMAIN dirs /\ old # NoFile /\ new.layout = old.layout
    BY <1>2 DEF NoNewFiles, SameFile
  <2> QED
    BY <1>1, <2>1
<1>3. CASE SameDir(dirs', dir.path)
  BY <1>1, <1>3 DEF SameDir
<1>4. CASE /\ proc[p].pc = "run" /\ OpNow(p) = "write" /\ WorksIn(p, dir.path)
           /\ OwnOrOld(p, dirs', dir.path)
  <2>1. /\ dir.path \in DOMAIN dirs
        /\ \/ (new = NoFile <=> old = NoFile) /\ new.layout = old.layout
           \/ new.layout = IF old = NoFile THEN dirs[dir.path].layout ELSE old.layout
    BY <1>4 DEF OwnOrOld, SameFile
  <2>2. Now(p).enters /\ Now(p).dirs = plan[p][k].dirs
    <3>1. proc[p].at \in 1..Len(plan[p]) /\ Now(p) = plan[p][proc[p].at]
      BY <1>4, AtNow DEF AtWork
    <3>2. dir.path \in Paths(plan[p][proc[p].at])
      BY <1>4, <3>1 DEF WorksIn
    <3>3. dir.path \in Paths(plan[p][k])
      BY DEF Paths
    <3> HIDE DEF dir
    <3>4. plan[p][proc[p].at].dirs = plan[p][k].dirs
      BY <3>1, <3>2, <3>3, OnePlace
    <3> QED
      BY <1>4, <3>1, <3>4, WriteIsFirst
  <2>3. Stocked(p, dir)
    BY <1>4, <2>2 DEF Stock, AtWork
  <2>4. dirs[dir.path].layout = dir.layout
    BY <1>4, <2>2, <2>3 DEF Stocked
  <2> QED
    BY <1>1, <2>1, <2>4
<1> QED
  BY <1>2, <1>3, <1>4 DEF OnDisk

\* The d-th directory has just been made, and the earlier ones are as they were.
LEMMA StockAfterEnter ==
  ASSUME CellsAssumption, PlannedWell, CoresInv, Places, NEW p \in Proc, Enter(p), plan' = plan,
         Stock(p)
  PROVE  Stock(p)'
<1> DEFINE b == Now(p)
           here == Now(p).dirs[proc[p].step]
<1>1. /\ proc[p].pc = "enter" /\ Now(p)' = b /\ Private(p)' = Private(p)
      /\ WellShaped(b) /\ proc[p].step \in 1..Len(b.dirs)
  BY EnterDoes, SameNow, SamePlan, AtNow DEF Places, Placed, AtWork
<1>2. /\ Len(b.dirs) \in Nat
      /\ \A d, e \in 1..Len(b.dirs) : b.dirs[d].path = b.dirs[e].path => d = e
  BY <1>1 DEF WellShaped, NamesApart
<1>3. /\ here.path \in DOMAIN dirs' /\ dirs'[here.path].layout = here.layout
      /\ \A path \in DOMAIN dirs : path # here.path =>
           path \in DOMAIN dirs' /\ dirs'[path].layout = dirs[path].layout
  <2>0. Typed(dirs)
    BY DEF Places
  <2>1. PICK left : /\ left = Without({here.path}) \/ left \in Removing({here.path})
                    /\ dirs' = Stamped(left, here)
    BY EnterDoes
  <2>2. /\ Typed(left)
        /\ \A path \in DOMAIN dirs : path # here.path =>
             path \in DOMAIN left /\ left[path].layout = dirs[path].layout
    <3>1. CASE left = Without({here.path})
      BY <2>0, <3>1, WithoutIs
    <3>2. CASE left \in Removing({here.path})
      BY <2>0, <3>2, KeepingIs
    <3> QED
      BY <2>1, <3>1, <3>2
  <2> HIDE DEF here
  <2>3. /\ DOMAIN dirs' = DOMAIN left \cup {here.path} /\ dirs'[here.path].layout = here.layout
        /\ \A path \in DOMAIN left : path # here.path => dirs'[path] = left[path]
    <3>1. /\ DOMAIN Stamped(left, here) = DOMAIN left \cup {here.path}
          /\ \A path \in DOMAIN left : path # here.path => Stamped(left, here)[path] = left[path]
          /\ Stamped(left, here)[here.path].layout = here.layout
      BY <2>2, StampedIs
    <3> QED
      BY <2>1, <3>1
  <2> QED
    BY <2>2, <2>3
<1>4. /\ proc'[p].pc \in {"enter", "run"} /\ ~Filled(p)'
      /\ proc'[p].pc = "enter" => proc'[p].step = proc[p].step + 1
      /\ proc'[p].pc = "run" => proc[p].step = Len(b.dirs)
  <2>1. \/ /\ proc'[p].pc = "enter" /\ proc'[p].step = proc[p].step + 1
        \/ /\ ~(proc[p].step < Len(b.dirs))
           /\ proc'[p].pc = "run" /\ proc'[p].step = 1
    BY EnterDoes
  <2>2. ~Filled(p)'
    BY <2>1 DEF Filled
  <2> QED
    BY <1>1, <1>2, <2>1, <2>2
<1>5. ASSUME NEW d \in 1..Len(b.dirs), d <= proc[p].step, b.dirs[d].path \in Private(p)
      PROVE  b.dirs[d].path \in DOMAIN dirs' /\ dirs'[b.dirs[d].path].layout = b.dirs[d].layout
  <2>1. CASE d = proc[p].step
    BY <1>3, <2>1
  <2>2. CASE d # proc[p].step
    <3>1. d < proc[p].step /\ b.dirs[d].path # here.path
      BY <1>1, <1>2, <1>5, <2>2
    <3>2. Stocked(p, b.dirs[d])
      BY <1>1, <1>5 DEF Stock, AtWork
    <3>3. b.dirs[d].path \in DOMAIN dirs /\ dirs[b.dirs[d].path].layout = b.dirs[d].layout
      BY <1>1, <3>1, <3>2 DEF Stocked
    <3> QED
      BY <1>3, <3>1, <3>3
  <2> QED
    BY <2>1, <2>2
<1>6. ASSUME NEW d \in 1..Len(b.dirs), b.dirs[d].path \in Private(p)
      PROVE  Stocked(p, b.dirs[d])'
  <2>1. CASE proc'[p].pc = "run"
    <3>1. d <= proc[p].step
      BY <1>2, <1>4, <2>1
    <3> QED
      BY <1>1, <1>4, <1>5, <1>6, <3>1 DEF Stocked
  <2>2. CASE proc'[p].pc = "enter"
    <3>1. ASSUME NEW e \in 1..Len(b.dirs), e < proc'[p].step, b.dirs[e] = b.dirs[d]
          PROVE  b.dirs[d].path \in DOMAIN dirs' /\ dirs'[b.dirs[d].path].layout = b.dirs[d].layout
      <4>1. e <= proc[p].step
        BY <1>1, <1>2, <1>4, <2>2, <3>1
      <4> QED
        BY <1>5, <1>6, <3>1, <4>1
    <3> QED
      BY <1>1, <1>4, <2>2, <3>1 DEF Stocked
  <2> QED
    BY <1>4, <2>1, <2>2
<1> QED
  BY <1>1, <1>6 DEF Stock

\* From its write on, all files of a body are there, in their layout, of this
\* execution, and clean until something reads them.
LEMMA OwnFilesAfterWork ==
  ASSUME CellsAssumption, PlannedWell, CoresInv, Places, NEW p \in Proc, proc[p].pc = "run",
         Now(p).enters, Stock(p), Layouts(p), NEW m \in Reach(p),
         NEW d \in 1..Len(Now(p).dirs), Now(p).dirs[d].path \in Private(p),
         NEW D, D = After(p, OpNow(p), m)
  PROVE  LET dir == Now(p).dirs[d] IN
         /\ dir.path \in DOMAIN dirs /\ dir.path \in DOMAIN D /\ D[dir.path].layout = dir.layout
         /\ \A i \in 1..PerDir :
              LET file == D[dir.path].files[i] IN
              /\ file # NoFile /\ file.by = Execution(p) /\ file.layout = dir.layout
              /\ /\ Now(p).flush /\ ~HasOp(Now(p), "reopen")
                 /\ OpNow(p) \notin {"read", "readUntil", "stat"}
                 => file.client = "clean"
<1> DEFINE b == Now(p)
           path == Now(p).dirs[d].path
           layout == Now(p).dirs[d].layout
<1>0. Typed(dirs) /\ OpNow(p) \in Op /\ proc[p].step \in 1..Len(b.ops)
  BY OpIsOp DEF Places
<1>1. /\ proc[p].at \in 1..Len(plan[p]) /\ b = plan[p][proc[p].at]
      /\ WellShaped(b) /\ path \in Paths(b)
  BY AtNow, PathOfDir DEF AtWork
<1>2. path \in DOMAIN dirs /\ dirs[path].layout = layout
  BY DEF Stock, Stocked, AtWork
<1>3. ASSUME NEW i \in 1..PerDir
      PROVE  dirs[path].files[i] = NoFile \/ dirs[path].files[i].layout = layout
  <2>1. LET dir == plan[p][proc[p].at].dirs[d] IN
        dir.path \in Private(p) \cap DOMAIN dirs =>
          dirs[dir.path].files[i] = NoFile \/ dirs[dir.path].files[i].layout = dir.layout
    BY <1>1 DEF Layouts
  <2> QED
    BY <1>1, <1>2, <2>1
<1>4. DOMAIN D = DOMAIN dirs /\ D[path].layout = layout
  BY <1>0, <1>2, AfterIs
<1>5. CASE OpNow(p) = "write"
  <2>1. m = Total(b) /\ D = Written(p, m)
    BY <1>5 DEF Reach, After
  <2>2. ASSUME NEW i \in 1..PerDir PROVE Place(b, path, i) <= m
    BY <1>1, <2>1, PlacesOfFiles
  <2>3. ASSUME NEW i \in 1..PerDir
        PROVE  /\ D[path].files[i] # NoFile /\ D[path].files[i].by = Execution(p)
               /\ D[path].files[i].layout = layout
               /\ b.flush => D[path].files[i].client = "clean"
    <3> HIDE DEF path, layout
    <3>1. LET file == Written(p, m)[path].files[i]
              old == dirs[path].files[i]
          IN  /\ file # NoFile /\ file.by = Execution(p)
              /\ file.layout = IF old = NoFile THEN dirs[path].layout ELSE old.layout
              /\ file.client = IF Now(p).flush THEN "clean" ELSE "cached"
      BY <1>0, <1>1, <1>2, <2>2, WrittenIs
    <3> QED
      BY <1>2, <1>3, <2>1, <3>1
  <2> QED
    BY <1>2, <1>4, <2>3
<1>6. CASE OpNow(p) # "write"
  <2>1. Filled(p)
    BY <1>0, <1>6, WriteIsFirst DEF Filled
  <2>2. ASSUME NEW i \in 1..PerDir
        PROVE  /\ dirs[path].files[i] # NoFile /\ dirs[path].files[i].by = Execution(p)
               /\ dirs[path].files[i].layout = layout
               /\ b.flush /\ ~HasOp(b, "reopen") => dirs[path].files[i].client = "clean"
    <3>1. Stocked(p, b.dirs[d])
      BY DEF Stock, AtWork
    <3> QED
      BY <2>1, <3>1 DEF Stocked
  <2>3. ASSUME NEW i \in 1..PerDir PROVE SameFile(D, path, i)
    BY <1>0, <1>2, <1>6, AfterIs
  <2>4. ASSUME ~HasOp(b, "reopen"), OpNow(p) \notin {"read", "readUntil", "stat"}
        PROVE  D = dirs
    <3>1. OpNow(p) # "reopen"
      BY <1>0, <2>4 DEF HasOp, OpNow
    <3>2. OpNow(p) \in {"evict", "restrict", "query"}
      BY <1>0, <1>6, <2>4, <3>1 DEF Op
    <3> QED
      BY <3>2 DEF After, Evicted
  <2> QED
    BY <1>2, <1>4, <2>2, <2>3, <2>4 DEF SameFile
<1> QED
  BY <1>5, <1>6

LEMMA StockAfterWork ==
  ASSUME CellsAssumption, PlannedWell, CoresInv, Places, NEW p \in Proc, Work(p), plan' = plan,
         launches' = launches, Stock(p), Layouts(p)
  PROVE  Stock(p)'
<1> DEFINE b == Now(p)
<1>1. /\ proc[p].pc = "run" /\ Now(p)' = b /\ Private(p)' = Private(p)
      /\ Execution(p)' = Execution(p) /\ HasOp(Now(p), "reopen")' = HasOp(b, "reopen")
  BY WorkDoes, SameNow, SamePlan DEF Execution, HasOp
<1>2. PICK m \in Reach(p) : dirs' = After(p, OpNow(p), m)
  BY WorkDoes
<1>3. /\ proc'[p].pc \in {"run", "leave", "record"}
      /\ proc'[p].pc = "run" => OpNow(p) \notin {"read", "readUntil", "stat"}
  <2>1. WellShaped(b) /\ Len(b.ops) \in Nat /\ proc[p].step \in 1..Len(b.ops)
    BY <1>1, AtNow, OpIsOp DEF AtWork
  <2>2. \A i \in 1..Len(b.ops) : b.ops[i] \in {"read", "readUntil", "stat"} => i = Len(b.ops)
    BY <2>1 DEF WellShaped
  <2>3. /\ proc'[p].pc \in {"run", "leave", "record"}
        /\ proc'[p].pc = "run" => proc[p].step < Len(b.ops)
    BY WorkDoes
  <2> QED
    BY <2>1, <2>2, <2>3 DEF OpNow
<1>4. ASSUME NEW d \in 1..Len(b.dirs), b.dirs[d].path \in Private(p)
      PROVE  Stocked(p, b.dirs[d])'
  <2>1. CASE ~b.enters
    BY <1>1, <1>3, <2>1 DEF Stocked, Filled
  <2>2. CASE b.enters
    <3>1. LET dir == b.dirs[d] IN
          /\ dir.path \in DOMAIN dirs' /\ dirs'[dir.path].layout = dir.layout
          /\ \A i \in 1..PerDir :
               LET file == dirs'[dir.path].files[i] IN
               /\ file # NoFile /\ file.by = Execution(p) /\ file.layout = dir.layout
               /\ /\ b.flush /\ ~HasOp(b, "reopen")
                  /\ OpNow(p) \notin {"read", "readUntil", "stat"}
                  => file.client = "clean"
      BY <1>1, <1>2, <1>4, <2>2, OwnFilesAfterWork
    <3> QED
      BY <1>1, <1>3, <3>1 DEF Stocked
  <2> QED
    BY <2>1, <2>2
<1> QED
  BY <1>1, <1>4 DEF Stock

LEMMA StockIsKept ==
  ASSUME CellsAssumption, PlannedWell, CoresInv, Places, NEW p \in Proc, MovesAlone(p),
         Stock(p), Layouts(p),
         \/ Launch(p) \/ Skip(p) \/ Begin(p) \/ Enter(p) \/ Work(p) \/ Raise(p)
         \/ Leave(p) \/ Record(p) \/ Escape(p) \/ End(p) \/ Kill(p)
  PROVE  Stock(p)'
<1>0. plan' = plan
  BY DEF MovesAlone
<1>1. ASSUME ~Filled(p)', proc'[p].pc # "enter" \/ proc'[p].step = 1,
             proc'[p].pc = "run" => ~Now(p)'.enters
      PROVE  Stock(p)'
  <2>1. \A d \in 1..Len(Now(p)'.dirs) : ~(d < 1)
    OBVIOUS
  <2> QED
    BY <1>1, <2>1 DEF Stock, Stocked
<1>2. CASE Launch(p) \/ Skip(p) \/ End(p) \/ Kill(p) \/ Record(p) \/ Escape(p)
  <2>1. proc'[p].pc \in {"next", "done", "aborted", "down", "refused"}
    BY <1>2, BetweenDoes, RecordDoes, EscapeDoes
  <2> QED
    BY <2>1 DEF Stock, AtWork
<1>3. CASE Begin(p)
  <2>1. Now(p)' = Now(p)
    BY <1>0, <1>3, BeginDoes, SameNow
  <2>2. /\ proc'[p].pc = IF Now(p).enters THEN "enter"
                         ELSE IF Now(p).ops # <<>> THEN "run" ELSE "leave"
        /\ proc'[p].step = 1
    BY <1>3, BeginDoes
  <2>3. ~Filled(p)'
    BY <2>1, <2>2 DEF Filled
  <2> QED
    BY <1>1, <2>1, <2>2, <2>3
<1>4. CASE Enter(p)
  BY <1>0, <1>4, StockAfterEnter
<1>5. CASE Work(p)
  BY <1>0, <1>5, StockAfterWork DEF Work
<1>6. CASE Raise(p)
  <2>1. proc'[p].pc \in {"leave", "record"} /\ proc'[p].failed = TRUE
    BY <1>6, RaiseDoes
  <2> QED
    BY <1>1, <2>1 DEF Filled
<1>7. CASE Leave(p)
  <2>1. proc'[p].pc = "record" /\ Now(p)' = Now(p) /\ Now(p).leaves
    BY <1>0, <1>7, LeaveDoes, SameNow DEF Places, Placed
  <2> QED
    BY <1>1, <2>1 DEF Filled
<1> QED
  BY <1>2, <1>3, <1>4, <1>5, <1>6, <1>7

-----------------------------------------------------------------------------
(* What is seen is kept.                                                   *)

\* What was found, file by file.
LEMMA FoundIs ==
  ASSUME NEW p \in Proc, NEW m
  PROVE  /\ \A x \in Found(p, m) :
              /\ x.path \in Paths(Now(p)) /\ x.file \in 1..PerDir
              /\ x.by = dirs[x.path].files[x.file].by
              /\ x.layout = dirs[x.path].files[x.file].layout
              /\ x.observed = Observed(dirs[x.path].files[x.file])
         /\ \A x, y \in Found(p, m) : x.path = y.path /\ x.file = y.file => x = y
         /\ \A path \in Paths(Now(p)) : \A i \in 1..PerDir :
              Place(Now(p), path, i) <= m /\ dirs[path].files[i] # NoFile =>
                \E x \in Found(p, m) : x.path = path /\ x.file = i
<1> DEFINE reached == {x \in Paths(Now(p)) \X (1..PerDir) :
                         Place(Now(p), x[1], x[2]) <= m /\ dirs[x[1]].files[x[2]] # NoFile}
           Sight(x) == LET file == dirs[x[1]].files[x[2]] IN
                       [path |-> x[1], file |-> x[2], by |-> file.by, layout |-> file.layout,
                        observed |-> Observed(file), few |-> proc[p].few]
<1>1. Found(p, m) = {Sight(x) : x \in reached}
  BY DEF Found
<1>2. ASSUME NEW x \in reached
      PROVE  /\ x[1] \in Paths(Now(p)) /\ x[2] \in 1..PerDir
             /\ Sight(x).path = x[1] /\ Sight(x).file = x[2]
             /\ Sight(x).by = dirs[x[1]].files[x[2]].by
             /\ Sight(x).layout = dirs[x[1]].files[x[2]].layout
             /\ Sight(x).observed = Observed(dirs[x[1]].files[x[2]])
  OBVIOUS
<1>3. ASSUME NEW x \in reached, NEW y \in reached, x[1] = y[1], x[2] = y[2]
      PROVE  Sight(x) = Sight(y)
  BY <1>3
<1>4. ASSUME NEW path \in Paths(Now(p)), NEW i \in 1..PerDir,
             Place(Now(p), path, i) <= m, dirs[path].files[i] # NoFile
      PROVE  \E x \in reached : x[1] = path /\ x[2] = i
  <2>1. <<path, i>> \in reached
    BY <1>4
  <2> QED
    BY <2>1
<1> HIDE DEF reached, Sight
<1>5. ASSUME NEW x \in Found(p, m), NEW y \in Found(p, m), x.path = y.path, x.file = y.file
      PROVE  x = y
  BY <1>1, <1>2, <1>3, <1>5
<1>6. ASSUME NEW path \in Paths(Now(p)), NEW i \in 1..PerDir,
             Place(Now(p), path, i) <= m, dirs[path].files[i] # NoFile
      PROVE  \E x \in Found(p, m) : x.path = path /\ x.file = i
  BY <1>1, <1>2, <1>4, <1>6
<1>7. ASSUME NEW x \in Found(p, m)
      PROVE  /\ x.path \in Paths(Now(p)) /\ x.file \in 1..PerDir
             /\ x.by = dirs[x.path].files[x.file].by
             /\ x.layout = dirs[x.path].files[x.file].layout
             /\ x.observed = Observed(dirs[x.path].files[x.file])
  BY <1>1, <1>2
<1> QED
  BY <1>5, <1>6, <1>7

\* Whoever saw every file of a body once saw as many as it has.
LEMMA AllFilesOnce ==
  ASSUME CellsAssumption, NEW b, WellShaped(b), NEW seen,
         \A x \in seen : x.path \in Paths(b) /\ x.file \in 1..PerDir,
         \A x, y \in seen : x.path = y.path /\ x.file = y.file => x = y,
         \A path \in Paths(b) : \A i \in 1..PerDir : \E x \in seen : x.path = path /\ x.file = i
  PROVE  Cardinality(seen) = Total(b)
<1> DEFINE places == (1..Len(b.dirs)) \X (1..PerDir)
           F == [z \in places |->
                   CHOOSE x \in seen : x.path = b.dirs[z[1]].path /\ x.file = z[2]]
<1>1. /\ Len(b.dirs) \in Nat \ {0} /\ PerDir \in Nat \ {0}
      /\ \A d, e \in 1..Len(b.dirs) : b.dirs[d].path = b.dirs[e].path => d = e
  BY DEF WellShaped, NamesApart, CellsAssumption
<1>2. IsFiniteSet(places) /\ Cardinality(places) = Total(b)
  <2>1. /\ IsFiniteSet(1..Len(b.dirs)) /\ Cardinality(1..Len(b.dirs)) = Len(b.dirs)
        /\ IsFiniteSet(1..PerDir) /\ Cardinality(1..PerDir) = PerDir
    <3>1. ASSUME NEW n \in Nat \ {0}
          PROVE  IsFiniteSet(1..n) /\ Cardinality(1..n) = n
      <4>1. 1 \in Int /\ n \in Int /\ ~(1 > n) /\ n - 1 + 1 = n
        OBVIOUS
      <4> QED
        BY <4>1, FS_Interval
    <3> QED
      BY <1>1, <3>1
  <2> QED
    BY <2>1, FS_Product DEF Total
<1>3. ASSUME NEW z \in places
      PROVE  F[z] \in seen /\ F[z].path = b.dirs[z[1]].path /\ F[z].file = z[2]
  <2>1. b.dirs[z[1]].path \in Paths(b) /\ z[2] \in 1..PerDir
    BY PathOfDir
  <2>2. \E x \in seen : x.path = b.dirs[z[1]].path /\ x.file = z[2]
    BY <2>1
  <2> QED
    BY <2>2
<1>4. F \in [places -> seen]
  BY <1>3
<1>5. ASSUME NEW y \in places, NEW z \in places, F[y] = F[z] PROVE y = z
  <2>1. y[1] = z[1] /\ y[2] = z[2]
    <3>1. F[y].path = b.dirs[y[1]].path /\ F[y].file = y[2]
      BY <1>3
    <3>2. F[z].path = b.dirs[z[1]].path /\ F[z].file = z[2]
      BY <1>3
    <3>3. y[1] \in 1..Len(b.dirs) /\ z[1] \in 1..Len(b.dirs)
      OBVIOUS
    <3> HIDE DEF F, places
    <3> QED
      BY <1>1, <1>5, <3>1, <3>2, <3>3
  <2> QED
    BY <2>1
<1>6. ASSUME NEW x \in seen PROVE \E z \in places : F[z] = x
  <2>1. PICK d \in 1..Len(b.dirs) : b.dirs[d].path = x.path
    BY PathOfDir
  <2>2. <<d, x.file>> \in places /\ <<d, x.file>>[1] = d /\ <<d, x.file>>[2] = x.file
    OBVIOUS
  <2> HIDE DEF F, places
  <2>3. /\ F[<<d, x.file>>] \in seen
        /\ F[<<d, x.file>>].path = x.path /\ F[<<d, x.file>>].file = x.file
    BY <1>3, <2>1, <2>2
  <2> QED
    BY <2>2, <2>3
<1> HIDE DEF F, places
<1>7. ExistsBijection(places, seen)
  <2>1. F \in Bijection(places, seen)
    BY <1>4, <1>5, <1>6, Fun_IsBij
  <2> QED
    BY <2>1, Fun_ExistsBij
<1> QED
  BY <1>2, <1>7, FS_Bijection

\* A read finds the cell's own files, as the flush left them.
LEMMA ReadFindsOwnFiles ==
  ASSUME CellsAssumption, PlannedWell, CoresInv, Places, NEW p \in Proc, proc[p].pc = "run",
         Now(p).enters, Now(p).cell # NoCell, OpNow(p) \in {"read", "readUntil"},
         NEW m \in Reach(p), Stock(p)
  PROVE  /\ \A x \in Found(p, m) :
              /\ x.by = Execution(p) /\ x.path \in Paths(Now(p)) /\ x.file \in 1..PerDir
              /\ \E d \in 1..Len(Now(p).dirs) : Now(p).dirs[d] = Dir(x.path, x.layout)
              /\ Now(p).flush /\ ~HasOp(Now(p), "reopen") =>
                   x.observed = IF x.layout = "dom" THEN "inlined" ELSE "cold"
         /\ OpNow(p) = "read" =>
              /\ Cardinality(Found(p, m)) = Total(Now(p))
              /\ \A path \in Paths(Now(p)) : \A i \in 1..PerDir :
                   \E x \in Found(p, m) : x.path = path /\ x.file = i
<1> DEFINE b == Now(p)
<1>1. /\ proc[p].at \in 1..Len(plan[p]) /\ b = plan[p][proc[p].at] /\ WellShaped(b)
      /\ proc[p].step \in 1..Len(b.ops)
  BY AtNow, OpIsOp DEF AtWork
<1>2. Paths(b) \subseteq Private(p)
  BY <1>1, CellsArePrivate
<1>3. Filled(p)
  BY <1>1, WriteIsFirst DEF Filled
<1>4. ASSUME NEW path \in Paths(b), NEW i \in 1..PerDir
      PROVE  /\ dirs[path].files[i] # NoFile /\ dirs[path].files[i].by = Execution(p)
             /\ \E d \in 1..Len(b.dirs) : b.dirs[d] = Dir(path, dirs[path].files[i].layout)
             /\ b.flush /\ ~HasOp(b, "reopen") => dirs[path].files[i].client = "clean"
  <2>1. PICK d \in 1..Len(b.dirs) : b.dirs[d].path = path
    BY PathOfDir
  <2>2. Stocked(p, b.dirs[d])
    BY <1>2, <2>1 DEF Stock, AtWork
  <2>3. /\ dirs[path].files[i] # NoFile /\ dirs[path].files[i].by = Execution(p)
        /\ dirs[path].files[i].layout = b.dirs[d].layout
        /\ b.flush /\ ~HasOp(b, "reopen") => dirs[path].files[i].client = "clean"
    BY <1>3, <2>1, <2>2 DEF Stocked
  <2>4. b.dirs[d] = Dir(path, b.dirs[d].layout)
    BY <1>1, <2>1 DEF WellShaped, NamesApart
  <2> QED
    BY <2>3, <2>4
<1>5. ASSUME NEW x \in Found(p, m)
      PROVE  /\ x.by = Execution(p) /\ x.path \in Paths(b) /\ x.file \in 1..PerDir
             /\ \E d \in 1..Len(b.dirs) : b.dirs[d] = Dir(x.path, x.layout)
             /\ b.flush /\ ~HasOp(b, "reopen") =>
                  x.observed = IF x.layout = "dom" THEN "inlined" ELSE "cold"
  <2> DEFINE file == dirs[x.path].files[x.file]
  <2>1. /\ x.path \in Paths(b) /\ x.file \in 1..PerDir
        /\ x.by = file.by /\ x.layout = file.layout /\ x.observed = Observed(file)
    BY FoundIs
  <2>2. file.client = "clean" =>
          Observed(file) = IF file.layout = "dom" THEN "inlined" ELSE "cold"
    BY DEF Observed
  <2> HIDE DEF b
  <2> QED
    BY <1>4, <2>1, <2>2
<1>6. ASSUME OpNow(p) = "read"
      PROVE  /\ Cardinality(Found(p, m)) = Total(b)
             /\ \A path \in Paths(b) : \A i \in 1..PerDir :
                  \E x \in Found(p, m) : x.path = path /\ x.file = i
  <2>1. m = Total(b)
    BY <1>6 DEF Reach
  <2>2. \A path \in Paths(b) : \A i \in 1..PerDir :
          \E x \in Found(p, m) : x.path = path /\ x.file = i
    <3> SUFFICES ASSUME NEW path \in Paths(b), NEW i \in 1..PerDir
                 PROVE  \E x \in Found(p, m) : x.path = path /\ x.file = i
      OBVIOUS
    <3>1. Place(b, path, i) <= m
      BY <1>1, <2>1, PlacesOfFiles
    <3> QED
      BY <1>4, <3>1, FoundIs
  <2>3. /\ \A x \in Found(p, m) : x.path \in Paths(b) /\ x.file \in 1..PerDir
        /\ \A x, y \in Found(p, m) : x.path = y.path /\ x.file = y.file => x = y
    BY FoundIs
  <2> QED
    BY <1>1, <2>2, <2>3, AllFilesOnce
<1> QED
  BY <1>5, <1>6

LEMMA SeenAfterWork ==
  ASSUME CellsAssumption, PlannedWell, CoresInv, Places, NEW p \in Proc, Work(p), plan' = plan,
         launches' = launches, Stock(p)
  PROVE  SeenByNow(p)'
<1> DEFINE b == Now(p)
<1>1. /\ proc[p].pc = "run" /\ Now(p)' = b /\ Execution(p)' = Execution(p)
  BY WorkDoes, SameNow DEF Execution
<1> SUFFICES ASSUME proc'[p].pc # "run", b.enters, b.cell # NoCell
             PROVE  OfOwnFiles(b, proc'[p].seen, Execution(p))
  <2> HIDE DEF b
  <2> QED
    BY <1>1 DEF SeenByNow
<1>2. PICK m \in Reach(p) :
        proc'[p].seen = IF OpNow(p) \in {"read", "readUntil"} THEN Found(p, m) ELSE {}
  BY WorkDoes
<1>3. HasOp(b, "read") => OpNow(p) = "read"
  <2>1. WellShaped(b) /\ Len(b.ops) \in Nat /\ proc[p].step \in 1..Len(b.ops)
    BY <1>1, AtNow, OpIsOp DEF AtWork
  <2>2. ~(proc[p].step < Len(b.ops))
    BY WorkDoes
  <2>3. \A i \in 1..Len(b.ops) : b.ops[i] = "read" => i = Len(b.ops)
    BY <2>1 DEF WellShaped
  <2> QED
    BY <2>1, <2>2, <2>3 DEF HasOp, OpNow
<1>4. OfOwnFiles(b, proc'[p].seen, Execution(p))
  <2>1. CASE OpNow(p) \in {"read", "readUntil"}
    <3>1. proc'[p].seen = Found(p, m)
      BY <1>2, <2>1
    <3> QED
      BY <1>1, <1>3, <2>1, <3>1, ReadFindsOwnFiles DEF OfOwnFiles
  <2>2. CASE OpNow(p) \notin {"read", "readUntil"}
    <3>1. proc'[p].seen = {}
      BY <1>2, <2>2
    <3> QED
      BY <1>3, <2>2, <3>1 DEF OfOwnFiles
  <2> QED
    BY <2>1, <2>2
<1> QED
  BY <1>4

LEMMA SeenIsKept ==
  ASSUME CellsAssumption, PlannedWell, CoresInv, Places, NEW p \in Proc, MovesAlone(p),
         Stock(p), SeenByNow(p),
         \/ Launch(p) \/ Skip(p) \/ Begin(p) \/ Enter(p) \/ Work(p) \/ Raise(p)
         \/ Leave(p) \/ Record(p) \/ Escape(p) \/ End(p) \/ Kill(p)
  PROVE  SeenByNow(p)'
<1>0. plan' = plan
  BY DEF MovesAlone
<1>1. CASE Launch(p) \/ Skip(p) \/ End(p) \/ Kill(p) \/ Record(p) \/ Escape(p)
  <2>1. proc'[p].pc \in {"next", "done", "aborted", "down", "refused"}
    BY <1>1, BetweenDoes, RecordDoes, EscapeDoes
  <2> QED
    BY <2>1 DEF SeenByNow
<1>2. CASE Begin(p)
  <2>1. Now(p)' = Now(p)
    BY <1>0, <1>2, BeginDoes, SameNow
  <2>2. proc'[p].pc = IF Now(p).enters THEN "enter"
                      ELSE IF Now(p).ops # <<>> THEN "run" ELSE "leave"
    BY <1>2, BeginDoes
  <2> QED
    BY <2>1, <2>2 DEF SeenByNow
<1>3. CASE Enter(p)
  <2>1. proc'[p].pc \in {"enter", "run"}
    BY <1>3, EnterDoes
  <2> QED
    BY <2>1 DEF SeenByNow
<1>4. CASE Work(p)
  BY <1>0, <1>4, SeenAfterWork DEF Work
<1>5. CASE Raise(p)
  BY <1>5, RaiseDoes DEF SeenByNow
<1>6. CASE Leave(p)
  <2>1. /\ proc[p].pc = "leave" /\ proc'[p].failed = proc[p].failed
        /\ proc'[p].seen = proc[p].seen /\ Now(p)' = Now(p)
    BY <1>0, <1>6, LeaveDoes, SameNow
  <2>2. Execution(p)' = Execution(p)
    BY <1>6, <2>1 DEF Execution, Leave
  <2>3. OfOwnFiles(Now(p), proc[p].seen, Execution(p))' <=>
          OfOwnFiles(Now(p), proc[p].seen, Execution(p))
    BY <2>1, <2>2 DEF OfOwnFiles, HasOp, Paths, Total
  <2> QED
    BY <2>1, <2>3 DEF SeenByNow
<1> QED
  BY <1>1, <1>2, <1>3, <1>4, <1>5, <1>6

-----------------------------------------------------------------------------
(* Rows are of own files.                                                  *)

\* Nobody else has the cell that is being recorded.
LEMMA RecordedBody ==
  ASSUME PlannedWell, CoresInv, NEW p \in Proc, proc[p].pc = "record",
         NEW b \in Planned, b.cell = Now(p).cell, b.cell # NoCell
  PROVE  b = Now(p) /\ WellShaped(b)
<1>0. PICK q \in Proc : \E k \in 1..Len(plan[q]) : b = plan[q][k]
  BY DEF Planned
<1>1. PICK k \in 1..Len(plan[q]) : b = plan[q][k]
  BY <1>0
<1>2. proc[p].at \in 1..Len(plan[p]) /\ Now(p) = plan[p][proc[p].at] /\ WellShaped(Now(p))
  BY AtNow DEF AtWork
<1> QED
  BY <1>1, <1>2, OneKey

LEMMA RowsStayOwn ==
  ASSUME RowsOfOwnFiles, plan' = plan,
         \A c \in DOMAIN rows' : c \in DOMAIN rows /\ rows'[c] = rows[c]
  PROVE  RowsOfOwnFiles'
<1>1. Planned' = Planned
  BY SamePlan
<1> SUFFICES ASSUME NEW b \in Planned, GoodRow(b)', HasOp(b, "write")
             PROVE  OfOwnFiles(b, rows'[b.cell].seen, rows'[b.cell].by)
  BY <1>1 DEF RowsOfOwnFiles, OfOwnFiles, HasOp, Paths, Total, Seen
<1>2. GoodRow(b) /\ rows'[b.cell] = rows[b.cell]
  BY DEF GoodRow
<1> QED
  BY <1>2 DEF RowsOfOwnFiles, Seen

\* The process gives the cell it is at its row.
RowAdded(p) ==
  /\ proc[p].pc = "record" /\ Now(p).cell # NoCell
  /\ dirs' = dirs /\ proc'[p].pc = "next"
  /\ DOMAIN rows' = DOMAIN rows \cup {Now(p).cell}
  /\ rows'[Now(p).cell].ok = ~proc[p].failed
  /\ rows'[Now(p).cell].by = Execution(p)
  /\ rows'[Now(p).cell].seen = IF proc[p].failed THEN {} ELSE proc[p].seen

\* A row comes with the end of a cell, also where its experiment ends with it.
LEMMA RowOrNone ==
  ASSUME CoresInv, NEW p \in Proc,
         \/ Launch(p) \/ Skip(p) \/ Begin(p) \/ Enter(p) \/ Work(p) \/ Raise(p)
         \/ Leave(p) \/ Record(p) \/ Escape(p) \/ End(p) \/ Kill(p)
  PROVE  rows' = rows \/ RowAdded(p)
<1>1. CASE Record(p)
  BY <1>1, RecordDoes DEF RowAdded
<1>2. CASE Escape(p)
  BY <1>2, EscapeDoes DEF RowAdded
<1>3. CASE ~Record(p) /\ ~Escape(p)
  BY <1>3 DEF Launch, Skip, Begin, Enter, Work, Raise, Leave, End, Kill
<1> QED
  BY <1>1, <1>2, <1>3

LEMMA RowsAreOwnAfterRecord ==
  ASSUME PlannedWell, CoresInv, NEW p \in Proc, RowAdded(p), RowsGrow(p), plan' = plan,
         SeenByNow(p), RowsOfOwnFiles
  PROVE  RowsOfOwnFiles'
<1>1. Planned' = Planned
  BY SamePlan
<1> SUFFICES ASSUME NEW b \in Planned, b.cell \in DOMAIN rows', rows'[b.cell].ok,
                    HasOp(b, "write")
             PROVE  OfOwnFiles(b, rows'[b.cell].seen, rows'[b.cell].by)
  BY <1>1 DEF RowsOfOwnFiles, OfOwnFiles, HasOp, Paths, Total, Seen, GoodRow
<1>2. proc[p].pc = "record" /\ Now(p).cell # NoCell
  BY DEF RowAdded
<1>3. CASE b.cell = Now(p).cell
  <2>1. b = Now(p) /\ b.enters /\ proc[p].failed \in BOOLEAN
    BY <1>2, <1>3, RecordedBody DEF WellShaped, CoresInv, Stands
  <2>2. /\ rows'[b.cell].ok = ~proc[p].failed /\ rows'[b.cell].by = Execution(p)
        /\ rows'[b.cell].seen = IF proc[p].failed THEN {} ELSE proc[p].seen
    BY <1>3 DEF RowAdded
  <2>3. ~proc[p].failed /\ rows'[b.cell].seen = proc[p].seen
    BY <2>1, <2>2
  <2>4. OfOwnFiles(Now(p), proc[p].seen, Execution(p))
    BY <1>2, <1>3, <2>1, <2>3 DEF SeenByNow
  <2> QED
    BY <2>1, <2>2, <2>3, <2>4
<1>4. CASE b.cell # Now(p).cell
  <2>1. b.cell \in DOMAIN rows /\ rows'[b.cell] = rows[b.cell]
    BY <1>4 DEF RowsGrow
  <2> QED
    BY <2>1 DEF RowsOfOwnFiles, Seen, GoodRow
<1> QED
  BY <1>3, <1>4

LEMMA FilesAfterStep ==
  ASSUME CellsAssumption, PlannedWell, FilesInv, NEW p \in Proc,
         \/ Launch(p) \/ Skip(p) \/ Begin(p) \/ Enter(p) \/ Work(p) \/ Raise(p)
         \/ Leave(p) \/ Record(p) \/ Escape(p) \/ End(p) \/ Kill(p)
  PROVE  (\A q \in Proc : Stock(q) /\ Layouts(q) /\ SeenByNow(q))' /\ RowsOfOwnFiles'
<1>1. CoresInv /\ Places /\ RowsOfOwnFiles /\ \A q \in Proc : Stock(q) /\ Layouts(q) /\ SeenByNow(q)
  BY DEF FilesInv
<1>2. MovesAlone(p) /\ RowsGrow(p) /\ OnDisk(p, dirs') /\ plan' = plan
  BY <1>1, PlacesAfterStep DEF MovesAlone
<1>3. Stock(p)' /\ Layouts(p)' /\ SeenByNow(p)'
  BY <1>1, <1>2, StockIsKept, LayoutsAreKept, SeenIsKept
<1>4. ASSUME NEW q \in Proc, q # p
      PROVE  Stock(q)' /\ Layouts(q)' /\ SeenByNow(q)'
  <2>1. proc'[q] = proc[q] /\ launches'[q] = launches[q]
    BY <1>2, <1>4 DEF MovesAlone
  <2>2. \A path \in Private(q) : SameDir(dirs', path)
    BY <1>1, <1>2, <1>4, OwnIsLeftAlone
  <2> QED
    BY <1>1, <1>2, <2>1, <2>2, FilesOfOthers
<1>5. RowsOfOwnFiles'
  <2>1. CASE RowAdded(p)
    BY <1>1, <1>2, <2>1, RowsAreOwnAfterRecord
  <2>2. CASE rows' = rows
    BY <1>1, <1>2, <2>2, RowsStayOwn
  <2> QED
    BY <1>1, <2>1, <2>2, RowOrNone
<1> QED
  BY <1>3, <1>4, <1>5

LEMMA FilesAreKept ==
  ASSUME CellsAssumption, PlannedWell, FilesInv, [Next]_vars
  PROVE  FilesInv'
<1>1. CoresInv /\ Places /\ RowsOfOwnFiles /\ \A q \in Proc : Stock(q) /\ Layouts(q) /\ SeenByNow(q)
  BY DEF FilesInv
<1>2. CoresInv' /\ Places'
  BY <1>1, PlacesAreKept
<1>3. ASSUME NEW p \in Proc,
             \/ Launch(p) \/ Skip(p) \/ Begin(p) \/ Enter(p) \/ Work(p) \/ Raise(p)
             \/ Leave(p) \/ Record(p) \/ Escape(p) \/ End(p) \/ Kill(p)
      PROVE  FilesInv'
  BY <1>2, <1>3, FilesAfterStep DEF FilesInv
<1>4. ASSUME plan' = plan, dirs' = dirs, proc' = proc, launches' = launches,
             \A c \in DOMAIN rows' : c \in DOMAIN rows /\ rows'[c] = rows[c]
      PROVE  FilesInv'
  <2>1. \A path : SameDir(dirs', path)
    BY <1>4 DEF SameDir
  <2>2. \A q \in Proc : Stock(q)' /\ Layouts(q)' /\ SeenByNow(q)'
    BY <1>1, <1>4, <2>1, FilesOfOthers
  <2>3. RowsOfOwnFiles'
    BY <1>1, <1>4, RowsStayOwn
  <2> QED
    BY <1>2, <2>2, <2>3 DEF FilesInv
<1>5. ASSUME NEW c \in DOMAIN rows, Redo(c) PROVE FilesInv'
  BY <1>4, <1>5, RedoDoes
<1>6. CASE UNCHANGED vars
  BY <1>4, <1>6 DEF vars
<1> QED
  BY <1>3, <1>5, <1>6 DEF Next

LEMMA PlacesAtFirst ==
  ASSUME CellsAssumption, PlannedWell, Init
  PROVE  CoresInv /\ Places
<1>1. CoresInv
  <2>1. \A p \in Proc : Stands(p)
    <3> SUFFICES ASSUME NEW p \in Proc PROVE Stands(p)
      OBVIOUS
    <3>1. proc[p] = Idle
      BY DEF Init
    <3>2. /\ DOMAIN proc[p] = Fields /\ proc[p].at \in Nat \ {0}
          /\ proc[p].failed \in BOOLEAN /\ proc[p].few = FALSE
          /\ proc[p].pc \notin {"enter", "run", "leave", "record"}
      BY <3>1 DEF Idle, Fields
    <3> QED
      BY <3>2 DEF Stands, AtWork
  <2> QED
    BY <2>1 DEF Init, CoresInv, OwnCores, GoodRow
<1>2. ASSUME NEW p \in Proc PROVE Placed(p)
  <2>1. proc[p].pc = "down" /\ proc[p].at = 1 /\ proc[p].aborted = FALSE
    BY DEF Init, Idle
  <2>2. Len(plan[p]) \in Nat
    BY <1>1, BodiesOfPlan
  <2>3. 1 \in 1..(Len(plan[p]) + 1)
    BY <2>2
  <2> QED
    BY <2>1, <2>3 DEF Placed, Ended, AtWork
<1>3. launches \in [Proc -> 0..MaxLaunches]
  BY DEF Init, CellsAssumption
<1>4. DOMAIN dirs = {} /\ DOMAIN rows = {} /\ happened = {}
  BY DEF Init
<1> QED
  BY <1>1, <1>2, <1>3, <1>4 DEF Places, Typed

LEMMA FilesAtFirst ==
  ASSUME CellsAssumption, PlannedWell, Init
  PROVE  FilesInv
<1>1. CoresInv /\ Places
  BY PlacesAtFirst
<1>2. DOMAIN dirs = {} /\ DOMAIN rows = {} /\ \A p \in Proc : proc[p].pc = "down"
  BY DEF Init, Idle
<1>3. \A p \in Proc : Stock(p) /\ Layouts(p) /\ SeenByNow(p)
  BY <1>2 DEF Stock, Layouts, SeenByNow, AtWork
<1>4. RowsOfOwnFiles
  BY <1>2 DEF RowsOfOwnFiles, GoodRow
<1> QED
  BY <1>1, <1>3, <1>4 DEF FilesInv

-----------------------------------------------------------------------------
\* No process leaves its plan, only cells have rows, and only directories of the
\* plans exist, whatever is killed, raises or is launched again.
THEOREM TypesOfCells ==
  ASSUME CellsAssumption, PlannedWell
  PROVE  Spec => []TypeOK
<1>1. Init => CoresInv /\ Places
  BY PlacesAtFirst
<1>2. CoresInv /\ Places /\ [Next]_vars => (CoresInv /\ Places)'
  BY PlacesAreKept
<1>3. CoresInv /\ Places => TypeOK
  <2> SUFFICES ASSUME CoresInv, Places PROVE TypeOK
    OBVIOUS
  <2>1. ASSUME NEW p \in Proc
        PROVE  /\ proc[p].pc \in {"down", "next", "enter", "run", "leave", "record"} \cup Ended
               /\ proc[p].at \in 1..(Len(plan[p]) + 1)
               /\ proc[p].pc = "enter" => proc[p].step \in 1..Len(Now(p).dirs)
               /\ proc[p].pc = "run" => proc[p].step \in 1..Len(Now(p).ops)
               /\ proc[p].failed \in BOOLEAN /\ proc[p].few \in BOOLEAN
               /\ proc[p].aborted \in BOOLEAN
    BY DEF CoresInv, Stands, Places, Placed, AtWork
  <2>2. \A path \in DOMAIN dirs : \A i \in 1..PerDir :
          dirs[path].files[i].client \in {"clean", "locked", "cached"}
    BY DEF Places, Typed
  <2> QED
    BY <2>1, <2>2 DEF TypeOK, CoresInv, Places
<1> QED
  BY <1>1, <1>2, <1>3, PTL DEF Spec

\* A good row was measured on the files its own execution wrote, in the layout
\* its arm asks for, and on all of them (fresh_dir, layout.py:33, and the names of
\* directories).
THEOREM RowsAreOfOwnFiles ==
  ASSUME CellsAssumption, PlannedWell
  PROVE  Spec => []OwnFiles
<1>1. Init => FilesInv
  BY FilesAtFirst
<1>2. FilesInv /\ [Next]_vars => FilesInv'
  BY FilesAreKept
<1>3. FilesInv => OwnFiles
  BY DEF FilesInv, RowsOfOwnFiles, OfOwnFiles, OwnFiles
<1> QED
  BY <1>1, <1>2, <1>3, PTL DEF Spec

\* What a flushed cell reads is cold, and inlined where its layout is DoM
\* (write_files, io.py:10; evict, layout.py:134).
THEOREM FlushedFilesAreCold ==
  ASSUME CellsAssumption, PlannedWell
  PROVE  Spec => []ColdRead
<1>1. Init => FilesInv
  BY FilesAtFirst
<1>2. FilesInv /\ [Next]_vars => FilesInv'
  BY FilesAreKept
<1>3. FilesInv => ColdRead
  BY DEF FilesInv, RowsOfOwnFiles, OfOwnFiles, ColdRead
<1> QED
  BY <1>1, <1>2, <1>3, PTL DEF Spec

-----------------------------------------------------------------------------
(* Nothing is left behind.                                                 *)

\* What is empty stays so, unless it is written to.
LEMMA EmptyStays ==
  ASSUME CoresInv, NEW p \in Proc, OnDisk(p, dirs'), NEW path, Empty(path),
         ~(proc[p].pc = "run" /\ OpNow(p) = "write" /\ WorksIn(p, path))
  PROVE  Empty(path)'
<1>1. SameDir(dirs', path) \/ NoNewFiles(dirs', path)
  BY DEF OnDisk
<1>2. CASE SameDir(dirs', path)
  BY <1>2 DEF SameDir, Empty
<1>3. CASE NoNewFiles(dirs', path)
  BY <1>3 DEF NoNewFiles, SameFile, Empty
<1> QED
  BY <1>1, <1>2, <1>3

LEMMA TidyWhereNothingChanges ==
  ASSUME NEW q \in Proc, plan' = plan, proc'[q] = proc[q], happened \subseteq happened',
         \A path \in Private(q) : Empty(path) => Empty(path)',
         \A j \in 1..Len(plan[q]) : ~Done(plan[q][j].cell) => ~Done(plan[q][j].cell)',
         Tidy(q), proc[q].pc = "leave" => proc[q].at \in 1..Len(plan[q])
  PROVE  Tidy(q)'
<1>3. Now(q)' = Now(q) /\ Private(q)' = Private(q)
  BY SameNow, SamePlan
<1>4. \A path : Pending(q, path) => Pending(q, path)'
  BY DEF Pending, Paths
<1>5. \A b : Excused(b) => Excused(b)'
  BY DEF Excused
<1>6. \A b, d : Inside(q, b, d) => Inside(q, b, d)'
  BY <1>3 DEF Inside
<1>7. ASSUME "leftover" \notin happened', NEW k \in 1..Len(plan[q]), plan[q][k].leaves,
             NEW path \in Paths(plan[q][k]), path \in Private(q)
      PROVE  Empty(path)' \/ Pending(q, path)' \/ Excused(plan[q][k])'
  <2>1. Empty(path) \/ Pending(q, path) \/ Excused(plan[q][k])
    BY <1>7 DEF Tidy
  <2> QED
    BY <1>7, <1>4, <1>5, <2>1
<1>8. ASSUME "leftover" \notin happened', proc[q].pc = "leave", Now(q).enters,
             NEW d \in 1..Len(Now(q).dirs), d > proc[q].step, Now(q).dirs[d].path \in Private(q)
      PROVE  Empty(Now(q).dirs[d].path)' \/ Excused(Now(q))'
  <2>1. Empty(Now(q).dirs[d].path) \/ Excused(Now(q))
    BY <1>8 DEF Tidy
  <2> DEFINE path == Now(q).dirs[d].path
  <2>2. path \in Private(q) /\ path' = path
    BY <1>3, <1>8
  <2> HIDE DEF path
  <2>6. Empty(path) => Empty(path)'
    BY <2>2
  <2>3. Empty(Now(q).dirs[d].path) => Empty(Now(q).dirs[d].path)'
    BY <2>2, <2>6 DEF path, Empty
  <2>4. Excused(Now(q)) => Excused(Now(q))'
    BY <1>3 DEF Excused
  <2> QED
    BY <2>1, <2>3, <2>4
<1>9. ASSUME {"leftover", "kill"} \cap happened' = {}, NEW k \in 1..Len(plan[q]),
             Len(plan[q][k].dirs) > 1, NEW d \in 1..Len(plan[q][k].dirs),
             NEW path \in Private(q), path = plan[q][k].dirs[d].path
      PROVE  Empty(path)' \/ Inside(q, plan[q][k], d)'
  <2>1. Empty(path) \/ Inside(q, plan[q][k], d)
    BY <1>9 DEF Tidy
  <2> QED
    BY <1>6, <2>1
<1> QED
  BY <1>3, <1>7, <1>8, <1>9 DEF Tidy, Paths, Empty

\* Whoever is about to remove a directory still is, unless it just tried.
LEMMA PendingStays ==
  ASSUME PlannedWell, CoresInv, Places, NEW p \in Proc, plan' = plan,
         \/ Launch(p) \/ Skip(p) \/ Begin(p) \/ Enter(p) \/ Work(p) \/ Raise(p)
         \/ Leave(p) \/ Record(p) \/ Escape(p) \/ End(p) \/ Kill(p),
         NEW path, Pending(p, path)
  PROVE  Pending(p, path)' \/ (Leave(p) /\ path \in Paths(Now(p)))
<1>1. PICK j \in 1..Len(plan[p]) :
        /\ path \in Paths(plan[p][j]) /\ plan[p][j].leaves /\ ~Done(plan[p][j].cell)
        /\ \/ proc[p].pc \in {"down", "refused"}
           \/ proc[p].aborted /\ j < proc[p].at
           \/ j > proc[p].at
           \/ j = proc[p].at /\ proc[p].pc # "record"
  BY DEF Pending
<1>2. /\ Len(plan[p]) \in Nat /\ proc[p].at \in Nat \ {0} /\ Placed(p)
      /\ Left(p) <=> proc[p].at <= Len(plan[p])
      /\ Now(p) = plan[p][proc[p].at]
  BY BodiesOfPlan DEF CoresInv, Stands, Places, Left, Now
<1>3. ASSUME ~Done(plan[p][j].cell)',
             \/ proc'[p].pc \in {"down", "refused"}
             \/ proc'[p].aborted /\ j < proc'[p].at
             \/ j > proc'[p].at
             \/ j = proc'[p].at /\ proc'[p].pc # "record"
      PROVE  Pending(p, path)'
  BY <1>1, <1>3 DEF Pending, Paths
<1>4. rows' = rows => ~Done(plan[p][j].cell)'
  BY <1>1 DEF Done
<1>5. CASE Launch(p)
  <2>1. /\ proc[p].pc \in Ended /\ proc'[p].pc = "next" /\ proc'[p].at = 1 /\ rows' = rows
    BY <1>5, BetweenDoes
  <2> QED
    BY <1>2, <1>3, <1>4, <2>1
<1>6. CASE Skip(p)
  <2>1. /\ proc[p].pc = "next" /\ Done(Now(p).cell) /\ rows' = rows
        /\ proc'[p].pc = "next" /\ proc'[p].at = proc[p].at + 1
        /\ proc'[p].aborted = proc[p].aborted
    BY <1>6, BetweenDoes, AbortedStays
  <2>2. j > proc[p].at \/ (proc[p].aborted /\ j < proc[p].at)
    BY <1>1, <1>2, <2>1
  <2> QED
    BY <1>2, <1>3, <1>4, <2>1, <2>2
<1>7. CASE End(p)
  <2>1. /\ proc[p].pc = "next" /\ ~Left(p) /\ rows' = rows
        /\ proc'[p].at = proc[p].at /\ proc'[p].aborted = proc[p].aborted
    BY <1>7, BetweenDoes, AbortedStays
  <2>2. proc[p].aborted /\ j < proc[p].at
    BY <1>1, <1>2, <2>1
  <2> QED
    BY <1>3, <1>4, <2>1, <2>2
<1>8. CASE Kill(p)
  <2>1. proc'[p].pc = "down" /\ rows' = rows
    BY <1>8, BetweenDoes
  <2> QED
    BY <1>3, <1>4, <2>1
<1>9. CASE Begin(p) \/ Enter(p)
  <2>1. /\ proc[p].pc \in {"next", "enter"} /\ proc'[p].at = proc[p].at /\ rows' = rows
        /\ proc'[p].pc \in {"enter", "run", "leave"} /\ proc'[p].aborted = proc[p].aborted
    BY <1>9, BeginDoes, EnterDoes, AbortedStays
  <2> QED
    BY <1>1, <1>3, <1>4, <2>1
<1>10. CASE Work(p) \/ Raise(p)
  <2>1. /\ proc[p].pc \in {"enter", "run"} /\ proc'[p].at = proc[p].at /\ rows' = rows
        /\ proc'[p].pc = "record" => ~Now(p).leaves
        /\ proc'[p].aborted = proc[p].aborted
    BY <1>10, WorkDoes, RaiseDoes, AbortedStays
  <2>2. j = proc[p].at => proc'[p].pc # "record"
    BY <1>1, <1>2, <2>1
  <2> QED
    BY <1>1, <1>3, <1>4, <2>1, <2>2
<1>11. CASE Leave(p)
  <2>1. /\ proc[p].pc = "leave" /\ proc'[p].at = proc[p].at /\ rows' = rows
        /\ proc'[p].aborted = proc[p].aborted
    BY <1>11, LeaveDoes, AbortedStays
  <2>2. CASE j = proc[p].at
    BY <1>1, <1>2, <1>11, <2>2
  <2>3. CASE j # proc[p].at
    BY <1>1, <1>3, <1>4, <2>1, <2>3
  <2> QED
    BY <2>2, <2>3
<1>12. ASSUME proc[p].pc = "record", RowsGrow(p)
       PROVE  j # proc[p].at /\ ~Done(plan[p][j].cell)'
  <2>1. j # proc[p].at /\ proc[p].at \in 1..Len(plan[p])
    BY <1>1, <1>2, <1>12, AtNow DEF AtWork
  <2>2. plan[p][j].cell # Now(p).cell \/ plan[p][j].cell = NoCell
    <3> SUFFICES ASSUME plan[p][j].cell = Now(p).cell, plan[p][j].cell # NoCell PROVE FALSE
      OBVIOUS
    <3>1. j = proc[p].at
      BY <1>2, <2>1, OneKey
    <3> QED
      BY <2>1, <3>1
  <2>3. plan[p][j].cell \in DOMAIN rows' => plan[p][j].cell \in DOMAIN rows
    BY <1>12, <2>2 DEF RowsGrow
  <2> QED
    BY <1>1, <2>1, <2>3 DEF Done
<1>13. CASE Record(p)
  <2>1. /\ proc[p].pc = "record" /\ proc'[p].aborted = proc[p].aborted
        /\ \/ proc'[p].pc = "refused"
           \/ proc'[p].pc = "next" /\ proc'[p].at = proc[p].at + 1
    BY <1>13, RecordDoes, AbortedStays
  <2>2. j # proc[p].at /\ ~Done(plan[p][j].cell)'
    BY <1>12, <1>13, <2>1, StepOnRows
  <2>3. j > proc[p].at \/ (proc[p].aborted /\ j < proc[p].at)
    BY <1>1, <2>1, <2>2
  <2> QED
    BY <1>2, <1>3, <2>1, <2>2, <2>3
<1>14. CASE Escape(p)
  <2>1. /\ proc[p].pc \in {"next", "record"} /\ proc'[p].pc = "next" /\ proc'[p].aborted = TRUE
        /\ proc'[p].at \in (proc[p].at + 1)..(Len(plan[p]) + 1)
        /\ rows' = rows \/ proc[p].pc = "record"
    BY <1>14, EscapeDoes DEF Beyond
  <2>2. ~Done(plan[p][j].cell)'
    BY <1>4, <1>12, <1>14, <2>1, StepOnRows
  <2>3. j < proc'[p].at \/ j = proc'[p].at \/ j > proc'[p].at
    BY <1>2, <2>1
  <2> QED
    BY <1>3, <2>1, <2>2, <2>3
<1> QED
  BY <1>5, <1>6, <1>7, <1>8, <1>9, <1>10, <1>11, <1>13, <1>14

\* What is written where somebody removes will be removed.
LEMMA PendingByWrite ==
  ASSUME PlannedWell, RemovedLater, CoresInv, Places, NEW p \in Proc, plan' = plan,
         \/ Launch(p) \/ Skip(p) \/ Begin(p) \/ Enter(p) \/ Work(p) \/ Raise(p)
         \/ Leave(p) \/ Record(p) \/ Escape(p) \/ End(p) \/ Kill(p),
         proc[p].pc = "run", OpNow(p) = "write",
         NEW path \in Paths(Now(p)), NEW k \in 1..Len(plan[p]), plan[p][k].leaves,
         path \in Paths(plan[p][k])
  PROVE  Pending(p, path)'
<1>1. /\ proc[p].at \in 1..Len(plan[p]) /\ Now(p) = plan[p][proc[p].at]
      /\ Now(p).enters /\ ~Done(Now(p).cell) /\ Len(plan[p]) \in Nat
  BY AtNow, WriteIsFirst, BodiesOfPlan DEF AtWork, Places, Placed
<1>2. /\ rows' = rows
      /\ \/ proc'[p].pc = "down"
         \/ proc'[p].at = proc[p].at /\ (proc'[p].pc = "record" => ~Now(p).leaves)
  <2>1. Work(p) \/ Raise(p) \/ Kill(p)
    BY DEF Launch, Skip, Begin, Enter, Leave, Record, Escape, End, Ended
  <2>2. CASE Work(p)
    BY <2>2, WorkDoes
  <2>3. CASE Raise(p)
    BY <2>3, RaiseDoes
  <2>4. CASE Kill(p)
    BY <2>4, BetweenDoes
  <2> QED
    BY <2>1, <2>2, <2>3, <2>4
<1>3. ASSUME NEW j \in 1..Len(plan[p]), path \in Paths(plan[p][j]), plan[p][j].leaves,
             ~Done(plan[p][j].cell),
             proc'[p].pc # "down" =>
               j > proc'[p].at \/ (j = proc'[p].at /\ proc'[p].pc # "record")
      PROVE  Pending(p, path)'
  BY <1>2, <1>3 DEF Pending, Paths, Done
<1>4. CASE Now(p).leaves
  BY <1>1, <1>2, <1>3, <1>4
<1>5. CASE ~Now(p).leaves
  <2>1. Paths(plan[p][proc[p].at]) \cap Paths(plan[p][k]) # {}
    BY <1>1
  <2>2. PICK j \in (proc[p].at + 1)..Len(plan[p]) :
          plan[p][j].leaves /\ plan[p][j].cell = NoCell /\ plan[p][j].dirs = Now(p).dirs
    <3>1. plan[p][proc[p].at].enters /\ ~plan[p][proc[p].at].leaves /\ plan \in Workload
      BY <1>1, <1>5 DEF CoresInv
    <3>2. \E j \in (proc[p].at + 1)..Len(plan[p]) :
            /\ plan[p][j].leaves /\ plan[p][j].cell = NoCell
            /\ plan[p][j].dirs = plan[p][proc[p].at].dirs
      <4>1. \A h, i \in 1..Len(plan[p]) :
              /\ plan[p][h].enters /\ ~plan[p][h].leaves
              /\ plan[p][i].leaves /\ Paths(plan[p][h]) \cap Paths(plan[p][i]) # {}
              => \E j \in (h + 1)..Len(plan[p]) :
                   /\ plan[p][j].leaves /\ plan[p][j].cell = NoCell
                   /\ plan[p][j].dirs = plan[p][h].dirs
        BY <3>1, Zenon DEF RemovedLater
      <4> QED
        BY <1>1, <2>1, <3>1, <4>1
    <3> QED
      BY <1>1, <3>2
  <2>3. path \in Paths(plan[p][j])
    BY <2>2 DEF Paths
  <2>4. ~Done(NoCell)
    BY DEF Done, CoresInv
  <2>5. j \in 1..Len(plan[p]) /\ j > proc[p].at
    BY <1>1, <2>2
  <2> QED
    BY <1>2, <1>3, <2>2, <2>3, <2>4, <2>5
<1> QED
  BY <1>4, <1>5

\* The removal that got through has removed every directory that was entered.
LEMMA LeaveEmpties ==
  ASSUME PlannedWell, CoresInv, Places, NEW p \in Proc, Leave(p), "leftover" \notin happened',
         NEW d \in 1..Len(Now(p).dirs), Now(p).enters => d <= proc[p].step,
         NEW path, path = Now(p).dirs[d].path
  PROVE  Empty(path)'
<1> DEFINE entered == IF Now(p).enters THEN proc[p].step ELSE Len(Now(p).dirs)
           gone == {Now(p).dirs[e].path : e \in 1..entered}
<1>1. proc[p].pc = "leave" /\ dirs' = Without(gone)
  BY LeaveDoes
<1>2. WellShaped(Now(p))
  BY <1>1, AtNow DEF AtWork
<1>3. d \in 1..entered
  <2>1. Now(p).enters => proc[p].step \in 0..Len(Now(p).dirs)
    BY <1>1 DEF Places, Placed
  <2>2. Len(Now(p).dirs) \in Nat
    BY <1>2 DEF WellShaped, NamesApart
  <2> QED
    BY <2>1, <2>2
<1>4. path \in gone
  BY <1>3
<1> HIDE DEF gone
<1>5. path \notin DOMAIN dirs'
  BY <1>1, <1>4 DEF Without
<1> QED
  BY <1>5 DEF Empty

\* A directory that a later step of the plan removes is empty, or will be.
LEMMA RemovalIsPending ==
  ASSUME PlannedWell, RemovedLater, CoresInv, Places, NEW p \in Proc, MovesAlone(p),
         OnDisk(p, dirs'), Tidy(p), "leftover" \notin happened',
         \/ Launch(p) \/ Skip(p) \/ Begin(p) \/ Enter(p) \/ Work(p) \/ Raise(p)
         \/ Leave(p) \/ Record(p) \/ Escape(p) \/ End(p) \/ Kill(p),
         NEW k \in 1..Len(plan[p]), plan[p][k].leaves, NEW path \in Paths(plan[p][k]),
         path \in Private(p)
  PROVE  Empty(path)' \/ Pending(p, path)' \/ Excused(plan[p][k])'
<1>1. plan' = plan /\ happened \subseteq happened'
  BY DEF MovesAlone
<1>2. Empty(path) \/ Pending(p, path) \/ Excused(plan[p][k])
  BY <1>1 DEF Tidy
<1>3. ASSUME Excused(plan[p][k]) PROVE Excused(plan[p][k])'
  BY <1>1, <1>3 DEF Excused
<1>4. ASSUME Empty(path) PROVE Empty(path)' \/ Pending(p, path)'
  <2>1. CASE proc[p].pc = "run" /\ OpNow(p) = "write" /\ WorksIn(p, path)
    <3>1. path \in Paths(Now(p))
      BY <2>1 DEF WorksIn
    <3> QED
      BY <1>1, <2>1, <3>1, PendingByWrite
  <2>2. CASE ~(proc[p].pc = "run" /\ OpNow(p) = "write" /\ WorksIn(p, path))
    BY <1>4, <2>2, EmptyStays
  <2> QED
    BY <2>1, <2>2
<1>5. ASSUME Pending(p, path), ~Pending(p, path)'
      PROVE  Empty(path)' \/ Excused(plan[p][k])'
  <2>1. Leave(p) /\ path \in Paths(Now(p))
    BY <1>1, <1>5, PendingStays
  <2>2. PICK d \in 1..Len(Now(p).dirs) : Now(p).dirs[d].path = path
    BY <2>1, PathOfDir
  <2>3. /\ proc[p].pc = "leave" /\ proc[p].at \in 1..Len(plan[p])
        /\ Now(p) = plan[p][proc[p].at] /\ WellShaped(Now(p))
    BY <2>1, LeaveDoes, AtNow DEF AtWork
  <2>4. CASE Now(p).enters => d <= proc[p].step
    BY <2>1, <2>2, <2>4, LeaveEmpties
  <2>5. CASE Now(p).enters /\ d > proc[p].step
    <3>1. Empty(path) \/ Excused(Now(p))
      BY <1>1, <2>2, <2>3, <2>5 DEF Tidy
    <3>2. CASE Empty(path)
      BY <2>3, <3>2, EmptyStays
    <3>3. CASE Excused(Now(p))
      <4>1. Now(p).dirs = plan[p][k].dirs
        BY <2>1, <2>3, SamePlace DEF AtWork
      <4> QED
        BY <1>3, <3>3, <4>1 DEF Excused
    <3> QED
      BY <3>1, <3>2, <3>3
  <2>6. Now(p).enters => d <= proc[p].step \/ d > proc[p].step
    <3>1. Now(p).enters => proc[p].step \in 0..Len(Now(p).dirs)
      BY <2>3 DEF Places, Placed
    <3> QED
      BY <3>1
  <2> QED
    BY <2>4, <2>5, <2>6
<1> QED
  BY <1>2, <1>3, <1>4, <1>5

\* On the way out of a body, the directories it did not come to are empty.
LEMMA BeyondIsEmpty ==
  ASSUME CellsAssumption, PlannedWell, CoresInv, Places, NEW p \in Proc, MovesAlone(p),
         OnDisk(p, dirs'), Tidy(p), "leftover" \notin happened',
         \/ Launch(p) \/ Skip(p) \/ Begin(p) \/ Enter(p) \/ Work(p) \/ Raise(p)
         \/ Leave(p) \/ Record(p) \/ Escape(p) \/ End(p) \/ Kill(p),
         proc'[p].pc = "leave", Now(p)'.enters, NEW d \in 1..Len(Now(p)'.dirs),
         d > proc'[p].step, NEW path, path = Now(p)'.dirs[d].path, path \in Private(p)
  PROVE  Empty(path)' \/ Excused(Now(p))'
<1>1. plan' = plan /\ happened \subseteq happened'
  BY DEF MovesAlone
<1>2. Begin(p) \/ Work(p) \/ Raise(p)
  <2>1. CASE Launch(p) \/ Skip(p) \/ End(p) \/ Kill(p) \/ Record(p) \/ Escape(p)
    <3>1. proc'[p].pc \in {"next", "done", "aborted", "down", "refused"}
      BY <2>1, BetweenDoes, RecordDoes, EscapeDoes
    <3> QED
      BY <3>1
  <2>2. CASE Enter(p) \/ Leave(p)
    <3>1. proc'[p].pc \in {"enter", "run", "record"}
      BY <2>2, EnterDoes, LeaveDoes
    <3> QED
      BY <3>1
  <2> QED
    BY <2>1, <2>2
<1>3. proc'[p].at = proc[p].at
  BY <1>2, BeginDoes, WorkDoes, RaiseDoes
<1>4. Now(p)' = Now(p)
  BY <1>1, <1>3, SameNow
<1>5. Raise(p) /\ proc[p].pc = "enter"
  <2>1. CASE Begin(p)
    BY <1>4, <2>1, BeginDoes
  <2>2. CASE Work(p)
    <3>1. proc'[p].step = Len(Now(p).dirs) /\ proc[p].pc = "run"
      BY <2>2, WorkDoes
    <3>2. WellShaped(Now(p))
      BY <3>1, AtNow DEF AtWork
    <3>3. Len(Now(p).dirs) \in Nat
      BY <3>2 DEF WellShaped, NamesApart
    <3> QED
      BY <1>4, <3>1, <3>3
  <2>3. CASE Raise(p) /\ proc[p].pc # "enter"
    <3>1. proc'[p].step = Len(Now(p).dirs) /\ proc[p].pc = "run"
      BY <2>3, RaiseDoes
    <3>2. WellShaped(Now(p))
      BY <3>1, AtNow DEF AtWork
    <3>3. Len(Now(p).dirs) \in Nat
      BY <3>2 DEF WellShaped, NamesApart
    <3> QED
      BY <1>4, <3>1, <3>3
  <2> QED
    BY <1>2, <2>1, <2>2, <2>3
<1>6. /\ proc[p].step \in 1..Len(Now(p).dirs) /\ Len(Now(p).dirs) \in Nat /\ d >= proc[p].step
      /\ "raise" \in happened' /\ dirs' \in Partly(p)
  <2>1. /\ proc'[p].step = proc[p].step - 1 /\ "raise" \in happened' /\ dirs' \in Partly(p)
    BY <1>5, RaiseDoes
  <2>2. proc[p].step \in 1..Len(Now(p).dirs) /\ WellShaped(Now(p))
    BY <1>5, AtNow DEF Places, Placed, AtWork
  <2>3. Len(Now(p).dirs) \in Nat
    BY <2>2 DEF WellShaped, NamesApart
  <2> QED
    BY <1>4, <2>1, <2>2, <2>3
<1>7. CASE d = proc[p].step
  <2>0. Typed(Without({path})) /\ path \notin DOMAIN Without({path})
    <3>1. Typed(dirs)
      BY DEF Places
    <3>2. path \notin DOMAIN Without({path})
      BY DEF Without
    <3>3. Typed(Without({path}))
      BY <3>1, WithoutIs
    <3> QED
      BY <3>2, <3>3
  <2>1. \/ dirs' = Without({path})
        \/ dirs' = Stamped(Without({path}), Dir(path, "default"))
    BY <1>4, <1>5, <1>6, <1>7 DEF Partly
  <2>2. CASE dirs' = Without({path})
    BY <2>0, <2>2 DEF Empty
  <2>3. CASE dirs' = Stamped(Without({path}), Dir(path, "default"))
    <3>1. Dir(path, "default").path = path
      BY DEF Dir
    <3> DEFINE none == Without({path})
               dir == Dir(path, "default")
    <3>2. Typed(none) /\ path \notin DOMAIN none /\ dir.path = path
      BY <2>0, <3>1
    <3> HIDE DEF none, dir
    <3>3. Stamped(none, dir)[dir.path].files =
            IF dir.path \in DOMAIN none THEN none[dir.path].files ELSE [i \in 1..PerDir |-> NoFile]
      BY <3>2, StampedIs
    <3>4. Stamped(Without({path}), Dir(path, "default"))[path].files = [i \in 1..PerDir |-> NoFile]
      BY <3>2, <3>3 DEF none, dir
    <3> QED
      BY <2>3, <3>4 DEF Empty
  <2> QED
    BY <2>1, <2>2, <2>3
<1>8. CASE d # proc[p].step
  <2>1. d > proc[p].step /\ Len(Now(p).dirs) > 1
    BY <1>4, <1>6, <1>8
  <2>2. CASE "kill" \in happened'
    BY <1>4, <1>6, <2>1, <2>2 DEF Excused
  <2>3. CASE "kill" \notin happened'
    <3>1. /\ proc[p].at \in 1..Len(plan[p]) /\ Now(p) = plan[p][proc[p].at]
      BY <1>5, AtNow DEF AtWork
    <3>2. ~Inside(p, Now(p), d)
      BY <1>4, <1>5, <1>6, <2>1 DEF Inside
    <3>3. Empty(path)
      BY <1>1, <1>4, <2>1, <2>3, <3>1, <3>2 DEF Tidy
    <3> QED
      BY <1>5, <3>3, EmptyStays
  <2> QED
    BY <2>2, <2>3
<1> QED
  BY <1>7, <1>8

\* Unless something is killed, a body of several directories finds them empty.
LEMMA InsideOrEmpty ==
  ASSUME CellsAssumption, PlannedWell, CoresInv, Places, NEW p \in Proc, MovesAlone(p),
         OnDisk(p, dirs'), Tidy(p), {"leftover", "kill"} \cap happened' = {},
         \/ Launch(p) \/ Skip(p) \/ Begin(p) \/ Enter(p) \/ Work(p) \/ Raise(p)
         \/ Leave(p) \/ Record(p) \/ Escape(p) \/ End(p) \/ Kill(p),
         NEW k \in 1..Len(plan[p]), Len(plan[p][k].dirs) > 1,
         NEW d \in 1..Len(plan[p][k].dirs), NEW path, path = plan[p][k].dirs[d].path,
         path \in Private(p)
  PROVE  Empty(path)' \/ Inside(p, plan[p][k], d)'
<1>1. plan' = plan /\ happened \subseteq happened'
  BY DEF MovesAlone
<1>2. Empty(path) \/ Inside(p, plan[p][k], d)
  BY <1>1 DEF Tidy
<1>3. /\ Len(plan[p][k].dirs) \in Nat /\ path \in Paths(plan[p][k])
  <2>1. WellShaped(plan[p][k])
    BY BodiesOfPlan
  <2>2. Len(plan[p][k].dirs) \in Nat
    BY <2>1 DEF WellShaped, NamesApart
  <2> QED
    BY <2>2, PathOfDir
\* A body with these directories makes and removes them.
<1>4. ASSUME proc[p].pc \in AtWork, Now(p).dirs = plan[p][k].dirs
      PROVE  Now(p).enters /\ Now(p).leaves
  <2>1. WellShaped(Now(p))
    BY <1>4, AtNow
  <2> QED
    BY <1>4, <2>1 DEF WellShaped
<1>5. ASSUME proc[p].pc \in {"enter", "run"}, Now(p).dirs = plan[p][k].dirs,
             proc[p].pc = "run" \/ d < proc[p].step, Enter(p) \/ Work(p) \/ Raise(p)
      PROVE  Inside(p, plan[p][k], d)'
  <2>1. Now(p).leaves /\ proc'[p].at = proc[p].at
    BY <1>4, <1>5, EnterDoes, WorkDoes, RaiseDoes DEF AtWork
  <2>2. Now(p)' = Now(p) /\ plan[p][k]' = plan[p][k]
    BY <1>1, <2>1, SameNow
  <2>3. proc[p].pc = "enter" => proc[p].step \in 1..Len(Now(p).dirs)
    BY DEF Places, Placed
  <2>4. CASE Enter(p)
    <3>1. /\ proc[p].pc = "enter"
          /\ \/ proc'[p].pc = "run"
             \/ proc'[p].pc = "enter" /\ proc'[p].step = proc[p].step + 1
      BY <2>4, EnterDoes
    <3> QED
      BY <1>3, <1>5, <2>2, <2>3, <3>1 DEF Inside
  <2>5. CASE Work(p)
    <3>1. \/ proc'[p].pc = "run"
          \/ proc'[p].pc = "leave" /\ proc'[p].step = Len(Now(p).dirs)
      BY <2>1, <2>5, WorkDoes
    <3> QED
      BY <1>3, <1>5, <2>2, <3>1 DEF Inside
  <2>6. CASE Raise(p)
    <3>1. /\ proc'[p].pc = "leave"
          /\ proc'[p].step = IF proc[p].pc = "run" THEN Len(Now(p).dirs) ELSE proc[p].step - 1
      BY <2>1, <2>6, RaiseDoes
    <3>2. d <= proc'[p].step
      BY <1>3, <1>5, <2>3, <3>1
    <3> QED
      BY <1>5, <2>2, <3>1, <3>2 DEF Inside
  <2> QED
    BY <1>5, <2>4, <2>5, <2>6
<1>6. ASSUME proc[p].pc \in {"enter", "run"}, ~(Enter(p) \/ Work(p) \/ Raise(p))
      PROVE  FALSE
  <2>1. Kill(p)
    BY <1>6 DEF Launch, Skip, Begin, Leave, Record, Escape, End, Ended
  <2> QED
    BY <2>1, BetweenDoes
<1>7. CASE Inside(p, plan[p][k], d)
  <2>1. /\ proc[p].pc \in {"enter", "run", "leave"} /\ Now(p).dirs = plan[p][k].dirs
        /\ \/ proc[p].pc = "run"
           \/ proc[p].pc = "enter" /\ d < proc[p].step
           \/ proc[p].pc = "leave" /\ d <= proc[p].step
    BY <1>7 DEF Inside
  <2>2. CASE proc[p].pc \in {"enter", "run"}
    BY <1>5, <1>6, <2>1, <2>2
  <2>3. CASE proc[p].pc = "leave"
    <3>1. Leave(p) \/ Kill(p)
      BY <2>3 DEF Launch, Skip, Begin, Enter, Work, Raise, Record, Escape, End, Ended
    <3>2. ~Kill(p)
      BY BetweenDoes
    <3> QED
      BY <2>1, <2>3, <3>1, <3>2, LeaveEmpties
  <2> QED
    BY <2>1, <2>2, <2>3
<1>8. CASE Empty(path)
  <2>1. CASE ~(proc[p].pc = "run" /\ OpNow(p) = "write" /\ WorksIn(p, path))
    BY <1>8, <2>1, EmptyStays
  <2>2. CASE proc[p].pc = "run" /\ OpNow(p) = "write" /\ WorksIn(p, path)
    <3>1. Now(p).dirs = plan[p][k].dirs
      BY <1>3, <2>2, SamePlace DEF WorksIn
    <3> QED
      BY <1>5, <1>6, <2>2, <3>1
  <2> QED
    BY <2>1, <2>2
<1> QED
  BY <1>2, <1>7, <1>8

LEMMA TidyAfterStep ==
  ASSUME CellsAssumption, PlannedWell, RemovedLater, CoresInv, Places, NEW p \in Proc,
         MovesAlone(p), OnDisk(p, dirs'), Tidy(p),
         \/ Launch(p) \/ Skip(p) \/ Begin(p) \/ Enter(p) \/ Work(p) \/ Raise(p)
         \/ Leave(p) \/ Record(p) \/ Escape(p) \/ End(p) \/ Kill(p)
  PROVE  Tidy(p)'
<1>1. plan' = plan /\ Private(p)' = Private(p)
  BY SamePlan DEF MovesAlone
<1>2. ASSUME "leftover" \notin happened', NEW k \in 1..Len(plan[p]), plan[p][k].leaves,
             NEW path \in Paths(plan[p][k]), path \in Private(p)
      PROVE  Empty(path)' \/ Pending(p, path)' \/ Excused(plan[p][k])'
  BY <1>2, RemovalIsPending
<1>3. ASSUME "leftover" \notin happened', proc'[p].pc = "leave", Now(p)'.enters,
             NEW d \in 1..Len(Now(p)'.dirs), d > proc'[p].step, NEW path, path = Now(p)'.dirs[d].path,
             path \in Private(p)
      PROVE  Empty(path)' \/ Excused(Now(p))'
  BY <1>3, BeyondIsEmpty
<1>4. ASSUME {"leftover", "kill"} \cap happened' = {}, NEW k \in 1..Len(plan[p]),
             Len(plan[p][k].dirs) > 1, NEW d \in 1..Len(plan[p][k].dirs),
             NEW path, path = plan[p][k].dirs[d].path, path \in Private(p)
      PROVE  Empty(path)' \/ Inside(p, plan[p][k], d)'
  BY <1>4, InsideOrEmpty
<1> QED
  BY <1>1, <1>2, <1>3, <1>4 DEF Tidy, Paths, Empty

LEMMA OthersTidy ==
  ASSUME PlannedWell, CoresInv, Places, NEW p \in Proc, NEW q \in Proc, q # p,
         MovesAlone(p), RowsGrow(p), OnDisk(p, dirs'), Tidy(q)
  PROVE  Tidy(q)'
<1>1. plan' = plan /\ proc'[q] = proc[q] /\ happened \subseteq happened'
  BY DEF MovesAlone
<1>2. ASSUME NEW path \in Private(q), Empty(path) PROVE Empty(path)'
  <2>1. SameDir(dirs', path)
    BY OwnIsLeftAlone
  <2> QED
    BY <1>2, <2>1 DEF SameDir, Empty
<1>3. ASSUME NEW j \in 1..Len(plan[q]), ~Done(plan[q][j].cell)
      PROVE  ~Done(plan[q][j].cell)'
  <2>1. ~(proc[p].pc = "record" /\ plan[q][j].cell = Now(p).cell /\ plan[q][j].cell # NoCell)
    <3> SUFFICES ASSUME proc[p].pc = "record", plan[q][j].cell = Now(p).cell,
                        plan[q][j].cell # NoCell
                 PROVE  FALSE
      OBVIOUS
    <3>1. proc[p].at \in 1..Len(plan[p]) /\ Now(p) = plan[p][proc[p].at]
      BY AtNow DEF AtWork
    <3> QED
      BY <3>1, OneKey
  <2> QED
    BY <1>1, <1>3, <2>1 DEF RowsGrow, Done
<1>4. proc[q].pc = "leave" => proc[q].at \in 1..Len(plan[q])
  BY AtNow DEF AtWork
<1> QED
  BY <1>1, <1>2, <1>3, <1>4, TidyWhereNothingChanges

LEMMA TidyIsKept ==
  ASSUME CellsAssumption, PlannedWell, RemovedLater, TidyInv, [Next]_vars
  PROVE  TidyInv'
<1>1. CoresInv /\ Places /\ \A p \in Proc : Tidy(p)
  BY DEF TidyInv
<1>2. CoresInv' /\ Places'
  BY <1>1, PlacesAreKept
<1>3. ASSUME NEW p \in Proc,
             \/ Launch(p) \/ Skip(p) \/ Begin(p) \/ Enter(p) \/ Work(p) \/ Raise(p)
             \/ Leave(p) \/ Record(p) \/ Escape(p) \/ End(p) \/ Kill(p)
      PROVE  TidyInv'
  <2>1. MovesAlone(p) /\ RowsGrow(p) /\ OnDisk(p, dirs')
    BY <1>1, <1>3, PlacesAfterStep
  <2>2. Tidy(p)'
    BY <1>1, <1>3, <2>1, TidyAfterStep
  <2>3. \A q \in Proc : q # p => Tidy(q)'
    BY <1>1, <2>1, OthersTidy
  <2> QED
    BY <1>2, <2>2, <2>3 DEF TidyInv
<1>4. ASSUME plan' = plan, dirs' = dirs, proc' = proc, happened \subseteq happened',
             \A c \in DOMAIN rows' : c \in DOMAIN rows
      PROVE  TidyInv'
  <2>1. \A path : Empty(path) => Empty(path)'
    BY <1>4 DEF Empty
  <2>2. ASSUME NEW q \in Proc PROVE Tidy(q)'
    <3>1. \A j \in 1..Len(plan[q]) : ~Done(plan[q][j].cell) => ~Done(plan[q][j].cell)'
      BY <1>4 DEF Done
    <3>2. proc[q].pc = "leave" => proc[q].at \in 1..Len(plan[q])
      BY <1>1, AtNow DEF AtWork
    <3> QED
      BY <1>1, <1>4, <2>1, <3>1, <3>2, TidyWhereNothingChanges
  <2> QED
    BY <1>2, <2>2 DEF TidyInv
<1>5. ASSUME NEW c \in DOMAIN rows, Redo(c) PROVE TidyInv'
  BY <1>4, <1>5, RedoDoes
<1>6. CASE UNCHANGED vars
  BY <1>4, <1>6 DEF vars
<1> QED
  BY <1>3, <1>5, <1>6 DEF Next

LEMMA TidyAtFirst ==
  ASSUME CellsAssumption, PlannedWell, Init
  PROVE  TidyInv
<1>1. CoresInv /\ Places
  BY PlacesAtFirst
<1>2. DOMAIN dirs = {} /\ \A p \in Proc : proc[p].pc = "down"
  BY DEF Init, Idle
<1>3. \A path : Empty(path)
  BY <1>2 DEF Empty
<1>4. \A p \in Proc : Tidy(p)
  BY <1>2, <1>3 DEF Tidy
<1> QED
  BY <1>1, <1>4 DEF TidyInv

-----------------------------------------------------------------------------
\* A process that ends with exit status 0 has left no file in a directory that
\* it was to remove and nobody else has in its plan, whatever failed, was given
\* up or was killed in this launch or an earlier one, unless rmtree itself did not
\* get through (working_dir, layout.py:41; the end of repeated_epochs, dom.py:180).
THEOREM NothingIsLeftBehind ==
  ASSUME CellsAssumption, PlannedWell, RemovedLater
  PROVE  Spec => []NoLeftovers
<1>1. Init => TidyInv
  BY TidyAtFirst
<1>2. TidyInv /\ [Next]_vars => TidyInv'
  BY TidyIsKept
<1>3. TidyInv => NoLeftovers
  <2> SUFFICES ASSUME TidyInv, "leftover" \notin happened, NEW p \in Proc, proc[p].pc = "done",
                      NEW k \in 1..Len(plan[p]), plan[p][k].leaves,
                      Len(plan[p][k].dirs) = 1 \/ ~({"kill", "raise"} \subseteq happened),
                      NEW path \in (Paths(plan[p][k]) \cap DOMAIN dirs) \ Shared(p)
               PROVE  \A i \in 1..PerDir : dirs[path].files[i] = NoFile
    BY DEF NoLeftovers
  <2>1. CoresInv /\ Placed(p) /\ Tidy(p)
    BY DEF TidyInv, Places
  <2>2. Empty(path) \/ Pending(p, path) \/ Excused(plan[p][k])
    <3>1. path \in Private(p)
      BY DEF Private, PathsOf, Shared
    <3> QED
      BY <2>1, <3>1 DEF Tidy
  <2>3. ~Excused(plan[p][k])
    <3>1. Len(plan[p][k].dirs) = 1 => ~(Len(plan[p][k].dirs) > 1)
      OBVIOUS
    <3> QED
      BY <3>1, Zenon DEF Excused
  <2>4. ~Pending(p, path)
    <3>1. /\ ~(proc[p].at <= Len(plan[p])) /\ proc[p].at \in Nat /\ Len(plan[p]) \in Nat
          /\ ~proc[p].aborted
      BY <2>1, BodiesOfPlan DEF Placed, Left, CoresInv, Stands
    <3> QED
      BY <3>1 DEF Pending
  <2> QED
    BY <2>2, <2>3, <2>4 DEF Empty
<1> QED
  BY <1>1, <1>2, <1>3, PTL DEF Spec

-----------------------------------------------------------------------------
(* Epochs.                                                                 *)

\* A body that makes no directories leaves the files on disk while it runs.
LEMMA RunsOnFiles ==
  ASSUME CellsAssumption, PlannedWell, CoresInv, Places, NEW p \in Proc,
         \/ Launch(p) \/ Skip(p) \/ Begin(p) \/ Enter(p) \/ Work(p) \/ Raise(p)
         \/ Leave(p) \/ Record(p) \/ Escape(p) \/ End(p) \/ Kill(p),
         proc[p].pc \in AtWork, ~Now(p).enters, ~Now(p).leaves
  PROVE  /\ DOMAIN dirs' = DOMAIN dirs
         /\ \A path \in DOMAIN dirs : \A i \in 1..PerDir : SameFile(dirs', path, i)
<1>1. proc[p].pc \in {"run", "record"}
  BY DEF CoresInv, Stands, Places, Placed, AtWork
<1>2. CASE dirs' = dirs
  BY <1>2 DEF SameFile
<1>3. CASE proc[p].pc = "run" /\ \E m : dirs' = After(p, OpNow(p), m)
  <2>1. Typed(dirs) /\ OpNow(p) \in Op /\ OpNow(p) # "write"
    BY <1>3, OpIsOp, WriteIsFirst DEF Places
  <2> QED
    BY <1>3, <2>1, AfterIs
<1>4. ASSUME dirs' \in Partly(p)
      PROVE  dirs' = dirs \/ (proc[p].pc = "run" /\ \E m : dirs' = After(p, OpNow(p), m))
  BY <1>1, <1>4 DEF Partly
<1>5. CASE Work(p)
  BY <1>3, <1>5, WorkDoes
<1>6. CASE Raise(p)
  BY <1>2, <1>3, <1>4, <1>6, RaiseDoes
<1>7. CASE Kill(p)
  <2>1. dirs' = dirs \/ dirs' \in Partly(p)
    BY <1>1, <1>7 DEF Kill
  <2> QED
    BY <1>2, <1>3, <1>4, <2>1
<1>8. CASE Record(p) \/ Escape(p)
  BY <1>2, <1>8, RecordDoes, EscapeDoes
<1>9. Work(p) \/ Raise(p) \/ Kill(p) \/ Record(p) \/ Escape(p)
  BY <1>1 DEF Launch, Skip, Begin, Enter, Leave, End, Ended
<1> QED
  BY <1>5, <1>6, <1>7, <1>8, <1>9

LEMMA FollowsIs ==
  ASSUME PlannedWell, EpochsInOrder, CoresInv, NEW p \in Proc,
         NEW i \in 1..Len(plan[p]), NEW k \in 1..Len(plan[p]), Follows(plan, p, i, k)
  PROVE  /\ plan[p][i].enters /\ ~plan[p][i].leaves /\ plan[p][i].cell # NoCell
         /\ ~plan[p][k].enters /\ plan[p][k].cell # NoCell
         /\ plan[p][k].dirs = plan[p][i].dirs /\ Paths(plan[p][k]) = Paths(plan[p][i])
         /\ i < k /\ InLedger(plan[p][i].cell) /\ InLedger(plan[p][k].cell)
         /\ HasOp(plan[p][i], "read") /\ HasOp(plan[p][k], "read")
         /\ plan[p][i].cell # plan[p][k].cell
         /\ \A j \in 1..k : plan[p][j].dirs = plan[p][i].dirs /\ j # i =>
              ~plan[p][j].enters /\ ~plan[p][j].leaves
<1>1. /\ plan[p][i].enters /\ ~plan[p][i].leaves /\ plan[p][i].cell # NoCell
      /\ ~plan[p][k].enters /\ plan[p][k].cell # NoCell
      /\ plan[p][k].dirs = plan[p][i].dirs
  BY DEF Follows
<1>2. /\ i < k /\ InLedger(plan[p][i].cell) /\ InLedger(plan[p][k].cell)
      /\ HasOp(plan[p][i], "read") /\ HasOp(plan[p][k], "read")
      /\ \A j \in 1..k : plan[p][j].dirs = plan[p][i].dirs /\ j # i =>
           ~plan[p][j].enters /\ ~plan[p][j].leaves
  BY DEF EpochsInOrder, CoresInv
<1>3. Paths(plan[p][k]) = Paths(plan[p][i])
  BY <1>1 DEF Paths
<1>4. plan[p][i].cell # plan[p][k].cell
  BY <1>1, <1>2, OneKey
<1> QED
  BY <1>1, <1>2, <1>3, <1>4

\* Whoever is at a body in the directory of an arm is still in the experiment.
LEMMA EpochsInOneGo ==
  ASSUME PlannedWell, EpochsInOrder, CoresInv, NEW p \in Proc,
         NEW i \in 1..Len(plan[p]), NEW k \in 1..Len(plan[p]), Follows(plan, p, i, k),
         proc[p].at \in 1..Len(plan[p]), plan[p][proc[p].at].dirs = plan[p][i].dirs
  PROVE  ~GivenUp(p, i) /\ ~GivenUp(p, k)
<1> DEFINE a == proc[p].at
<1>1. /\ i < k /\ Len(plan[p]) \in Nat /\ plan[p][k].cell # NoCell
      /\ \A j \in (i + 1)..Len(plan[p]) : plan[p][j].dirs = plan[p][i].dirs =>
           \A m \in (i + 1)..j : SameExperiment(plan[p][i], plan[p][m])
  BY BodiesOfPlan DEF EpochsInOrder, CoresInv, Follows
<1>2. ASSUME NEW m \in (i + 1)..a PROVE SameExperiment(plan[p][i], plan[p][m])
  <2>1. a \in (i + 1)..Len(plan[p])
    BY <1>1, <1>2
  <2> QED
    BY <1>1, <2>1
<1>3. ~GivenUp(p, i)
  BY <1>1, <1>2 DEF GivenUp
<1>4. ASSUME NEW e \in (k + 1)..a PROVE SameExperiment(plan[p][k], plan[p][e])
  <2>1. k \in (i + 1)..a /\ e \in (i + 1)..a
    BY <1>1
  <2> QED
    BY <1>1, <1>2, <2>1 DEF SameExperiment
<1>5. ~GivenUp(p, k)
  BY <1>1, <1>4 DEF GivenUp
<1> QED
  BY <1>3, <1>5

\* Between the first epoch's row and the later one's, the files stay.
LEMMA EpochsFilesStay ==
  ASSUME CellsAssumption, PlannedWell, EpochsInOrder, CoresInv, Places, NEW p \in Proc,
         OnDisk(p, dirs'),
         \/ Launch(p) \/ Skip(p) \/ Begin(p) \/ Enter(p) \/ Work(p) \/ Raise(p)
         \/ Leave(p) \/ Record(p) \/ Escape(p) \/ End(p) \/ Kill(p),
         NEW i \in 1..Len(plan[p]), NEW k \in 1..Len(plan[p]), Follows(plan, p, i, k),
         plan[p][i].cell \in DOMAIN rows, plan[p][k].cell \notin DOMAIN rows,
         NEW by, AreIn(dirs, plan[p][i], by)
  PROVE  AreIn(dirs', plan[p][i], by)
<1> DEFINE b == plan[p][i]
<1> SUFFICES ASSUME NEW path \in Paths(b)
             PROVE  /\ path \in DOMAIN dirs'
                    /\ \A f \in 1..PerDir : /\ dirs'[path].files[f] # NoFile
                                            /\ dirs'[path].files[f].by = by
  BY DEF AreIn
<1>1. /\ path \in DOMAIN dirs
      /\ \A f \in 1..PerDir : dirs[path].files[f] # NoFile /\ dirs[path].files[f].by = by
  BY DEF AreIn
<1>2. CASE ~WorksIn(p, path)
  <2>1. SameDir(dirs', path)
    BY <1>2 DEF OnDisk
  <2> QED
    BY <1>1, <2>1 DEF SameDir
<1>3. CASE WorksIn(p, path)
  <2>1. /\ proc[p].pc \in AtWork /\ proc[p].at \in 1..Len(plan[p])
        /\ Now(p) = plan[p][proc[p].at] /\ Len(plan[p]) \in Nat
    BY <1>3, AtNow, BodiesOfPlan DEF WorksIn
  <2>2. Now(p).dirs = plan[p][i].dirs
    BY <1>3, SamePlace DEF WorksIn
  <2>3. proc[p].at <= k
    <3>1. proc[p].pc \notin Ended /\ Placed(p)
      BY <2>1 DEF AtWork, Ended, Places
    <3>2. ~GivenUp(p, k)
      BY <2>1, <2>2, EpochsInOneGo
    <3>3. ~(k < proc[p].at)
      BY <3>1, <3>2, FollowsIs DEF Placed
    <3> QED
      BY <2>1, <3>3
  <2>4. proc[p].at # i
    BY <2>1, FollowsIs DEF Places, Placed, Done
  <2>5. ~Now(p).enters /\ ~Now(p).leaves
    <3>1. \A j \in 1..k : plan[p][j].dirs = plan[p][i].dirs /\ j # i =>
            ~plan[p][j].enters /\ ~plan[p][j].leaves
      BY FollowsIs
    <3> QED
      BY <2>1, <2>2, <2>3, <2>4, <3>1
  <2>6. /\ path \in DOMAIN dirs'
        /\ \A f \in 1..PerDir : SameFile(dirs', path, f)
    BY <1>1, <2>1, <2>5, RunsOnFiles
  <2> QED
    BY <1>1, <2>6 DEF SameFile
<1> QED
  BY <1>2, <1>3

\* The later epoch reads all of them.
LEMMA EpochReads ==
  ASSUME CellsAssumption, PlannedWell, EpochsInOrder, CoresInv, NEW p \in Proc, Work(p),
         NEW i \in 1..Len(plan[p]), NEW k \in 1..Len(plan[p]), Follows(plan, p, i, k),
         proc[p].at = k, proc'[p].pc # "run", NEW by, AreIn(dirs, plan[p][i], by)
  PROVE  OfAllFiles(plan[p][k], proc'[p].seen, by)
<1> DEFINE b == plan[p][k]
<1>1. /\ proc[p].pc = "run" /\ Now(p) = b /\ WellShaped(b)
      /\ Len(b.ops) \in Nat /\ proc[p].step \in 1..Len(b.ops)
  BY WorkDoes, AtNow, OpIsOp DEF AtWork
<1>2. /\ ~(proc[p].step < Len(b.ops))
      /\ \E m \in Reach(p) :
           proc'[p].seen = IF OpNow(p) \in {"read", "readUntil"} THEN Found(p, m) ELSE {}
  BY <1>1, WorkDoes
<1>3. OpNow(p) = "read"
  <2>1. \A j \in 1..Len(b.ops) : b.ops[j] = "read" => j = Len(b.ops)
    BY <1>1 DEF WellShaped
  <2>2. HasOp(b, "read")
    BY FollowsIs
  <2> QED
    BY <1>1, <1>2, <2>1, <2>2 DEF HasOp, OpNow
<1>4. proc'[p].seen = Found(p, Total(b))
  BY <1>1, <1>2, <1>3 DEF Reach
<1>5. Paths(b) = Paths(plan[p][i])
  BY FollowsIs
<1>6. ASSUME NEW x \in Found(p, Total(b))
      PROVE  x.by = by /\ x.path \in Paths(b) /\ x.file \in 1..PerDir
  <2>1. /\ x.path \in Paths(b) /\ x.file \in 1..PerDir
        /\ x.by = dirs[x.path].files[x.file].by
    BY <1>1, FoundIs
  <2> QED
    BY <1>5, <2>1 DEF AreIn
<1>7. ASSUME NEW path \in Paths(b), NEW f \in 1..PerDir
      PROVE  \E x \in Found(p, Total(b)) : x.path = path /\ x.file = f
  <2>1. Place(b, path, f) <= Total(b)
    BY <1>1, PlacesOfFiles
  <2>2. dirs[path].files[f] # NoFile
    BY <1>5 DEF AreIn
  <2>3. \A y \in Paths(Now(p)) : \A j \in 1..PerDir :
          Place(Now(p), y, j) <= Total(b) /\ dirs[y].files[j] # NoFile =>
            \E x \in Found(p, Total(b)) : x.path = y /\ x.file = j
    BY FoundIs
  <2> HIDE DEF b
  <2> QED
    BY <1>1, <2>1, <2>2, <2>3
<1>8. OfAllFiles(b, Found(p, Total(b)), by)
  <2> HIDE DEF b
  <2> QED
    BY <1>6, <1>7 DEF OfAllFiles
<1> QED
  BY <1>4, <1>8

\* What the epoch that is being recorded has seen, it has seen of the first.
LEMMA EpochSeenStays ==
  ASSUME CellsAssumption, PlannedWell, EpochsInOrder, CoresInv, Places, NEW p \in Proc, plan' = plan,
         \/ Launch(p) \/ Skip(p) \/ Begin(p) \/ Enter(p) \/ Work(p) \/ Raise(p)
         \/ Leave(p) \/ Record(p) \/ Escape(p) \/ End(p) \/ Kill(p),
         NEW i \in 1..Len(plan[p]), NEW k \in 1..Len(plan[p]), Follows(plan, p, i, k),
         NEW by,
         plan[p][k].cell \notin DOMAIN rows => AreIn(dirs, plan[p][i], by),
         proc[p].at = k /\ proc[p].pc \in {"leave", "record"} /\ ~proc[p].failed =>
           OfAllFiles(plan[p][k], proc[p].seen, by),
         proc'[p].at = k, proc'[p].pc \in {"leave", "record"}, ~proc'[p].failed
  PROVE  OfAllFiles(plan[p][k], proc'[p].seen, by)
<1>1. Begin(p) \/ Work(p) \/ Raise(p) \/ Leave(p)
  <2>1. CASE Launch(p) \/ Skip(p) \/ End(p) \/ Kill(p) \/ Record(p) \/ Escape(p)
    <3>1. proc'[p].pc \in {"next", "done", "aborted", "down", "refused"}
      BY <2>1, BetweenDoes, RecordDoes, EscapeDoes
    <3> QED
      BY <3>1
  <2>2. CASE Enter(p)
    <3>1. proc'[p].pc \in {"enter", "run"}
      BY <2>2, EnterDoes
    <3> QED
      BY <3>1
  <2> QED
    BY <2>1, <2>2
<1>2. proc[p].at = k /\ Now(p) = plan[p][k]
  <2>1. proc'[p].at = proc[p].at
    BY <1>1, BeginDoes, WorkDoes, RaiseDoes, LeaveDoes
  <2> QED
    BY <2>1 DEF Now
<1>3. CASE Begin(p)
  <2>1. HasOp(plan[p][k], "read") /\ ~plan[p][k].enters
    BY FollowsIs
  <2>2. Len(<<>>) = 0
    OBVIOUS
  <2>3. plan[p][k].ops # <<>>
    BY <2>1, <2>2 DEF HasOp
  <2> QED
    BY <1>2, <1>3, <2>1, <2>3, BeginDoes
<1>4. CASE Work(p)
  <2>1. proc[p].pc = "run"
    BY <1>4, WorkDoes
  <2>2. plan[p][k].cell \notin DOMAIN rows
    BY <1>2, <2>1, FollowsIs DEF Places, Placed, Done, AtWork
  <2> QED
    BY <1>2, <1>4, <2>2, EpochReads
<1>5. CASE Raise(p)
  BY <1>5, RaiseDoes
<1>6. CASE Leave(p)
  BY <1>2, <1>6, LeaveDoes
<1> QED
  BY <1>1, <1>3, <1>4, <1>5, <1>6

\* The row of the later epoch comes after the row of the first.
LEMMA EpochsRecordedInOrder ==
  ASSUME PlannedWell, EpochsInOrder, CoresInv, Places, NEW p \in Proc, RowsGrow(p),
         NEW i \in 1..Len(plan[p]), NEW k \in 1..Len(plan[p]), Follows(plan, p, i, k),
         plan[p][k].cell \in DOMAIN rows => plan[p][i].cell \in DOMAIN rows,
         plan[p][k].cell \in DOMAIN rows'
  PROVE  plan[p][i].cell \in DOMAIN rows
<1>1. CASE plan[p][k].cell \in DOMAIN rows
  BY <1>1
<1>2. CASE plan[p][k].cell \notin DOMAIN rows
  <2>1. proc[p].pc = "record" /\ plan[p][k].cell = Now(p).cell /\ plan[p][k].cell # NoCell
    BY <1>2 DEF RowsGrow
  <2>2. proc[p].at \in 1..Len(plan[p]) /\ Now(p) = plan[p][proc[p].at]
    BY <2>1, AtNow DEF AtWork
  <2>3. proc[p].at = k
    BY <2>1, <2>2, OneKey
  <2>4. /\ i < proc[p].at /\ plan[p][i].cell # NoCell
        /\ plan[p][proc[p].at].dirs = plan[p][i].dirs
    BY <2>3, FollowsIs
  <2>5. ~GivenUp(p, i)
    BY <2>2, <2>4, EpochsInOneGo
  <2> QED
    BY <2>1, <2>4, <2>5 DEF Places, Placed, Ended
<1> QED
  BY <1>1, <1>2

LEMMA EpochAfterStep ==
  ASSUME CellsAssumption, PlannedWell, EpochsInOrder, FilesInv, NEW p \in Proc,
         \/ Launch(p) \/ Skip(p) \/ Begin(p) \/ Enter(p) \/ Work(p) \/ Raise(p)
         \/ Leave(p) \/ Record(p) \/ Escape(p) \/ End(p) \/ Kill(p),
         NEW i \in 1..Len(plan[p]), NEW k \in 1..Len(plan[p]), Follows(plan, p, i, k),
         EpochOf(p, i, k)
  PROVE  EpochOf(p, i, k)'
<1> DEFINE first == plan[p][i]
           later == plan[p][k]
<1>1. CoresInv /\ Places /\ Stock(p)
  BY DEF FilesInv
<1>2. /\ MovesAlone(p) /\ RowsGrow(p) /\ OnDisk(p, dirs') /\ plan' = plan
      /\ DOMAIN rows \subseteq DOMAIN rows'
  BY <1>1, PlacesAfterStep DEF MovesAlone, RowsGrow
<1>3. later.cell \in DOMAIN rows' => first.cell \in DOMAIN rows
  BY <1>1, <1>2, EpochsRecordedInOrder DEF EpochOf
<1>4. CASE first.cell \in DOMAIN rows
  <2>1. rows'[first.cell] = rows[first.cell]
    <3>1. ~(proc[p].pc = "record" /\ first.cell = Now(p).cell)
      BY <1>1, <1>4, FollowsIs DEF Places, Placed, Done, AtWork
    <3> QED
      BY <1>2, <1>4, <3>1 DEF RowsGrow
  <2> SUFFICES ASSUME rows[first.cell].ok
               PROVE  LET by == rows[first.cell].by IN
                      /\ later.cell \notin DOMAIN rows' => AreIn(dirs', first, by)
                      /\ proc'[p].at = k /\ proc'[p].pc \in {"leave", "record"} /\ ~proc'[p].failed =>
                           OfAllFiles(later, proc'[p].seen, by)
                      /\ later.cell \in DOMAIN rows' /\ rows'[later.cell].ok =>
                           OfAllFiles(later, rows'[later.cell].seen, by)
    BY <1>2, <1>3, <1>4, <2>1 DEF EpochOf, GoodRow, Seen
  <2> DEFINE by == rows[first.cell].by
  <2>2. /\ later.cell \notin DOMAIN rows => AreIn(dirs, first, by)
        /\ proc[p].at = k /\ proc[p].pc \in {"leave", "record"} /\ ~proc[p].failed =>
             OfAllFiles(later, proc[p].seen, by)
        /\ later.cell \in DOMAIN rows /\ rows[later.cell].ok =>
             OfAllFiles(later, rows[later.cell].seen, by)
    BY <1>4 DEF EpochOf, GoodRow, Seen
  <2>3. ASSUME later.cell \notin DOMAIN rows' PROVE AreIn(dirs', first, by)
    <3>1. later.cell \notin DOMAIN rows
      BY <1>2, <2>3
    <3> QED
      BY <1>1, <1>2, <1>4, <2>2, <3>1, EpochsFilesStay
  <2>4. ASSUME proc'[p].at = k, proc'[p].pc \in {"leave", "record"}, ~proc'[p].failed
        PROVE  OfAllFiles(later, proc'[p].seen, by)
    BY <1>1, <1>2, <2>2, <2>4, EpochSeenStays
  <2>5. ASSUME later.cell \in DOMAIN rows', rows'[later.cell].ok
        PROVE  OfAllFiles(later, rows'[later.cell].seen, by)
    <3>1. CASE RowAdded(p) /\ later.cell = Now(p).cell
      <4>1. /\ proc[p].pc = "record" /\ proc[p].at \in 1..Len(plan[p])
            /\ Now(p) = plan[p][proc[p].at] /\ later.cell # NoCell /\ proc[p].failed \in BOOLEAN
        BY <1>1, <3>1, AtNow, FollowsIs DEF RowAdded, AtWork, CoresInv, Stands
      <4>2. proc[p].at = k
        BY <1>1, <3>1, <4>1, OneKey
      <4>3. /\ rows'[later.cell].ok = ~proc[p].failed
            /\ rows'[later.cell].seen = IF proc[p].failed THEN {} ELSE proc[p].seen
        <5>1. /\ rows'[Now(p).cell].ok = ~proc[p].failed
              /\ rows'[Now(p).cell].seen = IF proc[p].failed THEN {} ELSE proc[p].seen
          BY <3>1 DEF RowAdded
        <5> QED
          BY <3>1, <5>1
      <4>4. ~proc[p].failed /\ rows'[later.cell].seen = proc[p].seen
        BY <2>5, <4>1, <4>3
      <4> QED
        BY <2>2, <4>1, <4>2, <4>4
    <3>2. CASE ~(RowAdded(p) /\ later.cell = Now(p).cell)
      <4>1. later.cell \in DOMAIN rows /\ rows'[later.cell] = rows[later.cell]
        <5>1. CASE rows' = rows
          BY <2>5, <5>1
        <5>2. CASE RowAdded(p)
          BY <1>2, <2>5, <3>2, <5>2 DEF RowsGrow
        <5> QED
          BY <1>1, <5>1, <5>2, RowOrNone
      <4> QED
        BY <2>2, <2>5, <4>1
    <3> QED
      BY <3>1, <3>2
  <2> QED
    BY <2>3, <2>4, <2>5
<1>5. CASE first.cell \notin DOMAIN rows
  <2>1. later.cell \notin DOMAIN rows'
    BY <1>3, <1>5
  <2> SUFFICES ASSUME first.cell \in DOMAIN rows', rows'[first.cell].ok
               PROVE  /\ proc'[p].pc \notin {"leave", "record"}
                      /\ AreIn(dirs', first, rows'[first.cell].by)
    BY <1>2, <2>1 DEF EpochOf, GoodRow
  <2>2. /\ proc[p].pc = "record" /\ first.cell = Now(p).cell /\ first.cell # NoCell
    BY <1>2, <1>5 DEF RowsGrow
  <2>3. RowAdded(p)
    BY <1>1, <1>5, RowOrNone
  <2>4. proc[p].at \in 1..Len(plan[p]) /\ Now(p) = plan[p][proc[p].at]
    BY <1>1, <2>2, AtNow DEF AtWork
  <2>5. proc[p].at = i /\ Now(p) = first
    BY <1>1, <2>2, <2>4, OneKey
  <2>6. /\ rows'[first.cell].ok = ~proc[p].failed /\ rows'[first.cell].by = Execution(p)
        /\ dirs' = dirs /\ proc'[p].pc = "next"
    BY <2>2, <2>3 DEF RowAdded
  <2>7. Filled(p)
    <3>1. first.enters /\ ~first.leaves
      BY <1>1, FollowsIs
    <3>2. proc[p].failed \in BOOLEAN
      BY <1>1 DEF CoresInv, Stands
    <3> QED
      BY <2>2, <2>5, <2>6, <3>1, <3>2 DEF Filled
  <2>8. AreIn(dirs, first, Execution(p))
    <3> SUFFICES ASSUME NEW path \in Paths(first)
                 PROVE  /\ path \in DOMAIN dirs
                        /\ \A f \in 1..PerDir : /\ dirs[path].files[f] # NoFile
                                                /\ dirs[path].files[f].by = Execution(p)
      BY DEF AreIn
    <3>1. PICK d \in 1..Len(first.dirs) : first.dirs[d].path = path
      BY PathOfDir
    <3>2. path \in Private(p)
      BY <1>1, <2>2, CellsArePrivate
    <3>3. Stocked(p, first.dirs[d])
      BY <1>1, <2>2, <2>5, <3>1, <3>2 DEF Stock, AtWork
    <3> QED
      BY <2>7, <3>1, <3>3 DEF Stocked
  <2> QED
    BY <2>6, <2>8
<1> QED
  BY <1>4, <1>5

\* Where nothing is done to an arm's rows, files and process, its epochs stay.
LEMMA EpochStays ==
  ASSUME NEW p \in Proc, plan' = plan, proc'[p] = proc[p],
         NEW i \in 1..Len(plan[p]), NEW k \in 1..Len(plan[p]), EpochOf(p, i, k),
         \A path \in Paths(plan[p][i]) : SameDir(dirs', path),
         \A j \in {i, k} : LET c == plan[p][j].cell IN
           /\ c \in DOMAIN rows' <=> c \in DOMAIN rows
           /\ c \in DOMAIN rows => rows'[c] = rows[c]
  PROVE  EpochOf(p, i, k)'
<1> DEFINE first == plan[p][i]
           later == plan[p][k]
<1>1. /\ first.cell \in DOMAIN rows' <=> first.cell \in DOMAIN rows
      /\ first.cell \in DOMAIN rows => rows'[first.cell] = rows[first.cell]
      /\ later.cell \in DOMAIN rows' <=> later.cell \in DOMAIN rows
      /\ later.cell \in DOMAIN rows => rows'[later.cell] = rows[later.cell]
  OBVIOUS
<1>2. \A by : AreIn(dirs, first, by) => AreIn(dirs', first, by)
  BY DEF AreIn, SameDir
<1> QED
  BY <1>1, <1>2 DEF EpochOf, GoodRow, Seen

LEMMA EpochOfOthers ==
  ASSUME PlannedWell, EpochsInOrder, CoresInv, Places, NEW p \in Proc,
         MovesAlone(p), RowsGrow(p), OnDisk(p, dirs'), NEW q \in Proc, q # p,
         NEW i \in 1..Len(plan[q]), NEW k \in 1..Len(plan[q]), Follows(plan, q, i, k),
         EpochOf(q, i, k)
  PROVE  EpochOf(q, i, k)'
<1>1. plan' = plan /\ proc'[q] = proc[q]
  BY DEF MovesAlone
<1>2. plan[q][i].cell # NoCell /\ plan[q][k].cell # NoCell
  BY FollowsIs
<1>3. \A path \in Paths(plan[q][i]) : SameDir(dirs', path)
  BY <1>2, CellsArePrivate, OwnIsLeftAlone
<1>4. ASSUME NEW j \in {i, k}
      PROVE  LET c == plan[q][j].cell IN
             /\ c \in DOMAIN rows' <=> c \in DOMAIN rows
             /\ c \in DOMAIN rows => rows'[c] = rows[c]
  <2> DEFINE c == plan[q][j].cell
  <2>1. ~(proc[p].pc = "record" /\ c = Now(p).cell /\ c # NoCell)
    <3> SUFFICES ASSUME proc[p].pc = "record", c = Now(p).cell, c # NoCell PROVE FALSE
      OBVIOUS
    <3>1. proc[p].at \in 1..Len(plan[p]) /\ Now(p) = plan[p][proc[p].at]
      BY AtNow DEF AtWork
    <3>2. j \in 1..Len(plan[q])
      OBVIOUS
    <3> QED
      BY <3>1, <3>2, OneKey
  <2> QED
    BY <2>1 DEF RowsGrow
<1> QED
  BY <1>1, <1>3, <1>4, EpochStays

LEMMA EpochsAreKept ==
  ASSUME CellsAssumption, PlannedWell, EpochsInOrder, EpochInv, [Next]_vars
  PROVE  EpochInv'
<1>1. FilesInv /\ CoresInv /\ Places
  BY DEF EpochInv, FilesInv
<1>2. FilesInv'
  BY <1>1, FilesAreKept
<1>3. ASSUME NEW p \in Proc,
             \/ Launch(p) \/ Skip(p) \/ Begin(p) \/ Enter(p) \/ Work(p) \/ Raise(p)
             \/ Leave(p) \/ Record(p) \/ Escape(p) \/ End(p) \/ Kill(p)
      PROVE  EpochInv'
  <2>1. MovesAlone(p) /\ RowsGrow(p) /\ OnDisk(p, dirs')
    BY <1>1, <1>3, PlacesAfterStep
  <2>2. plan' = plan /\ happened \subseteq happened'
    BY <2>1 DEF MovesAlone
  <2>3. ASSUME "redo" \notin happened', NEW q \in Proc,
               NEW i \in 1..Len(plan[q]), NEW k \in 1..Len(plan[q]), Follows(plan, q, i, k)
        PROVE  EpochOf(q, i, k)'
    <3>1. EpochOf(q, i, k)
      BY <2>2, <2>3 DEF EpochInv
    <3>2. CASE q = p
      BY <1>1, <1>3, <2>3, <3>1, <3>2, EpochAfterStep
    <3>3. CASE q # p
      BY <1>1, <2>1, <2>3, <3>1, <3>3, EpochOfOthers
    <3> QED
      BY <3>2, <3>3
  <2> QED
    BY <1>2, <2>2, <2>3 DEF EpochInv
<1>4. ASSUME NEW c \in DOMAIN rows, Redo(c) PROVE EpochInv'
  <2>1. "redo" \in happened'
    BY <1>4, RedoDoes
  <2> QED
    BY <1>2, <2>1 DEF EpochInv
<1>5. CASE UNCHANGED vars
  <2>1. plan' = plan /\ dirs' = dirs /\ rows' = rows /\ proc' = proc /\ happened' = happened
    BY <1>5 DEF vars
  <2>2. ASSUME "redo" \notin happened', NEW q \in Proc,
               NEW i \in 1..Len(plan[q]), NEW k \in 1..Len(plan[q]), Follows(plan, q, i, k)
        PROVE  EpochOf(q, i, k)'
    <3>1. EpochOf(q, i, k)
      BY <2>1, <2>2 DEF EpochInv
    <3>2. \A path : SameDir(dirs', path)
      BY <2>1 DEF SameDir
    <3> QED
      BY <2>1, <3>1, <3>2, EpochStays
  <2> QED
    BY <1>2, <2>1, <2>2 DEF EpochInv
<1> QED
  BY <1>3, <1>4, <1>5 DEF Next

LEMMA EpochsAtFirst ==
  ASSUME CellsAssumption, PlannedWell, Init
  PROVE  EpochInv
<1>1. DOMAIN rows = {}
  BY DEF Init
<1> QED
  BY <1>1, FilesAtFirst DEF EpochInv, EpochOf, GoodRow

\* Two readers of all files of an execution have seen the same.
LEMMA AllFilesAreTheSame ==
  ASSUME NEW b, NEW c, Paths(b) = Paths(c), NEW s, NEW t, NEW by,
         OfAllFiles(b, s, by), OfAllFiles(c, t, by)
  PROVE  {<<x.by, x.path, x.file>> : x \in s} = {<<x.by, x.path, x.file>> : x \in t}
<1>1. ASSUME NEW x \in s PROVE \E y \in t : <<y.by, y.path, y.file>> = <<x.by, x.path, x.file>>
  <2>1. x.by = by /\ x.path \in Paths(c) /\ x.file \in 1..PerDir
    BY DEF OfAllFiles
  <2>2. PICK y \in t : y.path = x.path /\ y.file = x.file
    BY <2>1 DEF OfAllFiles
  <2>3. y.by = by
    BY <2>2 DEF OfAllFiles
  <2> QED
    BY <2>1, <2>2, <2>3
<1>2. ASSUME NEW y \in t PROVE \E x \in s : <<x.by, x.path, x.file>> = <<y.by, y.path, y.file>>
  <2>1. y.by = by /\ y.path \in Paths(b) /\ y.file \in 1..PerDir
    BY DEF OfAllFiles
  <2>2. PICK x \in s : x.path = y.path /\ x.file = y.file
    BY <2>1 DEF OfAllFiles
  <2>3. x.by = by
    BY <2>2 DEF OfAllFiles
  <2> QED
    BY <2>1, <2>2, <2>3
<1> QED
  BY <1>1, <1>2

-----------------------------------------------------------------------------
\* The epochs of an arm with good rows read the same files, written by the same
\* epoch 0, whatever is killed and launched again between them, as long as nobody
\* deletes a row (repeated_epochs, experiments/dom.py:157).
THEOREM EpochsReadTheSameFiles ==
  ASSUME CellsAssumption, PlannedWell, EpochsInOrder
  PROVE  Spec => []EpochsAgree
<1>1. Init => EpochInv
  BY EpochsAtFirst
<1>2. EpochInv /\ [Next]_vars => EpochInv'
  BY EpochsAreKept
<1>3. EpochInv => EpochsAgree
  <2> SUFFICES ASSUME EpochInv, "redo" \notin happened, NEW b \in Planned, NEW c \in Planned,
                      GoodRow(b), HasOp(b, "write"), ~b.leaves,
                      GoodRow(c), ~HasOp(c, "write"), Paths(b) = Paths(c)
               PROVE  {<<x.by, x.path, x.file>> : x \in Seen(b)}
                        = {<<x.by, x.path, x.file>> : x \in Seen(c)}
    BY DEF EpochsAgree
  <2>1. CoresInv /\ Places /\ RowsOfOwnFiles
    BY DEF EpochInv, FilesInv
  <2>2. PICK p \in Proc : \E i \in 1..Len(plan[p]) : b = plan[p][i]
    BY DEF Planned
  <2>3. PICK i \in 1..Len(plan[p]) : b = plan[p][i]
    BY <2>2
  <2>4. PICK q \in Proc : \E k \in 1..Len(plan[q]) : c = plan[q][k]
    BY DEF Planned
  <2>5. PICK k \in 1..Len(plan[q]) : c = plan[q][k]
    BY <2>4
  <2>6. b.cell # NoCell /\ c.cell # NoCell
    BY <2>1 DEF GoodRow, Places
  <2>7. WellShaped(b) /\ WellShaped(c)
    BY <2>1, <2>3, <2>5, BodiesOfPlan
  <2>8. b.enters /\ ~c.enters
    BY <2>7 DEF WellShaped
  <2>9. PICK path : path \in Paths(b)
    <3>1. 1 \in 1..Len(b.dirs)
      BY <2>7 DEF WellShaped, NamesApart
    <3> QED
      BY <3>1 DEF Paths
  <2>10. p = q /\ b.dirs = c.dirs
    BY <2>1, <2>3, <2>5, <2>6, <2>9, OnePlace
  <2>11. Follows(plan, p, i, k)
    BY <2>3, <2>5, <2>6, <2>8, <2>10 DEF Follows
  <2>12. OfAllFiles(c, Seen(c), rows[b.cell].by)
    BY <2>3, <2>5, <2>10, <2>11 DEF EpochInv, EpochOf
  <2>13. HasOp(b, "read")
    BY <2>1, <2>3, <2>10, <2>5, <2>11, FollowsIs
  <2>14. OfAllFiles(b, Seen(b), rows[b.cell].by)
    BY <2>1, <2>13 DEF RowsOfOwnFiles, OfOwnFiles, OfAllFiles
  <2> QED
    BY <2>12, <2>14, AllFilesAreTheSame
<1> QED
  BY <1>1, <1>2, <1>3, PTL DEF Spec

-----------------------------------------------------------------------------
\* All of it for the experiments as they are: whatever cells of the catalogue are
\* planned, once each, with whatever parameters and in whatever order, a good row
\* is of the cell's own files, cold if they were flushed, read on the cores the
\* cell is about, the epochs of an arm read the same files, and a process that
\* ends with exit status 0 leaves nothing in directories of its own.
THEOREM CellsOfExperiments ==
  ASSUME CellsAssumption, NEW classes, FromExperiments(classes), KeysApart
  PROVE  Spec => [](TypeOK /\ OwnFiles /\ ColdRead /\ OwnCores /\ EpochsAgree /\ NoLeftovers)
<1>1. PlannedWell /\ WellPlanned /\ EpochsInOrder /\ RemovedLater
  BY ExperimentsPlanWell, ShapedIsMade
<1>2. Spec => []TypeOK
  BY <1>1, TypesOfCells
<1>3. Spec => []OwnFiles
  BY <1>1, RowsAreOfOwnFiles
<1>4. Spec => []ColdRead
  BY <1>1, FlushedFilesAreCold
<1>5. Spec => []OwnCores
  BY <1>1, CoresAreGivenBack
<1>6. Spec => []EpochsAgree
  BY <1>1, EpochsReadTheSameFiles
<1>7. Spec => []NoLeftovers
  BY <1>1, NothingIsLeftBehind
<1> QED
  BY <1>2, <1>3, <1>4, <1>5, <1>6, <1>7, PTL
=============================================================================
