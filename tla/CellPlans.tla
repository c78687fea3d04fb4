------------------------------ MODULE CellPlans ------------------------------
(***************************************************************************)
(* What holds of the plans of cells as the experiments make them: what the *)
(* theorems about Cells assume of Workload.                                *)
(***************************************************************************)
EXTENDS Cells

Op == {"write", "evict", "stat", "reopen", "read", "readUntil", "restrict", "query"}

Restricts(b, i) == i \in 1..Len(b.ops) /\ b.ops[i] = "restrict"

\* What holds of every body of the experiments: one that makes directories does
\* something there, and cores are given up before the first read.
WellMade(b) ==
  /\ b.ops \in Seq(Op)
  /\ b.enters => b.ops # <<>>
  /\ \A i, k \in 1..Len(b.ops) :
       Restricts(b, k) /\ b.ops[i] \in {"read", "readUntil"} => k < i

\* Plans are sequences of such bodies, and no key belongs to two of them that
\* differ in their use of cores.
WellPlanned ==
  \A work \in Workload :
    /\ \A p \in Proc : Len(work[p]) \in Nat
    /\ \A p \in Proc : \A i \in 1..Len(work[p]) : WellMade(work[p][i])
    /\ \A p, q \in Proc : \A i \in 1..Len(work[p]), k \in 1..Len(work[q]) :
         work[p][i].cell = work[q][k].cell /\ work[p][i].cell # NoCell =>
           HasOp(work[p][i], "restrict") = HasOp(work[q][k], "restrict")

-----------------------------------------------------------------------------
\* One directory or more, all of different names.
NamesApart(places) ==
  /\ Len(places) \in Nat \ {0}
  /\ \A d \in 1..Len(places) : places[d] = Dir(places[d].path, places[d].layout)
  /\ \A d, e \in 1..Len(places) : places[d].path = places[e].path => d = e

\* A body makes its directories if and only if it writes, which it does once and
\* first; what opens its files to measure them it does last.
WellShaped(b) ==
  /\ WellMade(b)
  /\ b.enters \in BOOLEAN /\ b.leaves \in BOOLEAN /\ b.flush \in BOOLEAN
  /\ b.enters <=> HasOp(b, "write")
  /\ \A i \in 1..Len(b.ops) : b.ops[i] = "write" => i = 1
  /\ \A i \in 1..Len(b.ops) : b.ops[i] \in {"read", "readUntil", "stat"} => i = Len(b.ops)
  /\ b.ops = <<>> => b.leaves
  /\ NamesApart(b.dirs)
  /\ Len(b.dirs) > 1 => b.enters /\ b.leaves

Shaped ==
  \A work \in Workload : \A p \in Proc :
    Len(work[p]) \in Nat /\ \A i \in 1..Len(work[p]) : WellShaped(work[p][i])

\* No cell is planned twice: keys tell cells apart.
KeysApart ==
  \A work \in Workload : \A p, q \in Proc :
    \A i \in 1..Len(work[p]), k \in 1..Len(work[q]) :
      work[p][i].cell = work[q][k].cell /\ work[p][i].cell # NoCell => p = q /\ i = k

\* Names tell directories apart: bodies that have one in common, have all in
\* common, under the same layout, and no two processes have one of a cell in
\* common.  Start-up checks of two processes may.
DirsApart ==
  \A work \in Workload : \A p, q \in Proc :
    \A i \in 1..Len(work[p]), k \in 1..Len(work[q]) :
      Paths(work[p][i]) \cap Paths(work[q][k]) # {} =>
        /\ work[p][i].dirs = work[q][k].dirs
        /\ p = q \/ work[p][i].cell = NoCell

\* The plans as they come from the experiments.
PlannedWell == Shaped /\ KeysApart /\ DirsApart

-----------------------------------------------------------------------------
\* Whoever writes removes, or a later step of the plan does, which has no row
\* and so is never left out.
RemovedLater ==
  \A work \in Workload : \A p \in Proc : \A i, k \in 1..Len(work[p]) :
    /\ work[p][i].enters /\ ~work[p][i].leaves
    /\ work[p][k].leaves /\ Paths(work[p][i]) \cap Paths(work[p][k]) # {}
    => \E j \in (i + 1)..Len(work[p]) :
         work[p][j].leaves /\ work[p][j].cell = NoCell /\ work[p][j].dirs = work[p][i].dirs

\* Step k reads what step i wrote and did not remove.
Follows(work, p, i, k) ==
  /\ work[p][i].enters /\ ~work[p][i].leaves /\ work[p][i].cell # NoCell
  /\ ~work[p][k].enters /\ work[p][k].cell # NoCell
  /\ work[p][i].dirs = work[p][k].dirs

\* Such a step comes later; both read all files and have rows that count, and no
\* other step up to it writes or removes anything there.  All that is done there
\* after the first is done by the same experiment, in one go.
EpochsInOrder ==
  \A work \in Workload : \A p \in Proc : \A i, k \in 1..Len(work[p]) :
    Follows(work, p, i, k) =>
      /\ i < k /\ InLedger(work[p][i].cell) /\ InLedger(work[p][k].cell)
      /\ HasOp(work[p][i], "read") /\ HasOp(work[p][k], "read")
      /\ \A j \in 1..k :
           work[p][j].dirs = work[p][i].dirs /\ j # i => ~work[p][j].enters /\ ~work[p][j].leaves
      /\ \A j \in (i + 1)..Len(work[p]) : work[p][j].dirs = work[p][i].dirs =>
           \A m \in (i + 1)..j : SameExperiment(work[p][i], work[p][m])

-----------------------------------------------------------------------------
(* Plans from the catalogue, with which all of the above comes.            *)

\* The start-up check, which every process does.
OfStart(b) == b \in {Preflight[1], Preflight[2]}

\* The cells of a rank of a multi-node job.
OfRank(b) ==
  \E arm, nodes, rank : b = MdsScaling(arm, nodes, rank) \/ b = NeighbourCost(arm, nodes, rank)

\* A step of the loop of repeated_epochs.
OfEpochs(b) == \E arm, epoch : b = Epoch(arm, epoch) \/ b = RemoveEpochs(arm)

\* Any other cell; `classes` has the two layouts of each plan of mixed_classes.
OfOthers(b, classes) ==
  \E u, v, w, x, y :
    \/ b = DomCutoff(u, v, w)
    \/ b = DomFootprint(u, v)
    \/ b = FlushCost(u, v)
    \/ b = TailLatency(u, v)
    \/ b = StripeGrid(u, v, w, x, y)
    \/ b = WritePath(u, v, w)
    \/ b = CoresVsThroughput(u, v, w)
    \/ b = PoolSelection(u, v, w)
    \/ b = BottleneckBudget(u, v, w, x)
    \/ b = MixedClasses(u, classes[u][1], classes[u][2], v)
    \/ v \in BOOLEAN /\ b = Probe(u, v, w)

OfCatalogue(b, classes) == OfStart(b) \/ OfRank(b) \/ OfEpochs(b) \/ OfOthers(b, classes)

OfOneClient(b, classes) == OfEpochs(b) \/ OfOthers(b, classes)

\* From step s on, the plan of p goes through n epochs of an arm and the removal.
LoopAt(work, p, s, n, arm) ==
  /\ s \in Nat \ {0} /\ n \in Nat \ {0} /\ s + n <= Len(work[p])
  /\ \A j \in 0..(n - 1) : work[p][s + j] = Epoch(arm, j)
  /\ work[p][s + n] = RemoveEpochs(arm)

\* Whatever is planned is an experiment's, epochs come in whole loops, and what
\* one client measures alone is in the plan of one process.
FromExperiments(classes) ==
  \A work \in Workload :
    /\ \A p \in Proc : Len(work[p]) \in Nat
    /\ \A p \in Proc : \A i \in 1..Len(work[p]) : OfCatalogue(work[p][i], classes)
    /\ \A p, q \in Proc : \A i \in 1..Len(work[p]), k \in 1..Len(work[q]) :
         OfOneClient(work[p][i], classes) /\ OfOneClient(work[q][k], classes) => p = q
    /\ \A p \in Proc : \A i \in 1..Len(work[p]) :
         OfEpochs(work[p][i]) =>
           \E arm, s, n : LoopAt(work, p, s, n, arm) /\ i \in s..(s + n)
=============================================================================
