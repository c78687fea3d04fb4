------------------------------- MODULE MCCells -------------------------------
(***************************************************************************)
(* Small plans for Cells: two cells of each experiment one after the other *)
(* in one process, and the ranks of two jobs of different width.           *)
(***************************************************************************)
EXTENDS CellPlans

Alone(bodies) == [p \in Proc |-> IF p = 1 THEN bodies ELSE <<>>]

Single == {
  Alone(Preflight \o <<DomCutoff("1M", 64, 0), DomCutoff("1M", 64, 1)>>),
  Alone(<<DomFootprint("dom", 4), DomFootprint("ost", 4)>>),
  Alone(<<FlushCost("ost", 4), FlushCost("dom_flush", 4)>>),
  Alone(<<FlushCost("dom_noflush", 4), TailLatency("dom", 4)>>),
  Alone(RepeatedEpochs("dom", 3) \o <<DomFootprint("dom", 4)>>),
  Alone(<<StripeGrid("fpw", 4, 8, 16, 0), StripeGrid("fpw", 4, 8, 16, 1)>>),
  Alone(<<WritePath("one_large", 16, 0), WritePath("one_large", 16, 1)>>),
  Alone(<<CoresVsThroughput(8, 2, 0), DomCutoff("1M", 64, 0)>>),
  Alone(<<PoolSelection("flash", 8, 0), PoolSelection("flash", 8, 1)>>),
  Alone(<<BottleneckBudget("large", "wide", 25, 0),
          BottleneckBudget("large", "wide", 25, 1)>>),
  Alone(<<MixedClasses("per_class", "dom", "ost", 0),
          MixedClasses("per_class", "dom", "ost", 1)>>),
  Alone(<<Probe("dom", TRUE, "none"), Probe("dom", TRUE, "reopen")>>),
  Alone(<<Probe("dom", FALSE, "none"), Probe("ost", TRUE, "none")>>)}

Together(one, two) == [p \in Proc |-> CASE p = 1 -> one [] p = 2 -> two]

\* A rank of a two-wide job beside one of a three-wide job, and two ranks of one
\* job.
Wide == {
  Together(<<MdsScaling("ost", 2, 0), MdsScaling("dom", 2, 0)>>,
           <<MdsScaling("dom", 3, 0)>>),
  Together(<<NeighbourCost("minimal", 2, 0), NeighbourCost("wide", 2, 0)>>,
           <<NeighbourCost("wide", 2, 1)>>)}

\* Two ranks of a job, from their start-up check on.
Starting == {Together(Preflight \o <<MdsScaling("dom", 2, 0)>>,
                      Preflight \o <<MdsScaling("dom", 2, 1)>>)}

Plans == Single \cup Wide

\* The theorems are about plans like these; whether names tell their directories
\* apart is for the run to show.
ASSUME PlansAreWell == Shaped /\ KeysApart /\ RemovedLater /\ EpochsInOrder
=============================================================================
