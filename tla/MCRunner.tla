------------------------------ MODULE MCRunner ------------------------------
(***************************************************************************)
(* Small campaigns for TLC.  Cells a, b (one sweep with a summary between  *)
(* its two halves, as in stripe_grid) and c (a second experiment of the    *)
(* same job); for multi-node jobs, cells that differ per rank and per arm. *)
(***************************************************************************)
EXTENDS Runner

CONSTANTS a, b, c, d, e, j1, j2, j3, p1, p2

Local == [job |-> NoJob, rank |-> 0, multi |-> FALSE, partition |-> NoPartition]
Single(j, p) == [job |-> j, rank |-> 0, multi |-> FALSE, partition |-> p]
Rank(j, r, p) == [job |-> j, rank |-> r, multi |-> TRUE, partition |-> p]

Sweep == [name |-> "sweep", steps |-> <<a, Summary, b, Summary>>]
Latency == [name |-> "latency", steps |-> <<c>>]
Scaling(steps) == [name |-> "scaling", steps |-> steps]
Neighbour(steps) == [name |-> "neighbour", steps |-> steps]

\* A job that is requeued, and a local run that shares its work.
ResumeWriter == {Single(j1, p1), Local}
ResumePlan ==
  [w \in ResumeWriter |-> IF w.job = j1 THEN <<Sweep, Latency>> ELSE <<Latency>>]

\* One requeued job, alone in its scratch directory.
AloneWriter == {Single(j1, p1)}
AlonePlan == [w \in AloneWriter |-> <<Sweep, Latency>>]

\* At the same time: a multi-node experiment on two ranks, and again on another
\* partition, where one rank is enough to meet the other job's cells.
OverlapWriter == {Rank(j2, 0, p2), Rank(j2, 1, p2), Rank(j3, 0, p1)}
OverlapPlan ==
  [w \in OverlapWriter |->
     IF w.rank = 0 THEN <<Scaling(<<c, Summary>>), Neighbour(<<a>>)>>
     ELSE <<Scaling(<<e>>), Neighbour(<<b>>)>>]
=============================================================================
