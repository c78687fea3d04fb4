------------------------------- MODULE Bodies -------------------------------
(***************************************************************************)
(* The cell bodies of the single-client and multi-client experiments       *)
(* (experiments/dom.py, stripe.py, budget.py, multinode.py) and of         *)
(* slurm/evict_probe.py, one operator each: under which key a body records *)
(* its row, in which directories it works, under which layout, and what it *)
(* does to the files there.  The parameters are those of the loops around  *)
(* the body.  Rows of measurements are left out, and so are file sizes and *)
(* counts, except where they are part of a key or of a directory's name.   *)
(***************************************************************************)
EXTENDS Naturals, Sequences

\* A plan's step that is no cell has this key.
NoCell == <<>>

Dir(path, layout) == [path |-> path, layout |-> layout]

\* What every body has.  `enters`: it starts with fresh_dir; `leaves`: its
\* directories are removed at its end, whatever happened.
Body(cell, use, place, flush, ops) ==
  [cell |-> cell, dirs |-> place, flush |-> flush, ops |-> ops,
   enters |-> use \in {"with", "fresh"}, leaves |-> use \in {"with", "rmtree"}]

\* "with working_dir(path, layout) as directory"
Within(cell, path, layout, flush, ops) ==
  Body(cell, "with", <<Dir(path, layout)>>, flush, ops)

-----------------------------------------------------------------------------
(* runner.py: the check every process does before its first experiment.    *)

\* The granted width is asked for, and has to be one object at least.
Preflight ==
  <<Within(NoCell, <<"preflight">>, "ost", FALSE, <<"write", "query", "evict">>),
    Within(NoCell, <<"preflight_dom">>, "dom", TRUE, <<"write">>)>>

-----------------------------------------------------------------------------
(* experiments/dom.py                                                      *)

DomCutoff(component, size, repeat) ==
  Within(<<"dom_cutoff", component, size, repeat>>, <<"e1", component, size>>, "dom",
         TRUE, <<"write", "evict", "read">>)

DomFootprint(arm, size) ==
  Within(<<"dom_footprint", arm, size>>, <<"e2", arm, size>>, arm,
         TRUE, <<"write", "evict", "stat">>)

\* Three arms over two layouts: "ost", "dom_noflush" and "dom_flush".
FlushCost(arm, size) ==
  Within(<<"flush_cost", arm, size>>, <<"e7", arm, size>>,
         IF arm = "ost" THEN "ost" ELSE "dom",
         arm # "dom_noflush", <<"write", "evict", "read">>)

TailLatency(arm, size) ==
  Within(<<"tail_latency", arm, size>>, <<"e8", arm, size>>, arm,
         TRUE, <<"write", "evict", "read">>)

\* Epoch 0 makes the directory; nobody leaves it before the last epoch is over.
Epoch(arm, epoch) ==
  Body(<<"repeated_epochs", arm, epoch>>, IF epoch = 0 THEN "fresh" ELSE "none",
       <<Dir(<<"e9", arm>>, arm)>>, TRUE,
       IF epoch = 0 THEN <<"write", "evict", "read">> ELSE <<"read">>)

RemoveEpochs(arm) == Body(NoCell, "rmtree", <<Dir(<<"e9", arm>>, arm)>>, TRUE, <<>>)

RepeatedEpochs(arm, epochs) ==
  [i \in 1..epochs |-> Epoch(arm, i - 1)] \o <<RemoveEpochs(arm)>>

-----------------------------------------------------------------------------
(* experiments/stripe.py                                                   *)

\* Whole files and the one shared file are both read in passes, unflushed.
StripeGrid(pattern, size, stripe, threads, repeat) ==
  Within(<<"stripe_grid", pattern, size, stripe, threads, repeat>>,
         <<"e4", pattern, stripe, threads, size>>, "ost",
         FALSE, <<"write", "readUntil">>)

\* Timed to durability; nothing is read back.
WritePath(shape, stripe, repeat) ==
  Within(<<"write_path", shape, stripe, repeat>>, <<"e11", shape, stripe>>, "ost",
         FALSE, <<"write">>)

CoresVsThroughput(stripe, cores, repeat) ==
  Within(<<"cores_vs_throughput", stripe, cores, repeat>>,
         <<"cores", stripe, cores>>, "ost",
         FALSE, <<"write", "restrict", "readUntil">>)

PoolSelection(pool, stripe, repeat) ==
  Within(<<"pool_selection", pool, stripe, repeat>>, <<"pool", pool, stripe>>, "ost",
         FALSE, <<"write", "readUntil">>)

-----------------------------------------------------------------------------
(* experiments/budget.py                                                   *)

\* One read_many per batch, which together read every file once.
BottleneckBudget(shape, arm, compute, repeat) ==
  Within(<<"bottleneck_budget", shape, arm, compute, repeat>>,
         <<"budget", shape, arm, compute>>, "ost",
         FALSE, <<"write", "evict", "read">>)

\* Two directories, entered and left one inside the other.
MixedClasses(plan, small, large, repeat) ==
  Body(<<"mixed_classes", plan, repeat>>, "with",
       <<Dir(<<"e3", plan, "small">>, small), Dir(<<"e3", plan, "large">>, large)>>,
       TRUE, <<"write", "evict", "read">>)

-----------------------------------------------------------------------------
(* experiments/multinode.py; the barrier is the subject of Rendezvous.     *)

\* A bug MdsDir could have: two jobs of different width share a directory.
MdsDirOfRank(arm, nodes, rank) == <<"mds", arm, rank>>

MdsDir(arm, nodes, rank) == <<"mds", arm, nodes, rank>>

MdsScaling(arm, nodes, rank) ==
  Within(<<"mds_scaling", nodes, arm, rank>>, MdsDir(arm, nodes, rank), arm,
         TRUE, <<"write", "evict", "read">>)

\* The key has no node count.
NeighbourCost(label, nodes, rank) ==
  Within(<<"neighbour_cost", label, rank>>, <<"neigh", label, nodes, rank>>, "ost",
         FALSE, <<"write", "evict", "readUntil">>)

-----------------------------------------------------------------------------
(* slurm/evict_probe.py: fresh_dir without a removal; its "row" is a line  *)
(* of the table it prints, so it measures everything again when it is run  *)
(* again.  What its except clause does not name (CalledProcessError) ends  *)
(* it, which is a Kill.                                                    *)

InLedger(cell) == cell[1] # "evictprobe"

Probe(layout, flush, after) ==
  Body(<<"evictprobe", layout, flush, after>>, "fresh",
       <<Dir(<<"evictprobe", layout, flush, after>>, layout)>>, flush,
       IF after = "none" THEN <<"write", "read">> ELSE <<"write", "reopen", "read">>)
=============================================================================
