------------------------------ MODULE Campaign ------------------------------
(***************************************************************************)
(* The campaign scripts (slurm/run_campaign.sh, slurm/reset.sh) and the    *)
(* jobs they submit or sweep up after.  run_campaign.sh hands one job after *)
(* another to sbatch, each depending on the one before it; Slurm runs what *)
(* is ready.  A running job appends to its own results file and may be     *)
(* preempted and requeued.  reset.sh looks at the queue once, then moves   *)
(* the results files into an archive, one by one.                          *)
(* sbatch, squeue and scancel are Slurm's; they are modelled from how the  *)
(* scripts use them.                                                       *)
(***************************************************************************)
EXTENDS Naturals, FiniteSets

CONSTANTS
  Items,         \* jobs of a campaign (nine in the code)
  MaxCampaigns,  \* bound on how often run_campaign.sh is started
  MaxJobs,       \* bound on the jobs sbatch accepts in a behaviour
  MaxRequeues,   \* bound on the preemptions of a behaviour
  Orderly,       \* is a campaign started only when no job is queued or running?
  SqueueFails    \* may squeue fail, which reset.sh takes for an empty queue?

ASSUME CampaignAssumption ==
  /\ Items \in Nat
  /\ MaxCampaigns \in Nat
  /\ MaxJobs \in Nat
  /\ MaxRequeues \in Nat
  /\ Orderly \in BOOLEAN
  /\ SqueueFails \in BOOLEAN

\* The k-th job of the c-th campaign.
Job == (1..MaxCampaigns) \X (1..Items)

NoJob == <<0, 0>>

VARIABLES
  script,     \* run_campaign.sh: idle, or the item it submits next
  previous,   \* its variable of that name
  started,    \* how often it was started
  job,        \* the state of each job as Slurm sees it
  after,      \* the job each job's dependency names
  scratch,    \* jobs with a results file in the scratch directory
  archived,   \* jobs with a results file in the archive
  reset,      \* where reset.sh stands
  toMove,     \* the results files it has listed and not yet moved
  overtaken,  \* campaigns that reset.sh did not see and swept (a history variable)
  requeues    \* preemptions so far (bounds the behaviour, no part of the code)

submission == <<script, previous, started>>
slurm == <<job, after, requeues>>
sweep == <<archived, reset, toMove, overtaken>>
vars == <<submission, slurm, scratch, sweep>>

\* What squeue lists: queued and running jobs.
Live == {j \in Job : job[j] \in {"pending", "running"}}

Ended == {"ok", "failed", "cancelled"}

Running == {j \in Job : job[j] = "running"}

Init ==
  /\ script = 0
  /\ previous = NoJob
  /\ started = 0
  /\ job = [j \in Job |-> "none"]
  /\ after = [j \in Job |-> NoJob]
  /\ scratch = {}
  /\ archived = {}
  /\ reset = "idle"
  /\ toMove = {}
  /\ overtaken = {}
  /\ requeues = 0

-----------------------------------------------------------------------------
(* run_campaign.sh.                                                        *)

\* The user starts the script, and answers "y" if it finds rows of superseded code.
StartScript ==
  /\ script = 0
  /\ started < MaxCampaigns
  /\ Orderly => Live = {}
  /\ started' = started + 1
  /\ script' = 1
  /\ previous' = NoJob
  /\ overtaken' = IF reset = "idle" THEN overtaken ELSE overtaken \cup {started + 1}
  /\ UNCHANGED <<slurm, scratch, archived, reset, toMove>>

\* A bug Chain could have: `previous` is lost, as if submit ran in a subshell.
ChainLost(j) == previous' = previous

\* Another one: the id is counted on by one, and names a job yet to come.
ChainAhead(j) == previous' = <<j[1], j[2] + 1>>

Chain(j) == previous' = j

More == script \in 1..Items

\* submit: sbatch --dependency=afterany:$previous.
Submit ==
  LET j == <<started, script>> IN
  /\ More
  /\ Cardinality({k \in Job : job[k] # "none"}) < MaxJobs
  /\ job' = [job EXCEPT ![j] = "pending"]
  /\ after' = [after EXCEPT ![j] = previous]
  /\ Chain(j)
  /\ script' = script + 1
  /\ UNCHANGED <<started, requeues, scratch, sweep>>

\* A submission is rejected, and set -e ends the script there.
Reject ==
  /\ More
  /\ script' = 0
  /\ previous' = NoJob
  /\ UNCHANGED <<started, slurm, scratch, sweep>>

Submitted ==
  /\ script = Items + 1
  /\ script' = 0
  /\ previous' = NoJob
  /\ UNCHANGED <<started, slurm, scratch, sweep>>

-----------------------------------------------------------------------------
(* Slurm and the jobs.                                                     *)

\* A bug Released could have: afterok instead of afterany.
ReleasedByOk(j) == after[j] # NoJob => job[after[j]] = "ok"

\* afterany: the job it names has ended, however.
Released(j) == after[j] # NoJob => job[after[j]] \in Ended

Begin(j) ==
  /\ job[j] = "pending"
  /\ Released(j)
  /\ job' = [job EXCEPT ![j] = "running"]
  /\ UNCHANGED <<submission, after, requeues, scratch, sweep>>

\* Ledger.append opens results_<job>.jsonl anew for each row.
Record(j) ==
  /\ job[j] = "running"
  /\ j \notin scratch
  /\ scratch' = scratch \cup {j}
  /\ UNCHANGED <<submission, slurm, sweep>>

\* The job ends by itself, or at its time limit, or by scancel.
End(j, outcome) ==
  /\ job[j] = "running"
  /\ job' = [job EXCEPT ![j] = outcome]
  /\ UNCHANGED <<submission, after, requeues, scratch, sweep>>

\* scancel of a job that has not started yet.
Cancel(j) ==
  /\ job[j] = "pending"
  /\ job' = [job EXCEPT ![j] = "cancelled"]
  /\ UNCHANGED <<submission, after, requeues, scratch, sweep>>

\* Preempted: #SBATCH --requeue puts the job back into the queue.
Requeue(j) ==
  /\ job[j] = "running"
  /\ requeues < MaxRequeues
  /\ requeues' = requeues + 1
  /\ job' = [job EXCEPT ![j] = "pending"]
  /\ UNCHANGED <<submission, after, scratch, sweep>>

-----------------------------------------------------------------------------
(* reset.sh.                                                               *)

\* A bug Unused could have: only running jobs are counted.
UnusedByRunning == Running = {}

\* squeue -u $USER lists nothing.
Unused == Live = {}

\* The campaigns with a job in the queue or still to be submitted.
InProgress == {j[1] : j \in Live} \cup (IF script > 0 THEN {started} ELSE {})

\* The only look at the queue; with a live job the script refuses and ends.  A
\* squeue that fails prints no line to count, which looks like an empty queue.
StartReset ==
  /\ reset = "idle"
  /\ \/ Unused /\ overtaken' = overtaken \cup (IF script > 0 THEN {started} ELSE {})
     \/ SqueueFails /\ overtaken' = overtaken \cup InProgress
  /\ reset' = "list"
  /\ UNCHANGED <<submission, slurm, scratch, archived, toMove>>

\* ledgers=$(ls results*.jsonl run*.log)
List ==
  /\ reset = "list"
  /\ toMove' = scratch
  /\ reset' = "move"
  /\ UNCHANGED <<submission, slurm, scratch, archived, overtaken>>

\* mv, file by file, into archive/<timestamp>/.
Move(j) ==
  /\ reset = "move"
  /\ j \in toMove
  /\ toMove' = toMove \ {j}
  /\ scratch' = scratch \ {j}
  /\ archived' = archived \cup {j}
  /\ UNCHANGED <<submission, slurm, reset, overtaken>>

\* The leftover directories and the copied module tree go last.
Clear ==
  /\ reset = "move"
  /\ toMove = {}
  /\ reset' = "idle"
  /\ UNCHANGED <<submission, slurm, scratch, archived, toMove, overtaken>>

\* reset.sh is interrupted, or a mv fails under set -e.
Interrupt ==
  /\ reset # "idle"
  /\ reset' = "idle"
  /\ toMove' = {}
  /\ UNCHANGED <<submission, slurm, scratch, archived, overtaken>>

Script == StartScript \/ Submit \/ Reject \/ Submitted

Slurm(j) ==
  Begin(j) \/ Record(j) \/ Cancel(j) \/ Requeue(j)
  \/ \E outcome \in {"ok", "failed"} : End(j, outcome)

Reset == StartReset \/ List \/ Clear \/ Interrupt \/ \E j \in Job : Move(j)

Next == Script \/ Reset \/ \E j \in Job : Slurm(j)

Spec == Init /\ [][Next]_vars

\* A job that may start starts, and no job runs for ever: each has a time limit.
Fairness ==
  \A j \in Job :
    WF_vars(Begin(j)) /\ WF_vars(\E outcome \in {"ok", "failed"} : End(j, outcome))

FairSpec == Spec /\ Fairness

-----------------------------------------------------------------------------
(* Properties.                                                             *)

TypeOK ==
  /\ script \in 0..(Items + 1)
  /\ previous \in Job \cup {NoJob}
  /\ started \in 0..MaxCampaigns
  /\ job \in [Job -> {"none", "pending", "running"} \cup Ended]
  /\ after \in [Job -> Job \cup {NoJob}]
  /\ scratch \subseteq Job /\ archived \subseteq Job /\ toMove \subseteq Job
  /\ reset \in {"idle", "list", "move"}
  /\ overtaken \subseteq 1..MaxCampaigns
  /\ requeues \in 0..MaxRequeues

\* When a campaign is started only in an empty queue (Orderly), no two jobs
\* measure at the same time, or they "measure each other's interference"
\* (run_campaign.sh:8-11, 40-46): a preempted job holds back its successor, a
\* rejected submission leaves no second chain.  The one exception: afterany
\* takes a job cancelled in the queue for an ended one, so cancelling a job in
\* the middle of the chain lets the one behind it start early.
OneAtATime ==
  \A j, k \in Running :
    j # k =>
      /\ j[1] = k[1]
      /\ \E m \in Job : m[1] = j[1] /\ job[m] = "cancelled"
                         /\ m[2] \in (j[2]..k[2]) \cup (k[2]..j[2])

\* Once a results file was archived, no job of its campaign is left to append
\* to it or beside it, now or by a later requeue or submission (reset.sh:21-36),
\* unless that campaign overtook the reset: it was being submitted when reset.sh
\* looked at the queue or after that, or squeue failed and hid its jobs.
ArchivedIsOver ==
  \A j \in archived : j[1] \in overtaken \/ \A k \in Live : k[1] # j[1]

\* Every job that was submitted gets its turn and ends, whatever becomes of the
\* jobs before it (run_campaign.sh:40-41, "afterany, not afterok").
EveryJobEnds == \A j \in Job : job[j] = "pending" ~> job[j] \in Ended
=============================================================================
