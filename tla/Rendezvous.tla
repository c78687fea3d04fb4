----------------------------- MODULE Rendezvous -----------------------------
(***************************************************************************)
(* The multi-node experiments (experiments/multinode.py): the ranks of a   *)
(* job write their files, meet at a barrier of marker files in the shared  *)
(* scratch directory, and read at the same time, once per arm.  The batch  *)
(* script (slurm/multi.sbatch) sweeps the job's own markers before it      *)
(* starts the ranks.  Several jobs run side by side; a job may be killed   *)
(* and requeued under its id; a rank may die alone.                        *)
(***************************************************************************)
EXTENDS Naturals

CONSTANTS
  Job,          \* job ids
  Nodes,        \* number of ranks of a job; 0 if only its start-up is of interest
  Arms,         \* number of arms of the experiment (two in the code)
  Faults,       \* the kinds of fault that may happen
  MaxLaunches,  \* bound on the launches, per job
  MaxFaults     \* bound on the faults of a behaviour

FaultKind == {"killJob", "rankDies", "writeFails", "readFails"}

ASSUME RendezvousAssumption ==
  /\ Nodes \in [Job -> Nat]
  /\ Arms \in Nat
  /\ Faults \subseteq FaultKind
  /\ MaxLaunches \in [Job -> Nat]
  /\ MaxFaults \in Nat

\* A rank of a job, which is also what its rows and markers are named after.
Client == UNION {{j} \X (0..(Nodes[j] - 1)) : j \in Job}

Ranks(j) == {c \in Client : c[1] = j}

Arm == 1..Arms

Peers(c) == Ranks(c[1])

VARIABLES
  marker,    \* marker[c][a]: c's marker file for arm a exists
  row,       \* row[c][a]: the outcome the ledger holds, and the launch it is from
  pc,        \* where a rank stands
  arm,       \* the arm it is at
  expired,   \* its deadline at the barrier has passed
  launch,    \* launches of a job so far
  faults     \* faults so far (bounds the behaviour, no part of the code)

vars == <<marker, row, pc, arm, expired, launch, faults>>

NoRow == [outcome |-> "none", launch |-> 0]

Fault(kind) ==
  /\ kind \in Faults
  /\ faults < MaxFaults
  /\ faults' = faults + 1

-----------------------------------------------------------------------------
Init ==
  /\ marker = [c \in Client |-> [a \in Arm |-> FALSE]]
  /\ row = [c \in Client |-> [a \in Arm |-> NoRow]]
  /\ pc = [c \in Client |-> "down"]
  /\ arm = [c \in Client |-> 1]
  /\ expired = [c \in Client |-> FALSE]
  /\ launch = [j \in Job |-> 0]
  /\ faults = 0

\* Two bugs Sweep could have: it is left out, or it takes every job's markers.
SweepNothing(j) == UNCHANGED marker

SweepEverything(j) == marker' = [c \in Client |-> [a \in Arm |-> FALSE]]

\* rm -f barrier_${SLURM_JOB_ID}_*
Sweep(j) ==
  marker' = [c \in Client |-> IF c[1] = j THEN [a \in Arm |-> FALSE] ELSE marker[c]]

\* The batch script: sweep, then srun starts the ranks.
Launch(j) ==
  /\ launch[j] < MaxLaunches[j]
  /\ \A c \in Ranks(j) : pc[c] = "down"
  /\ launch' = [launch EXCEPT ![j] = @ + 1]
  /\ Sweep(j)
  /\ pc' = [c \in Client |-> IF c[1] = j THEN "next" ELSE pc[c]]
  /\ arm' = [c \in Client |-> IF c[1] = j THEN 1 ELSE arm[c]]
  /\ UNCHANGED <<row, expired, faults>>

\* measured(): an arm whose cell has a row, failed or not, is not run again ...
Skip(c) ==
  /\ pc[c] = "next"
  /\ arm[c] \in Arm
  /\ row[c][arm[c]].outcome # "none"
  /\ arm' = [arm EXCEPT ![c] = @ + 1]
  /\ UNCHANGED <<marker, row, pc, expired, launch, faults>>

\* ... any other one starts with a fresh directory and the writes.
Begin(c) ==
  /\ pc[c] = "next"
  /\ arm[c] \in Arm
  /\ row[c][arm[c]].outcome = "none"
  /\ pc' = [pc EXCEPT ![c] = "write"]
  /\ UNCHANGED <<marker, row, arm, expired, launch, faults>>

\* A bug Recorded could have: the failed arm takes the next one with it.
RecordedSkipsOne(c, outcome) ==
  /\ row' = [row EXCEPT ![c][arm[c]] = [outcome |-> outcome, launch |-> launch[c[1]]]]
  /\ pc' = [pc EXCEPT ![c] = "next"]
  /\ arm' = [arm EXCEPT ![c] = @ + 2]

\* measured() appends the cell's row and the loop goes on to the next arm.
Recorded(c, outcome) ==
  /\ row' = [row EXCEPT ![c][arm[c]] = [outcome |-> outcome, launch |-> launch[c[1]]]]
  /\ pc' = [pc EXCEPT ![c] = "next"]
  /\ arm' = [arm EXCEPT ![c] = @ + 1]

\* The directory, the writes, evict or the marker file fail.
WriteFails(c) ==
  /\ pc[c] = "write"
  /\ Fault("writeFails")
  /\ Recorded(c, "error")
  /\ UNCHANGED <<marker, expired, launch>>

\* The files are written and evicted: _rendezvous leaves the marker and takes
\* the time.
Arrive(c) ==
  /\ pc[c] = "write"
  /\ marker' = [marker EXCEPT ![c][arm[c]] = TRUE]
  /\ expired' = [expired EXCEPT ![c] = FALSE]
  /\ pc' = [pc EXCEPT ![c] = "wait"]
  /\ UNCHANGED <<row, arm, launch, faults>>

\* The peers' markers are looked for one by one; while the job runs none goes
\* away, so what one look finds was there at its end.
AllArrived(c) == \A d \in Peers(c) : marker[d][arm[c]]

Pass(c) ==
  /\ pc[c] = "wait"
  /\ AllArrived(c)
  /\ pc' = [pc EXCEPT ![c] = "read"]
  /\ UNCHANGED <<marker, row, arm, expired, launch, faults>>

\* The look finds a marker missing; whatever appears from here on is seen by
\* the next look only ...
Miss(c) ==
  /\ pc[c] = "wait"
  /\ ~AllArrived(c)
  /\ pc' = [pc EXCEPT ![c] = "missed"]
  /\ UNCHANGED <<marker, row, arm, expired, launch, faults>>

\* ... if there is one: time.sleep before the deadline, RuntimeError after it.
Sleep(c) ==
  /\ pc[c] = "missed"
  /\ ~expired[c]
  /\ pc' = [pc EXCEPT ![c] = "wait"]
  /\ UNCHANGED <<marker, row, arm, expired, launch, faults>>

\* A bug TimeOut could have: a rank that gives up waits for a last peer.
TimeOutOnceAlone(c) ==
  /\ pc[c] = "missed"
  /\ expired[c]
  /\ \A d \in Peers(c) \ {c} : pc[d] # "down"
  /\ Recorded(c, "timeout")
  /\ UNCHANGED <<marker, expired, launch, faults>>

TimeOut(c) ==
  /\ pc[c] = "missed"
  /\ expired[c]
  /\ Recorded(c, "timeout")
  /\ UNCHANGED <<marker, expired, launch, faults>>

\* Time passes the deadline.
Expire(c) ==
  /\ pc[c] \in {"wait", "missed"}
  /\ ~expired[c]
  /\ expired' = [expired EXCEPT ![c] = TRUE]
  /\ UNCHANGED <<marker, row, pc, arm, launch, faults>>

Read(c) ==
  /\ pc[c] = "read"
  /\ Recorded(c, "ok")
  /\ UNCHANGED <<marker, expired, launch, faults>>

ReadFails(c) ==
  /\ pc[c] = "read"
  /\ Fault("readFails")
  /\ Recorded(c, "error")
  /\ UNCHANGED <<marker, expired, launch>>

\* The experiment is over for this rank; srun waits for the others.
End(c) ==
  /\ pc[c] = "next"
  /\ arm[c] \notin Arm
  /\ pc' = [pc EXCEPT ![c] = "down"]
  /\ UNCHANGED <<marker, row, arm, expired, launch, faults>>

\* One rank ends early: an exception nobody catches, a lost node.
RankDies(c) ==
  /\ pc[c] # "down"
  /\ Fault("rankDies")
  /\ pc' = [pc EXCEPT ![c] = "down"]
  /\ UNCHANGED <<marker, row, arm, expired, launch>>

\* Preemption, the time limit, scancel.
KillJob(j) ==
  /\ \E c \in Ranks(j) : pc[c] # "down"
  /\ Fault("killJob")
  /\ pc' = [c \in Client |-> IF c[1] = j THEN "down" ELSE pc[c]]
  /\ UNCHANGED <<marker, row, arm, expired, launch>>

Step(c) ==
  \/ Skip(c) \/ Begin(c) \/ Arrive(c)
  \/ Pass(c) \/ Miss(c) \/ Sleep(c) \/ TimeOut(c)
  \/ Read(c) \/ End(c)

Next ==
  \/ \E j \in Job : Launch(j) \/ KillJob(j)
  \/ \E c \in Client :
       Step(c) \/ Expire(c) \/ WriteFails(c) \/ ReadFails(c) \/ RankDies(c)

Spec == Init /\ [][Next]_vars

\* A rank that is up keeps running, and time passes.  Nobody has to launch a job.
Fairness == \A c \in Client : WF_vars(Step(c)) /\ WF_vars(Expire(c))

FairSpec == Spec /\ Fairness

-----------------------------------------------------------------------------
(* Properties.                                                             *)

TypeOK ==
  /\ marker \in [Client -> [Arm -> BOOLEAN]]
  /\ row \in [Client -> [Arm -> [outcome : {"none", "ok", "error", "timeout"},
                                 launch : Nat]]]
  /\ pc \in [Client -> {"down", "next", "write", "wait", "missed", "read"}]
  /\ arm \in [Client -> 1..(Arms + 1)]
  /\ expired \in [Client -> BOOLEAN]
  /\ launch \in [Job -> Nat]
  /\ faults \in 0..MaxFaults
  /\ \A j \in Job : launch[j] <= MaxLaunches[j]
  /\ \A c \in Client : \A a \in Arm : row[c][a].launch <= launch[c[1]]

\* No rank reads an arm while a peer still has to write its files for that arm:
\* every peer has been at this barrier in this launch.  A marker of an earlier
\* launch would let it (multinode.py:15-18, docs/experiments.md:140-145).
NobodyReadsEarly ==
  \A c \in Client : pc[c] = "read" =>
    \A d \in Peers(c) :
      \/ pc[d] = "down"
      \/ arm[d] > arm[c]
      \/ arm[d] = arm[c] /\ pc[d] \in {"wait", "missed", "read"}

\* The good rows of one arm of one job were all measured in the same launch: a
\* requeued job never completes an arm that an earlier launch began.
RowsOfOneLaunch ==
  \A c \in Client : \A d \in Peers(c) : \A a \in Arm :
    row[c][a].outcome = "ok" /\ row[d][a].outcome = "ok" =>
      row[c][a].launch = row[d][a].launch

\* While a rank waits, its own marker is there for its peers to find, whatever
\* other jobs start or sweep meanwhile (slurm/multi.sbatch:47-52).
OwnMarkerStays ==
  \A c \in Client : pc[c] \in {"wait", "missed"} => marker[c][arm[c]]

\* A launched rank ends, even if its peers died on the way: the barrier gives up
\* instead of holding the allocation (docs/experiments.md:147-148).
EveryRankEnds == \A c \in Client : pc[c] # "down" ~> pc[c] = "down"

\* A rank reads an arm only with its peers: none of them has given up waiting at
\* this barrier in this launch (multinode.py:27-28).
NobodyReadsAlone ==
  \A c \in Client : pc[c] = "read" =>
    \A d \in Peers(c) :
      row[d][arm[c]] # [outcome |-> "timeout", launch |-> launch[c[1]]]
=============================================================================
