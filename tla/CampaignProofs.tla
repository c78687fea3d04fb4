---------------------------- MODULE CampaignProofs ----------------------------
(***************************************************************************)
(* The scripts keep jobs and results apart, for any number of campaigns,   *)
(* jobs, preemptions and resets.  Only that no two jobs run at a time needs *)
(* the user to start a campaign in an empty queue (Orderly).               *)
(***************************************************************************)
EXTENDS Campaign, TLAPS

\* A campaign that is started in an empty queue is the only one with live jobs;
\* and whatever is live beside a reset has overtaken it.
Turns ==
  /\ Orderly => \A j \in Live : j[1] = started
  /\ script > 0 => started > 0
  /\ reset # "idle" => InProgress \subseteq overtaken

\* Jobs are submitted in order, each behind the one before it.
Chained ==
  /\ \A j \in Job : job[j] # "none" =>
       /\ j[1] <= started
       /\ j[1] = started /\ script > 0 => j[2] < script
       /\ j[2] > 1 => after[j] = <<j[1], j[2] - 1>>
  /\ \A j, k \in Job : j[1] = k[1] /\ j[2] < k[2] /\ job[k] # "none" => job[j] # "none"
  /\ \A i \in 1..Items : script > 0 /\ i < script => job[<<started, i>>] # "none"
  /\ script > 1 => previous = <<started, script - 1>>

\* A job that has begun has all jobs before it in the chain behind it, or a
\* cancelled one between.
InTurn ==
  \A j, k \in Job : j[1] = k[1] /\ j[2] < k[2] /\ job[k] \in {"running", "ok", "failed"} =>
    \/ job[j] \in Ended
    \/ \E m \in Job : m[1] = j[1] /\ m[2] \in j[2]..k[2] /\ job[m] = "cancelled"

\* Results are those of jobs that were submitted, and archived ones those of
\* campaigns that are over or have overtaken a reset.
Results ==
  /\ toMove \subseteq scratch
  /\ \A j \in scratch : job[j] # "none"
  /\ \A j \in archived :
       j[1] \in overtaken \/ j[1] < started \/ (j[1] = started /\ script = 0)

IInv == TypeOK /\ Turns /\ Chained /\ InTurn /\ Results /\ ArchivedIsOver

-----------------------------------------------------------------------------
LEMMA JobParts ==
  /\ \A j \in Job : j[1] \in 1..MaxCampaigns /\ j[2] \in 1..Items /\ j = <<j[1], j[2]>>
  /\ \A c \in 1..MaxCampaigns : \A i \in 1..Items :
       <<c, i>> \in Job /\ <<c, i>>[1] = c /\ <<c, i>>[2] = i
  /\ \A j \in Job : j # NoJob
BY CampaignAssumption DEF Job, NoJob

LEMMA InitInv == Init => IInv
<1> SUFFICES ASSUME Init PROVE IInv
  OBVIOUS
<1>1. TypeOK
  BY CampaignAssumption DEF Init, TypeOK
<1>2. Turns /\ Chained /\ InTurn /\ Results /\ ArchivedIsOver
  BY DEF Init, Turns, Live, Chained, InTurn, Results, ArchivedIsOver, InProgress
<1> QED
  BY <1>1, <1>2 DEF IInv

LEMMA StepType ==
  ASSUME TypeOK, Turns, [Next]_vars
  PROVE  TypeOK'
<1> USE CampaignAssumption DEF TypeOK
<1>1. CASE StartScript
  BY <1>1 DEF StartScript, slurm
<1>2. CASE Submit
  <2>1. script \in 1..Items /\ started \in 1..MaxCampaigns
    BY <1>2 DEF Submit, More, Turns
  <2>2. <<started, script>> \in Job
    BY <2>1, JobParts
  <2> QED
    BY <1>2, <2>1, <2>2 DEF Submit, Chain, sweep
<1>3. CASE Reject \/ Submitted
  <2>1. /\ script' = 0 /\ previous' = NoJob
        /\ UNCHANGED <<started, job, after, requeues, scratch>>
        /\ UNCHANGED <<archived, reset, toMove, overtaken>>
    BY <1>3 DEF Reject, Submitted, slurm, sweep
  <2> QED
    BY <2>1
<1>4. ASSUME NEW j \in Job, Slurm(j) PROVE TypeOK'
  <2>1. requeues' \in 0..MaxRequeues
    BY <1>4 DEF Slurm, Begin, Record, Cancel, Requeue, End, slurm
  <2>2. job' \in [Job -> {"none", "pending", "running"} \cup Ended]
    BY <1>4 DEF Slurm, Begin, Record, Cancel, Requeue, End, slurm, Ended
  <2>3. scratch' \subseteq Job
    BY <1>4 DEF Slurm, Begin, Record, Cancel, Requeue, End, slurm
  <2> QED
    BY <1>4, <2>1, <2>2, <2>3
    DEF Slurm, Begin, Record, Cancel, Requeue, End, slurm, submission, sweep
<1>5. CASE Reset
  <2>1. InProgress \subseteq 1..MaxCampaigns
    BY JobParts DEF InProgress, Live, Turns
  <2>2. overtaken' \subseteq 1..MaxCampaigns
    BY <1>5, <2>1 DEF Reset, StartReset, List, Move, Clear, Interrupt, InProgress
  <2> QED
    BY <1>5, <2>2 DEF Reset, StartReset, List, Move, Clear, Interrupt, submission, slurm
<1>6. CASE UNCHANGED vars
  BY <1>6 DEF vars, submission, slurm, sweep
<1> QED
  BY <1>1, <1>2, <1>3, <1>4, <1>5, <1>6 DEF Next, Script

-----------------------------------------------------------------------------
\* The user starts a campaign: nothing of it was submitted, and it overtakes a
\* reset that is still at work.
LEMMA StartKeeps ==
  ASSUME IInv, StartScript
  PROVE  Turns' /\ Chained' /\ InTurn' /\ Results' /\ ArchivedIsOver'
<1> USE DEF IInv
<1>1. /\ script = 0 /\ script' = 1 /\ started' = started + 1 /\ started \in Nat
      /\ Orderly => Live = {}
      /\ overtaken \subseteq overtaken'
      /\ reset # "idle" => overtaken' = overtaken \cup {started + 1}
      /\ UNCHANGED <<job, after, scratch, archived, reset, toMove>>
  BY CampaignAssumption DEF StartScript, TypeOK, slurm
<1>2. Live' = Live
  BY <1>1 DEF Live
<1>3. Turns'
  <2>1. InProgress' \subseteq InProgress \cup {started + 1}
    BY <1>1, <1>2 DEF InProgress
  <2> QED
    BY <1>1, <1>2, <2>1 DEF Turns
<1>4. Chained'
  BY <1>1, JobParts DEF Chained
<1>5. InTurn'
  BY <1>1 DEF InTurn
<1>6. Results'
  <2>1. ASSUME NEW j \in archived
        PROVE  \/ j[1] \in overtaken' \/ j[1] < started'
               \/ (j[1] = started' /\ script' = 0)
    <3>1. j[1] \in overtaken \/ j[1] <= started
      BY <2>1, JobParts DEF Results, TypeOK
    <3>2. j[1] \in Nat
      BY <2>1, JobParts DEF TypeOK
    <3> QED
      BY <1>1, <3>1, <3>2
  <2> QED
    BY <1>1, <2>1 DEF Results
<1>7. ArchivedIsOver'
  BY <1>1, <1>2 DEF ArchivedIsOver
<1> QED
  BY <1>3, <1>4, <1>5, <1>6, <1>7

\* One more job joins the chain, behind all the others.
LEMMA SubmitKeeps ==
  ASSUME IInv, Submit
  PROVE  Turns' /\ Chained' /\ InTurn' /\ Results' /\ ArchivedIsOver'
<1> USE DEF IInv
<1> DEFINE new == <<started, script>>
<1>1. /\ script \in 1..Items /\ started \in 1..MaxCampaigns
      /\ script' = script + 1 /\ started' = started
      /\ UNCHANGED <<scratch, archived, reset, toMove, overtaken>>
      /\ job' = [job EXCEPT ![new] = "pending"] /\ after' = [after EXCEPT ![new] = previous]
      /\ previous' = new
  BY CampaignAssumption DEF Submit, More, Chain, Turns, TypeOK, sweep
<1>2. /\ new \in Job /\ new[1] = started /\ new[2] = script
  BY <1>1, JobParts DEF Turns
<1>3. /\ job'[new] = "pending" /\ after'[new] = previous
      /\ \A j \in Job : j # new => job'[j] = job[j] /\ after'[j] = after[j]
  BY <1>1, <1>2 DEF TypeOK
<1>4. job[new] = "none"
  BY <1>1, <1>2 DEF Chained
<1> HIDE DEF new
<1>5. Turns'
  <2>1. Live' \subseteq Live \cup {new}
    BY <1>3 DEF Live
  <2>2. InProgress' \subseteq InProgress
    BY <1>1, <1>2, <2>1 DEF InProgress
  <2> QED
    BY <1>1, <1>2, <2>1, <2>2 DEF Turns
<1>6. Chained'
  <2>1. ASSUME NEW j \in Job, job'[j] # "none"
        PROVE  /\ j[1] <= started'
               /\ j[1] = started' /\ script' > 0 => j[2] < script'
               /\ j[2] > 1 => after'[j] = <<j[1], j[2] - 1>>
    <3>1. CASE j = new
      BY <1>1, <1>2, <1>3, <3>1 DEF Chained
    <3>2. CASE j # new
      BY <1>1, <1>3, <2>1, <3>2, JobParts DEF Chained
    <3> QED
      BY <3>1, <3>2
  <2>2. ASSUME NEW i \in 1..Items, i < script + 1 PROVE job'[<<started, i>>] # "none"
    <3>1. <<started, i>> \in Job
      BY <1>1, JobParts
    <3>2. CASE i = script
      BY <1>3, <3>2 DEF new
    <3>3. CASE i # script
      BY <1>1, <1>3, <2>2, <3>1, <3>3 DEF Chained
    <3> QED
      BY <3>2, <3>3
  <2>3. ASSUME NEW j \in Job, NEW k \in Job, j[1] = k[1], j[2] < k[2], job'[k] # "none"
        PROVE  job'[j] # "none"
    <3>1. CASE k = new
      <4>1. j = <<started, j[2]>> /\ j[2] \in 1..Items /\ j[2] < script + 1
        BY <1>1, <1>2, <2>3, <3>1, JobParts
      <4> QED
        BY <2>2, <4>1
    <3>2. CASE k # new
      BY <1>3, <2>3, <3>2 DEF Chained
    <3> QED
      BY <3>1, <3>2
  <2>4. previous' = <<started', script' - 1>>
    BY <1>1 DEF new
  <2> QED
    BY <1>1, <2>1, <2>2, <2>3, <2>4 DEF Chained
<1>7. InTurn'
  <2>1. ASSUME NEW j \in Job, NEW k \in Job, j[1] = k[1], j[2] < k[2],
               job'[k] \in {"running", "ok", "failed"}
        PROVE  \/ job'[j] \in Ended
               \/ \E m \in Job : m[1] = j[1] /\ m[2] \in j[2]..k[2] /\ job'[m] = "cancelled"
    <3>1. k # new /\ job[k] \in {"running", "ok", "failed"}
      BY <1>3, <2>1
    <3>2. j # new
      BY <1>4, <2>1, <3>1 DEF Chained
    <3>3. \A m \in Job : job[m] = "cancelled" => job'[m] = "cancelled"
      BY <1>3, <1>4
    <3> QED
      BY <1>3, <2>1, <3>1, <3>2, <3>3 DEF InTurn
  <2> QED
    BY <2>1 DEF InTurn
<1>8. Results'
  BY <1>1, <1>3, JobParts DEF Results, TypeOK
<1>9. ArchivedIsOver'
  <2>1. \A k \in Live' : k = new \/ k \in Live
    BY <1>3 DEF Live
  <2>2. \A j \in archived : j[1] \in overtaken \/ j[1] # started
    BY <1>1, JobParts DEF Results, TypeOK
  <2> QED
    BY <1>1, <1>2, <2>1, <2>2 DEF ArchivedIsOver
<1> QED
  BY <1>5, <1>6, <1>7, <1>8, <1>9

\* The script ends, by itself or early.
LEMMA StopKeeps ==
  ASSUME IInv, Reject \/ Submitted
  PROVE  Turns' /\ Chained' /\ InTurn' /\ Results' /\ ArchivedIsOver'
<1> USE DEF IInv
<1>1. /\ script' = 0
      /\ UNCHANGED <<started, job, after, scratch, archived, reset, toMove, overtaken>>
  BY DEF Reject, Submitted, slurm, sweep
<1>2. Live' = Live /\ InProgress' \subseteq InProgress
  BY <1>1 DEF Live, InProgress
<1> QED
  BY <1>1, <1>2 DEF Turns, Chained, InTurn, Results, ArchivedIsOver

\* What becomes of a job in the queue.
LEMMA SlurmKeeps ==
  ASSUME IInv, NEW j \in Job, Slurm(j)
  PROVE  Turns' /\ Chained' /\ InTurn' /\ Results' /\ ArchivedIsOver'
<1> USE DEF IInv
<1>1. /\ UNCHANGED <<script, previous, started, after, archived, reset, toMove, overtaken>>
      /\ job[j] \in {"pending", "running"} /\ scratch' \in {scratch, scratch \cup {j}}
  BY DEF Slurm, Begin, Record, Cancel, Requeue, End, submission, slurm, sweep
<1>2. /\ \A k \in Job : k # j => job'[k] = job[k]
      /\ job'[j] # "none" /\ Live' \subseteq Live
      /\ job'[j] \in {"running", "ok", "failed"} => job[j] = "running" \/ Begin(j)
  BY DEF Slurm, Begin, Record, Cancel, Requeue, End, slurm, TypeOK, Live
<1>3. Turns'
  BY <1>1, <1>2 DEF Turns, InProgress
<1>4. Chained'
  <2>1. \A k \in Job : job'[k] # "none" <=> job[k] # "none"
    BY <1>1, <1>2
  <2>2. \A i \in 1..Items : script > 0 => <<started, i>> \in Job
    BY CampaignAssumption, JobParts DEF Turns, TypeOK
  <2> QED
    BY <1>1, <2>1, <2>2 DEF Chained
<1>5. InTurn'
  <2>1. ASSUME NEW i \in Job, NEW k \in Job, i[1] = k[1], i[2] < k[2],
               job'[k] \in {"running", "ok", "failed"}
        PROVE  \/ job'[i] \in Ended
               \/ \E m \in Job : m[1] = i[1] /\ m[2] \in i[2]..k[2] /\ job'[m] = "cancelled"
    <3>1. \A m \in Job : (job[m] = "cancelled" => job'[m] = "cancelled")
                         /\ (job[m] \in Ended => job'[m] \in Ended)
      BY <1>1, <1>2 DEF Ended
    <3>2. CASE job[k] \in {"running", "ok", "failed"}
      BY <2>1, <3>1, <3>2 DEF InTurn
    <3>3. CASE job[k] \notin {"running", "ok", "failed"}
      <4> DEFINE before == <<k[1], k[2] - 1>>
      <4>1. k = j /\ Begin(k)
        BY <1>2, <2>1, <3>3
      <4>2. k[2] - 1 \in 1..Items /\ i[2] <= k[2] - 1 /\ k[2] > 1 /\ k[2] \in Nat /\ i[2] \in Nat
        <5>1. i[2] \in 1..Items /\ k[2] \in 1..Items /\ i[2] < k[2]
          BY <2>1, JobParts
        <5> QED
          BY <5>1, CampaignAssumption
      <4>3. before \in Job /\ before[1] = k[1] /\ before[2] = k[2] - 1
        BY <4>2, JobParts
      <4>4. job[before] \in Ended
        BY <1>1, <4>1, <4>2, <4>3, JobParts DEF Begin, Released, Chained
      <4> HIDE DEF before
      <4>5. CASE i[2] = k[2] - 1
        <5>1. i = before
          BY <2>1, <4>5, JobParts DEF before
        <5> QED
          BY <3>1, <4>4, <5>1
      <4>6. CASE i[2] < k[2] - 1 /\ job[before] = "cancelled"
        BY <2>1, <3>1, <4>2, <4>3, <4>6
      <4>7. CASE i[2] < k[2] - 1 /\ job[before] # "cancelled"
        <5>1. job[before] \in {"running", "ok", "failed"}
          BY <4>4, <4>7 DEF Ended
        <5>2. \/ job[i] \in Ended
              \/ \E m \in Job : /\ m[1] = i[1] /\ m[2] \in i[2]..before[2]
                                /\ job[m] = "cancelled"
          BY <2>1, <4>3, <4>7, <5>1 DEF InTurn
        <5>3. i[2]..before[2] \subseteq i[2]..k[2]
          BY <4>2, <4>3
        <5> QED
          BY <3>1, <5>2, <5>3
      <4> QED
        BY <4>2, <4>5, <4>6, <4>7
    <3> QED
      BY <3>2, <3>3
  <2> QED
    BY <2>1 DEF InTurn
<1>6. Results'
  BY <1>1, <1>2 DEF Results, TypeOK
<1>7. ArchivedIsOver'
  BY <1>1, <1>2 DEF ArchivedIsOver
<1> QED
  BY <1>3, <1>4, <1>5, <1>6, <1>7

\* reset.sh looks at the queue, and archives only what has no live job by then
\* or overtakes it.
LEMMA ResetKeeps ==
  ASSUME IInv, Reset
  PROVE  Turns' /\ Chained' /\ InTurn' /\ Results' /\ ArchivedIsOver'
<1> USE DEF IInv
<1>1. UNCHANGED <<script, previous, started, job, after>> /\ overtaken \subseteq overtaken'
  BY DEF Reset, StartReset, List, Move, Clear, Interrupt, submission, slurm
<1>2. Live' = Live /\ InProgress' = InProgress
  BY <1>1 DEF Live, InProgress
<1>3. Turns'
  <2>1. Unused => InProgress = IF script > 0 THEN {started} ELSE {}
    BY DEF Unused, InProgress
  <2>2. reset' # "idle" => InProgress \subseteq overtaken'
    BY <2>1 DEF Turns, Reset, StartReset, List, Move, Clear, Interrupt
  <2> QED
    BY <1>1, <1>2, <2>2 DEF Turns
<1>4. Chained' /\ InTurn'
  BY <1>1 DEF Chained, InTurn
<1>5. archived' = archived \/ (reset # "idle" /\ \E j \in toMove : archived' = archived \cup {j})
  BY DEF Reset, StartReset, List, Move, Clear, Interrupt
<1>6. ASSUME NEW j \in archived', j \notin archived, j[1] \notin overtaken
      PROVE  /\ \A k \in Live : k[1] # j[1]
             /\ j[1] < started \/ (j[1] = started /\ script = 0)
  <2>1. j \in toMove /\ reset # "idle" /\ j \in Job
    BY <1>5, <1>6 DEF TypeOK
  <2>2. j[1] \notin InProgress
    BY <1>6, <2>1 DEF Turns
  <2>3. j[1] <= started /\ j[1] \in Nat /\ started \in Nat /\ script \in Nat
    BY <2>1, JobParts DEF Results, Chained, TypeOK
  <2> QED
    BY <2>2, <2>3 DEF InProgress
<1>7. Results'
  <2>1. toMove' \subseteq scratch' /\ scratch' \subseteq scratch
    BY DEF Results, Reset, StartReset, List, Move, Clear, Interrupt
  <2> QED
    BY <1>1, <1>6, <2>1 DEF Results
<1>8. ArchivedIsOver'
  BY <1>1, <1>2, <1>6 DEF ArchivedIsOver
<1> QED
  BY <1>3, <1>4, <1>7, <1>8

-----------------------------------------------------------------------------
\* The inductive invariant holds in every behaviour.
THEOREM Invariance == Spec => []IInv
<1>1. IInv /\ [Next]_vars => IInv'
  <2> SUFFICES ASSUME IInv, [Next]_vars PROVE IInv'
    OBVIOUS
  <2>1. TypeOK'
    BY StepType DEF IInv
  <2>2. CASE Script
    BY <2>1, <2>2, StartKeeps, SubmitKeeps, StopKeeps DEF Script, IInv
  <2>3. CASE Reset
    BY <2>1, <2>3, ResetKeeps DEF IInv
  <2>4. CASE \E j \in Job : Slurm(j)
    BY <2>1, <2>4, SlurmKeeps DEF IInv
  <2>5. CASE UNCHANGED vars
    BY <2>1, <2>5 DEF vars, submission, slurm, sweep, IInv, Turns, Live, InProgress, Chained, InTurn,
                      Results, ArchivedIsOver
  <2> QED
    BY <2>2, <2>3, <2>4, <2>5 DEF Next
<1> QED
  BY InitInv, <1>1, PTL DEF Spec

\* The state of the scripts, the queue and the results has its type.
THEOREM TypeCorrect == Spec => []TypeOK
<1>1. IInv => TypeOK
  BY DEF IInv
<1> QED
  BY Invariance, <1>1, PTL

\* If campaigns are started in an empty queue only, no two jobs measure at the
\* same time, unless one between them was cancelled
\* in the queue (run_campaign.sh:8-11, 40-46).
THEOREM JobsTakeTurns == ASSUME Orderly PROVE Spec => []OneAtATime
<1>1. IInv => OneAtATime
  <2> SUFFICES ASSUME IInv, NEW j \in Running, NEW k \in Running, j # k
               PROVE  /\ j[1] = k[1]
                      /\ \E m \in Job : m[1] = j[1] /\ job[m] = "cancelled"
                                         /\ m[2] \in (j[2]..k[2]) \cup (k[2]..j[2])
    BY DEF OneAtATime
  <2>1. j \in Job /\ k \in Job /\ job[j] = "running" /\ job[k] = "running"
    BY DEF Running
  <2>2. j[1] = k[1]
    BY <2>1 DEF IInv, Turns, Live
  <2>3. j[2] < k[2] \/ k[2] < j[2]
    BY <2>1, <2>2, JobParts
  <2> QED
    BY <2>1, <2>2, <2>3 DEF IInv, InTurn, Ended
<1> QED
  BY Invariance, <1>1, PTL

\* Nothing is archived that a live job may still append to (reset.sh:21-36),
\* except of a campaign that reset.sh could not see at its only look at the
\* queue: one submitted later, or hidden by a squeue that failed.
THEOREM ArchiveIsFinal == Spec => []ArchivedIsOver
<1>1. IInv => ArchivedIsOver
  BY DEF IInv
<1> QED
  BY Invariance, <1>1, PTL
=============================================================================
