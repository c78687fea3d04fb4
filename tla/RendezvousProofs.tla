--------------------------- MODULE RendezvousProofs ---------------------------
(***************************************************************************)
(* The barrier of the multi-node experiments does what it promises, for    *)
(* any number of jobs, ranks, arms, launches and faults.                   *)
(***************************************************************************)
EXTENDS Rendezvous, TLAPS

Busy == {"write", "wait", "missed", "read"}

\* Who has left a marker is at that arm's barrier, past it, or gone.
MarkersAreOfArrived ==
  \A c \in Client : \A a \in Arm : marker[c][a] =>
    \/ pc[c] = "down"
    \/ arm[c] > a
    \/ arm[c] = a /\ pc[c] \in {"wait", "missed", "read"}

\* A rank is busy with an arm that has no row.
BusyWithoutRow ==
  \A c \in Client : pc[c] \in Busy => arm[c] \in Arm /\ row[c][arm[c]].outcome = "none"

\* An arm that has a row of an earlier launch has no marker.
MarkersAreOfThisLaunch ==
  \A c \in Client : \A a \in Arm :
    marker[c][a] => row[c][a].outcome = "none" \/ row[c][a].launch = launch[c[1]]

\* The peers of a rank that reads have no row of an earlier launch for that arm.
ReadersShareALaunch ==
  \A c \in Client : pc[c] = "read" =>
    \A d \in Peers(c) :
      row[d][arm[c]].outcome = "none" \/ row[d][arm[c]].launch = launch[c[1]]

IInv ==
  /\ TypeOK
  /\ MarkersAreOfArrived /\ BusyWithoutRow /\ MarkersAreOfThisLaunch /\ ReadersShareALaunch
  /\ NobodyReadsEarly /\ RowsOfOneLaunch /\ OwnMarkerStays

-----------------------------------------------------------------------------
LEMMA ClientOfJob == \A c \in Client : c[1] \in Job
BY DEF Client

LEMMA PeersAreClients ==
  \A c \in Client : \A d \in Peers(c) : d \in Client /\ d[1] = c[1] /\ c \in Peers(d)
<1> SUFFICES ASSUME NEW c \in Client, NEW d \in Peers(c)
             PROVE  d \in Client /\ d[1] = c[1] /\ c \in Peers(d)
  OBVIOUS
<1> QED
  BY DEF Peers, Ranks

LEMMA InitInv == Init => IInv
<1> SUFFICES ASSUME Init PROVE IInv
  OBVIOUS
<1>1. TypeOK
  BY RendezvousAssumption, ClientOfJob DEF Init, TypeOK, NoRow, Arm
<1>2. /\ MarkersAreOfArrived /\ BusyWithoutRow /\ MarkersAreOfThisLaunch
      /\ ReadersShareALaunch /\ NobodyReadsEarly /\ OwnMarkerStays
  BY DEF Init, MarkersAreOfArrived, BusyWithoutRow, MarkersAreOfThisLaunch,
         ReadersShareALaunch, NobodyReadsEarly, OwnMarkerStays, Busy
<1>3. RowsOfOneLaunch
  BY PeersAreClients DEF Init, RowsOfOneLaunch, NoRow
<1> QED
  BY <1>1, <1>2, <1>3 DEF IInv

-----------------------------------------------------------------------------
(* Steps of one rank.                                                      *)

\* The steps of a rank that leave its row alone.
LEMMA WalkKeeps ==
  ASSUME IInv, NEW c \in Client,
         \/ Skip(c) \/ Begin(c) \/ Arrive(c) \/ Pass(c) \/ Miss(c) \/ Sleep(c)
         \/ End(c) \/ Expire(c) \/ RankDies(c)
  PROVE  IInv'
<1> USE DEF IInv
<1>0. /\ UNCHANGED <<row, launch>>
      /\ \A d \in Client \ {c} : pc'[d] = pc[d] /\ arm'[d] = arm[d] /\ marker'[d] = marker[d]
  BY DEF Skip, Begin, Arrive, Pass, Miss, Sleep, End, Expire, RankDies, TypeOK
<1>1. \/ /\ arm'[c] = arm[c] /\ marker'[c] = marker[c]
         /\ \/ pc'[c] = "down"
            \/ pc[c] = "next" /\ pc'[c] = "write" /\ arm[c] \in Arm
               /\ row[c][arm[c]].outcome = "none"
            \/ pc[c] = "wait" /\ pc'[c] = "read" /\ AllArrived(c)
            \/ pc[c] \in {"wait", "missed"} /\ pc'[c] \in {"wait", "missed"}
      \/ /\ pc[c] = "next" /\ pc'[c] = "next"
         /\ arm[c] \in Arm /\ arm'[c] = arm[c] + 1 /\ marker'[c] = marker[c]
      \/ /\ pc[c] = "write" /\ pc'[c] = "wait"
         /\ arm[c] \in Arm /\ arm'[c] = arm[c]
         /\ marker'[c] = [marker[c] EXCEPT ![arm[c]] = TRUE]
  BY DEF Skip, Begin, Arrive, Pass, Miss, Sleep, End, Expire, RankDies, TypeOK,
         BusyWithoutRow, Busy
<1>2. marker[c] \in [Arm -> BOOLEAN] /\ \A d \in Client : arm[d] \in Nat
  BY DEF TypeOK
<1>3. TypeOK'
  <2>1. marker' \in [Client -> [Arm -> BOOLEAN]]
    <3>1. \/ UNCHANGED marker
          \/ arm[c] \in Arm /\ marker' = [marker EXCEPT ![c][arm[c]] = TRUE]
      BY DEF Skip, Begin, Arrive, Pass, Miss, Sleep, End, Expire, RankDies, BusyWithoutRow, Busy
    <3>2. CASE UNCHANGED marker
      BY <3>2 DEF TypeOK
    <3>3. CASE arm[c] \in Arm /\ marker' = [marker EXCEPT ![c][arm[c]] = TRUE]
      BY <3>3 DEF TypeOK
    <3> QED
      BY <3>1, <3>2, <3>3
  <2>2. arm[c] \in Arm => arm[c] + 1 \in 1..(Arms + 1)
    BY RendezvousAssumption DEF Arm
  <2>3. arm' \in [Client -> 1..(Arms + 1)]
    BY <2>2 DEF Skip, Begin, Arrive, Pass, Miss, Sleep, End, Expire, RankDies, TypeOK
  <2>4. faults' \in 0..MaxFaults
    BY RendezvousAssumption
    DEF Skip, Begin, Arrive, Pass, Miss, Sleep, End, Expire, RankDies, Fault, TypeOK
  <2>5. /\ pc' \in [Client -> {"down", "next", "write", "wait", "missed", "read"}]
        /\ expired' \in [Client -> BOOLEAN]
    BY DEF Skip, Begin, Arrive, Pass, Miss, Sleep, End, Expire, RankDies, TypeOK
  <2> QED
    BY <1>0, <2>1, <2>3, <2>4, <2>5 DEF TypeOK
<1>4. MarkersAreOfArrived'
  <2>1. ASSUME NEW a \in Arm, marker'[c][a]
        PROVE  \/ pc'[c] = "down" \/ arm'[c] > a
               \/ arm'[c] = a /\ pc'[c] \in {"wait", "missed", "read"}
    <3>0. a \in Nat
      BY DEF Arm
    <3>1. marker[c][a] \/ (pc'[c] = "wait" /\ arm'[c] = a)
      <4>1. CASE marker'[c] = marker[c]
        BY <2>1, <4>1
      <4>2. CASE /\ pc'[c] = "wait" /\ arm'[c] = arm[c]
                 /\ marker'[c] = [marker[c] EXCEPT ![arm[c]] = TRUE]
        BY <1>2, <2>1, <4>2
      <4> QED
        BY <1>1, <4>1, <4>2
    <3>2. marker[c][a] => \/ pc[c] = "down" \/ arm[c] > a
                          \/ arm[c] = a /\ pc[c] \in {"wait", "missed", "read"}
      BY DEF MarkersAreOfArrived
    <3> QED
      BY <1>1, <1>2, <3>0, <3>1, <3>2
  <2> QED
    BY <1>0, <2>1 DEF MarkersAreOfArrived
<1>5. BusyWithoutRow'
  BY <1>0, <1>1, <1>2 DEF BusyWithoutRow, Busy
<1>6. MarkersAreOfThisLaunch'
  BY <1>0, <1>1, <1>2 DEF MarkersAreOfThisLaunch, BusyWithoutRow, Busy
<1>7. AllArrived(c) => \A d \in Peers(c) : d \in Client /\ marker[d][arm[c]]
  BY PeersAreClients DEF AllArrived
<1>8. ReadersShareALaunch'
  BY <1>0, <1>1, <1>7, PeersAreClients
  DEF ReadersShareALaunch, MarkersAreOfThisLaunch, BusyWithoutRow, Busy
<1>9. NobodyReadsEarly'
  <2> DEFINE At(d, a) == \/ pc[d] = "down" \/ arm[d] > a
                         \/ arm[d] = a /\ pc[d] \in {"wait", "missed", "read"}
             AtNext(d, a) == \/ pc'[d] = "down" \/ arm'[d] > a
                             \/ arm'[d] = a /\ pc'[d] \in {"wait", "missed", "read"}
  <2>1. ASSUME NEW d \in Client, NEW a \in Nat, At(d, a) PROVE AtNext(d, a)
    BY <1>0, <1>1, <1>2, <2>1
  <2>2. ASSUME NEW r \in Client, pc'[r] = "read", NEW d \in Peers(r) PROVE At(d, arm'[r])
    <3>1. CASE pc[r] = "read"
      BY <1>0, <1>1, <2>2, <3>1 DEF NobodyReadsEarly
    <3>2. CASE pc[r] # "read"
      <4>1. r = c /\ AllArrived(c) /\ arm'[c] = arm[c] /\ arm[c] \in Arm
        BY <1>0, <1>1, <2>2, <3>2 DEF BusyWithoutRow, Busy
      <4> QED
        BY <1>7, <2>2, <4>1 DEF MarkersAreOfArrived
    <3> QED
      BY <3>1, <3>2
  <2>3. \A r \in Client : arm'[r] \in Nat
    BY <1>0, <1>1, <1>2
  <2> QED
    BY <2>1, <2>2, <2>3, PeersAreClients DEF NobodyReadsEarly
<1>10. RowsOfOneLaunch'
  BY <1>0 DEF RowsOfOneLaunch
<1>11. OwnMarkerStays'
  BY <1>0, <1>1, <1>2 DEF OwnMarkerStays
<1> QED
  BY <1>3, <1>4, <1>5, <1>6, <1>8, <1>9, <1>10, <1>11

\* The steps that append a row: the cell is over, well or not.
LEMMA RecordKeeps ==
  ASSUME IInv, NEW c \in Client, WriteFails(c) \/ TimeOut(c) \/ Read(c) \/ ReadFails(c)
  PROVE  IInv'
<1> USE DEF IInv
<1>1. PICK outcome \in {"ok", "error", "timeout"} :
        Recorded(c, outcome) /\ (outcome = "ok" => pc[c] = "read")
  BY DEF WriteFails, TimeOut, Read, ReadFails
<1>2. /\ pc[c] \in Busy /\ arm[c] \in Arm /\ arm[c] \in Nat
      /\ UNCHANGED <<marker, launch, expired>>
  BY DEF WriteFails, TimeOut, Read, ReadFails, BusyWithoutRow, Busy, Arm
<1>3. /\ pc'[c] = "next" /\ arm'[c] = arm[c] + 1
      /\ row'[c][arm[c]] = [outcome |-> outcome, launch |-> launch[c[1]]]
      /\ \A a \in Arm \ {arm[c]} : row'[c][a] = row[c][a]
      /\ \A d \in Client \ {c} : pc'[d] = pc[d] /\ arm'[d] = arm[d] /\ row'[d] = row[d]
  BY <1>1, <1>2 DEF Recorded, TypeOK
<1>4. TypeOK'
  <2>1. arm' \in [Client -> 1..(Arms + 1)]
    BY <1>1, <1>2, RendezvousAssumption DEF Recorded, Arm, TypeOK
  <2>2. launch[c[1]] \in Nat
    BY ClientOfJob DEF TypeOK
  <2>3. row' \in [Client -> [Arm -> [outcome : {"none", "ok", "error", "timeout"},
                                     launch : Nat]]]
    BY <1>1, <1>2, <2>2 DEF Recorded, TypeOK
  <2>4. \A d \in Client : \A a \in Arm : row'[d][a].launch <= launch[d[1]]
    <3>1. ASSUME NEW a \in Arm PROVE row'[c][a].launch <= launch[c[1]]
      <4>1. CASE a = arm[c]
        <5>1. row'[c][a].launch = launch[c[1]]
          BY <1>3, <4>1
        <5> QED
          BY <2>2, <5>1
      <4>2. CASE a # arm[c]
        BY <1>3, <4>2 DEF TypeOK
      <4> QED
        BY <4>1, <4>2
    <3> QED
      BY <1>3, <3>1 DEF TypeOK
  <2>5. faults' \in 0..MaxFaults
    BY RendezvousAssumption DEF WriteFails, TimeOut, Read, ReadFails, Fault, TypeOK
  <2>6. pc' \in [Client -> {"down", "next", "write", "wait", "missed", "read"}]
    BY <1>1 DEF Recorded, TypeOK
  <2> QED
    BY <1>2, <2>1, <2>3, <2>4, <2>5, <2>6 DEF TypeOK
<1>5. MarkersAreOfArrived'
  BY <1>2, <1>3 DEF MarkersAreOfArrived, Busy, Arm
<1>6. BusyWithoutRow'
  BY <1>3 DEF BusyWithoutRow, Busy
<1>7. MarkersAreOfThisLaunch'
  BY <1>2, <1>3 DEF MarkersAreOfThisLaunch
<1>8. ReadersShareALaunch'
  BY <1>2, <1>3, PeersAreClients DEF ReadersShareALaunch, BusyWithoutRow, Busy
<1>9. NobodyReadsEarly'
  <2>1. \A d \in Client : arm[d] \in Nat
    BY DEF TypeOK
  <2>2. ASSUME NEW r \in Client, pc'[r] = "read", NEW d \in Peers(r)
        PROVE  \/ pc'[d] = "down" \/ arm'[d] > arm'[r]
               \/ arm'[d] = arm'[r] /\ pc'[d] \in {"wait", "missed", "read"}
    <3>1. r # c /\ d \in Client /\ pc[r] = "read" /\ arm'[r] = arm[r]
      BY <1>3, <2>2, PeersAreClients
    <3>2. \/ pc[d] = "down" \/ arm[d] > arm[r]
          \/ arm[d] = arm[r] /\ pc[d] \in {"wait", "missed", "read"}
      BY <2>2, <3>1 DEF NobodyReadsEarly
    <3>3. arm[d] \in Nat /\ arm[r] \in Nat
      BY <2>1, <2>2, <3>1
    <3>4. CASE d = c
      BY <1>2, <1>3, <3>1, <3>2, <3>3, <3>4 DEF Busy
    <3>5. CASE d # c
      BY <1>3, <3>1, <3>2, <3>5
    <3> QED
      BY <3>4, <3>5
  <2> QED
    BY <2>2 DEF NobodyReadsEarly
<1>10. RowsOfOneLaunch'
  <2>1. ASSUME outcome = "ok", NEW d \in Peers(c), d # c, row'[d][arm[c]].outcome = "ok"
        PROVE  row'[d][arm[c]].launch = launch[c[1]]
    BY <1>1, <1>3, <2>1, PeersAreClients DEF ReadersShareALaunch
  <2> QED
    BY <1>2, <1>3, <2>1, PeersAreClients DEF RowsOfOneLaunch
<1>11. OwnMarkerStays'
  BY <1>2, <1>3 DEF OwnMarkerStays
<1> QED
  BY <1>4, <1>5, <1>6, <1>7, <1>8, <1>9, <1>10, <1>11

-----------------------------------------------------------------------------
(* Steps of a job.                                                         *)

\* The sweep comes first: a launch finds no marker of its own job, and leaves
\* those of the others alone.
LEMMA LaunchKeeps ==
  ASSUME IInv, NEW j \in Job, Launch(j)
  PROVE  IInv'
<1> USE DEF IInv
<1>1. /\ \A c \in Client : c[1] = j =>
           /\ pc[c] = "down" /\ pc'[c] = "next"
           /\ \A a \in Arm : marker'[c][a] = FALSE
      /\ \A c \in Client : c[1] # j =>
           /\ pc'[c] = pc[c] /\ arm'[c] = arm[c] /\ marker'[c] = marker[c]
           /\ launch'[c[1]] = launch[c[1]]
      /\ row' = row
  BY ClientOfJob DEF Launch, Sweep, Ranks, TypeOK
<1>2. TypeOK'
  <2>1. /\ launch[j] + 1 \in Nat /\ launch[j] + 1 <= MaxLaunches[j]
        /\ launch' = [launch EXCEPT ![j] = @ + 1]
    <3>1. launch[j] \in Nat /\ MaxLaunches[j] \in Nat
      BY RendezvousAssumption DEF TypeOK
    <3> QED
      BY <3>1 DEF Launch
  <2>2. launch' \in [Job -> Nat] /\ \A i \in Job : launch'[i] <= MaxLaunches[i]
    <3>1. \A i \in Job : launch'[i] = IF i = j THEN launch[j] + 1 ELSE launch[i]
      BY <2>1 DEF TypeOK
    <3> QED
      BY <2>1, <3>1 DEF TypeOK
  <2>3. \A i \in Job : launch[i] <= launch'[i]
    BY <2>1 DEF TypeOK
  <2>4. \A c \in Client : \A a \in Arm : row'[c][a].launch <= launch'[c[1]]
    BY <1>1, <2>2, <2>3, ClientOfJob DEF TypeOK
  <2>5. /\ marker' \in [Client -> [Arm -> BOOLEAN]]
        /\ pc' \in [Client -> {"down", "next", "write", "wait", "missed", "read"}]
        /\ arm' \in [Client -> 1..(Arms + 1)]
    BY RendezvousAssumption DEF Launch, Sweep, TypeOK
  <2> QED
    BY <2>2, <2>4, <2>5 DEF Launch, TypeOK
<1>3. MarkersAreOfArrived'
  BY <1>1 DEF MarkersAreOfArrived
<1>4. BusyWithoutRow'
  BY <1>1 DEF BusyWithoutRow, Busy
<1>5. MarkersAreOfThisLaunch'
  BY <1>1 DEF MarkersAreOfThisLaunch
<1>6. ReadersShareALaunch'
  BY <1>1, PeersAreClients DEF ReadersShareALaunch
<1>7. NobodyReadsEarly'
  BY <1>1, PeersAreClients DEF NobodyReadsEarly
<1>8. RowsOfOneLaunch'
  BY <1>1 DEF RowsOfOneLaunch
<1>9. OwnMarkerStays'
  BY <1>1 DEF OwnMarkerStays
<1> QED
  BY <1>2, <1>3, <1>4, <1>5, <1>6, <1>7, <1>8, <1>9

LEMMA KillKeeps ==
  ASSUME IInv, NEW j \in Job, KillJob(j)
  PROVE  IInv'
<1> USE DEF IInv
<1>1. /\ UNCHANGED <<marker, row, arm, expired, launch>>
      /\ \A c \in Client : pc'[c] = IF c[1] = j THEN "down" ELSE pc[c]
  BY DEF KillJob
<1>2. TypeOK'
  <2>1. pc' \in [Client -> {"down", "next", "write", "wait", "missed", "read"}]
    BY DEF KillJob, TypeOK
  <2>2. faults' \in 0..MaxFaults
    BY RendezvousAssumption DEF KillJob, Fault, TypeOK
  <2> QED
    BY <1>1, <2>1, <2>2 DEF TypeOK
<1>3. MarkersAreOfArrived' /\ BusyWithoutRow' /\ MarkersAreOfThisLaunch'
  BY <1>1 DEF MarkersAreOfArrived, BusyWithoutRow, Busy, MarkersAreOfThisLaunch
<1>4. ReadersShareALaunch' /\ NobodyReadsEarly'
  BY <1>1, PeersAreClients DEF ReadersShareALaunch, NobodyReadsEarly
<1>5. RowsOfOneLaunch' /\ OwnMarkerStays'
  BY <1>1 DEF RowsOfOneLaunch, OwnMarkerStays
<1> QED
  BY <1>2, <1>3, <1>4, <1>5

-----------------------------------------------------------------------------
\* The inductive invariant holds in every behaviour.
THEOREM Invariance == Spec => []IInv
<1>1. IInv /\ [Next]_vars => IInv'
  <2> SUFFICES ASSUME IInv, [Next]_vars PROVE IInv'
    OBVIOUS
  <2>1. ASSUME NEW j \in Job, Launch(j) \/ KillJob(j) PROVE IInv'
    BY <2>1, LaunchKeeps, KillKeeps
  <2>2. ASSUME NEW c \in Client,
               Step(c) \/ Expire(c) \/ WriteFails(c) \/ ReadFails(c) \/ RankDies(c)
        PROVE  IInv'
    BY <2>2, WalkKeeps, RecordKeeps DEF Step
  <2>3. CASE UNCHANGED vars
    BY <2>3 DEF vars, IInv, TypeOK, MarkersAreOfArrived, BusyWithoutRow,
                MarkersAreOfThisLaunch, ReadersShareALaunch, NobodyReadsEarly,
                RowsOfOneLaunch, OwnMarkerStays, AllArrived
  <2> QED
    BY <2>1, <2>2, <2>3 DEF Next
<1> QED
  BY InitInv, <1>1, PTL DEF Spec

\* The state of jobs, ranks and markers has its type, and no row is of a launch
\* that is still to come.
THEOREM TypeCorrect == Spec => []TypeOK
<1>1. IInv => TypeOK
  BY DEF IInv
<1> QED
  BY Invariance, <1>1, PTL

\* No rank reads before all its peers have written, whatever markers an earlier
\* launch of the job, or another job, left behind (multinode.py:15-18).
THEOREM ReadersWaitForWriters == Spec => []NobodyReadsEarly
<1>1. IInv => NobodyReadsEarly
  BY DEF IInv
<1> QED
  BY Invariance, <1>1, PTL

\* A requeued job completes no arm that an earlier launch began: the good rows
\* of an arm were measured together (multinode.py:27-28).
THEOREM ArmsAreOfOneLaunch == Spec => []RowsOfOneLaunch
<1>1. IInv => RowsOfOneLaunch
  BY DEF IInv
<1> QED
  BY Invariance, <1>1, PTL

\* Nobody sweeps the marker of a rank that still waits (slurm/multi.sbatch:47-52).
THEOREM WaitersKeepTheirMarker == Spec => []OwnMarkerStays
<1>1. IInv => OwnMarkerStays
  BY DEF IInv
<1> QED
  BY Invariance, <1>1, PTL
=============================================================================
