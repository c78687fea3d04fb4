---------------------------- MODULE ReadPoolProofs ----------------------------
(***************************************************************************)
(* The safety of a timed read, for any number of threads, files, bytes and *)
(* passes, and whatever fails.                                             *)
(***************************************************************************)
EXTENDS ReadPool, SequenceTheorems, TLAPS

Task == Part \cup {Wait}

\* The offset is a whole number of slices ahead, the one that is being read
\* included, and the limit on the passes has room for that one.
Pace ==
  /\ main \in {"submit", "barrier", "check"} => offset = passes * PerPass
  /\ main = "read" => offset = (passes + 1) * PerPass /\ passes < MaxPasses

-----------------------------------------------------------------------------
(* Types.                                                                  *)

LEMMA PerPassType == ASSUME files \in Nat \ {0} PROVE PerPass \in Nat \ {0}
<1>1. files \div 8 \in Nat
  OBVIOUS
<1>2. CASE reader = "many"
  BY <1>2 DEF PerPass
<1>3. CASE reader # "many" /\ Threads > files \div 8
  BY <1>3, ReadPoolAssumption DEF PerPass
<1>4. CASE reader # "many" /\ ~(Threads > files \div 8)
  <2>1. PerPass = files \div 8
    BY <1>4 DEF PerPass
  <2>2. files \div 8 # 0
    BY <1>1, <1>4, ReadPoolAssumption
  <2> QED
    BY <1>1, <2>1, <2>2
<1> QED
  BY <1>2, <1>3, <1>4

\* What a cell reads is settled when it begins.
LEMMA CellStays ==
  ASSUME UNCHANGED cell
  PROVE  /\ reader' = reader /\ files' = files /\ size' = size
         /\ Part' = Part /\ PerPass' = PerPass
BY DEF cell, Part, PerPass

\* Counting on by one slice.
LEMMA OneSliceOn ==
  ASSUME files \in Nat \ {0}, NEW n \in Nat
  PROVE  n * PerPass + PerPass = (n + 1) * PerPass
BY PerPassType

\* What the queue is filled with: parts, in order, and no part twice.
LEMMA BatchType ==
  ASSUME files \in Nat \ {0}, offset \in Nat, offset < files
  PROVE  /\ Batch \in Seq(Task)
         /\ \A i \in 1..Len(Batch) : Batch[i] = offset + i /\ Batch[i] \in 1..files
<1> DEFINE n == IF files - offset < PerPass THEN files - offset ELSE PerPass
<1>0. PerPass \in Nat \ {0}
  BY PerPassType
<1>1. n \in Nat /\ n <= files - offset
  BY <1>0
<1>2. Batch = [k \in 1..n |-> offset + k]
  BY DEF Batch, Slice
<1> HIDE DEF n
<1>3. \A k \in 1..n : offset + k \in 1..files /\ offset + k \in Task
  BY <1>1, ReadPoolAssumption DEF Task, Part
<1>4. Batch \in [1..n -> Task]
  BY <1>2, <1>3
<1>5. Batch \in Seq(Task) /\ Len(Batch) = n
  BY <1>1, <1>4, SeqDef
<1> QED
  BY <1>2, <1>3, <1>5

LEMMA RangesType ==
  ASSUME files \in Nat \ {0}
  PROVE
  LET ranges == [k \in Worker |-> k]
  IN  ranges \in Seq(Task) /\ Len(ranges) = Threads /\ \A i \in 1..Threads : ranges[i] = i
<1> DEFINE ranges == [k \in Worker |-> k]
<1>1. ranges \in [1..Threads -> Task]
  BY ReadPoolAssumption DEF Worker, Task, Part
<1>2. ranges \in Seq(Task) /\ Len(ranges) = Threads
  BY <1>1, ReadPoolAssumption, SeqDef
<1> QED
  BY <1>2 DEF Worker

LEMMA InitType == Init => TypeOK /\ Pace
<1> SUFFICES ASSUME Init PROVE TypeOK /\ Pace
  OBVIOUS
<1>0. /\ files \in Nat \ {0} /\ size \in Nat /\ reader \in Reader
      /\ reader = "ranged" => files = 1
  <2>1. CASE reader = "until" /\ files \in UntilCounts /\ size = 0
    BY <2>1, ReadPoolAssumption DEF Reader
  <2>2. CASE reader = "many" /\ files \in ManyCounts /\ size = 0
    BY <2>2, ReadPoolAssumption DEF Reader
  <2>3. CASE reader = "ranged" /\ files = 1 /\ size \in Sizes
    BY <2>3, ReadPoolAssumption DEF Reader
  <2> QED
    BY <2>1, <2>2, <2>3 DEF Init
<1>1. 0 * PerPass = 0
  BY <1>0, PerPassType
<1>2. queue \in Seq(Task)
  BY DEF Init
<1>3. passes \in 0..MaxPasses /\ submitted \in 0..Threads
  BY ReadPoolAssumption DEF Init
<1> QED
  BY <1>0, <1>1, <1>2, <1>3 DEF Init, TypeOK, Pace, Task

LEMMA StepType ==
  ASSUME TypeOK, Pace, [Next]_vars
  PROVE  TypeOK' /\ Pace'
<1> USE DEF TypeOK, Pace
<1>0. /\ reader' = reader /\ files' = files /\ size' = size
      /\ Part' = Part /\ PerPass' = PerPass
  <2>1. UNCHANGED cell
    BY DEF Next, MainStep, WorkerStep, Submit, SpawnFails, WaitForWorkers, Release, TimeOut,
           StartPass, StartFails, StopReading, EndPass, PassFails, Join, Reuse,
           Born, Take, Leave, Read, ReadRaises, Retire, vars
  <2> QED
    BY <2>1, CellStays
<1>1. CASE Submit
  <2>1. submitted' \in 0..Threads
    BY <1>1, ReadPoolAssumption DEF Submit
  <2>2. queue' \in Seq(Task)
    BY <1>1 DEF Submit, Task
  <2>3. worker' \in [Worker -> {"none", "born", "free", "waiting", "reading", "gone"}]
    BY <1>1 DEF Submit
  <2>4. \A w \in Worker : worker'[w] = "reading" => worker[w] = "reading"
    BY <1>1 DEF Submit
  <2> QED
    BY <1>0, <1>1, <2>1, <2>2, <2>3, <2>4 DEF Submit, Task, loop
<1>2. CASE SpawnFails
  <2>1. queue' \in Seq(Task)
    BY <1>2 DEF SpawnFails, Task
  <2> QED
    BY <1>0, <1>2, <2>1 DEF SpawnFails, Task, loop
<1>3. CASE WaitForWorkers \/ Release \/ TimeOut \/ StopReading \/ Join \/ Reuse
  BY <1>0, <1>3 DEF WaitForWorkers, Release, TimeOut, StopReading, Join, Reuse, pool, loop
<1>4. CASE StartPass
  <2>1. offset < files /\ passes < MaxPasses /\ offset = passes * PerPass
    BY <1>4, ReadPoolAssumption DEF StartPass, More
  <2>2. offset \in Nat
    BY <2>1, PerPassType
  <2>3. queue' \in Seq(Task)
    BY <1>4, <2>1, <2>2, BatchType, RangesType DEF StartPass
  <2>4. offset' = (passes + 1) * PerPass
    BY <1>4, <2>1, OneSliceOn DEF StartPass, Advance
  <2> QED
    BY <1>0, <1>4, <2>1, <2>3, <2>4 DEF StartPass, Task
<1>5. CASE StartFails
  <2>1. offset' = (passes + 1) * PerPass
    BY <1>5, OneSliceOn DEF StartFails, Advance
  <2> QED
    BY <1>0, <1>5, <2>1 DEF StartFails, pool
<1>6. CASE EndPass
  <2>1. passes' \in 0..MaxPasses
    BY <1>6, ReadPoolAssumption DEF EndPass
  <2> QED
    BY <1>0, <1>6, <2>1 DEF EndPass, CloseFd, pool
<1>7. CASE PassFails
  BY <1>0, <1>7 DEF PassFails, CloseFd, loop
<1>8. ASSUME NEW w \in Worker, Take(w) PROVE TypeOK' /\ Pace'
  <2>1. queue \in Seq(Task) /\ queue # <<>>
    BY <1>8 DEF Take, Task
  <2>2. Head(queue) \in Task /\ Tail(queue) \in Seq(Task)
    BY <2>1, HeadTailProperties
  <2>3. task' = [task EXCEPT ![w] = Head(queue)] /\ queue' = Tail(queue)
    BY <1>8 DEF Take
  <2>4. worker' = [worker EXCEPT ![w] = IF Head(queue) = Wait THEN "waiting" ELSE "reading"]
    BY <1>8 DEF Take
  <2>5. \A v \in Worker : worker'[v] = "reading" => task'[v] \in Part
    BY <2>2, <2>3, <2>4 DEF Task
  <2> QED
    BY <1>0, <1>8, <2>2, <2>3, <2>4, <2>5 DEF Take, Task, loop
<1>9. ASSUME NEW w \in Worker, Born(w) \/ Leave(w) \/ ReadRaises(w) \/ Retire(w)
      PROVE  TypeOK' /\ Pace'
  <2>1. \E at \in {"free", "gone"} : worker' = [worker EXCEPT ![w] = at]
    BY <1>9 DEF Born, Leave, ReadRaises, Retire
  <2>2. /\ UNCHANGED <<fd, main, task, queue, submitted, barrier, loop>>
        /\ raised' \in {raised, TRUE}
    BY <1>9 DEF Born, Leave, ReadRaises, Retire
  <2> QED
    BY <1>0, <2>1, <2>2 DEF loop
<1>10. ASSUME NEW w \in Worker, Read(w) PROVE TypeOK' /\ Pace'
  <2>1. task[w] \in Part /\ reads[task[w]] + 1 \in Nat
    BY <1>10 DEF Read
  <2>2. reads' \in [Part -> Nat]
    BY <1>10, <2>1 DEF Read
  <2> QED
    BY <1>0, <1>10, <2>2 DEF Read
<1>11. CASE UNCHANGED vars
  BY <1>0, <1>11 DEF vars, pool, loop
<1> QED
  BY <1>1, <1>2, <1>3, <1>4, <1>5, <1>6, <1>7, <1>8, <1>9, <1>10, <1>11
  DEF Next, MainStep, WorkerStep

LEMMA OffsetType == ASSUME TypeOK PROVE offset \in Nat
<1>1. passes * PerPass \in Nat /\ (passes + 1) * PerPass \in Nat
  BY PerPassType DEF TypeOK
<1> QED
  BY <1>1 DEF TypeOK

-----------------------------------------------------------------------------
(* Threads.                                                                *)

\* The descriptor's number is used again only after the last worker has gone.
GoneWhenDone ==
  /\ main = "done" => \A w \in Worker : worker[w] \in {"none", "gone"}
  /\ fd = "reused" => main = "done"

\* Once the barrier has let the main thread go on, all threads run.
Started == main \in {"check", "read"} => \A w \in Worker : worker[w] \notin {"none", "born"}

LEMMA ThreadsStep ==
  ASSUME TypeOK, Started, GoneWhenDone, [Next]_vars
  PROVE  Started' /\ GoneWhenDone'
<1> USE DEF TypeOK, Started, GoneWhenDone
<1>1. CASE Release
  BY <1>1 DEF Release, Full, Waiting, pool
<1>2. CASE Join
  BY <1>2 DEF Join, Created, pool
<1>3. CASE Submit
  <2>1. main = "submit" /\ main' = "submit" /\ fd' = fd
    BY <1>3 DEF Submit
  <2> QED
    BY <2>1
<1>4. CASE \/ SpawnFails \/ WaitForWorkers \/ TimeOut \/ StartPass \/ StartFails
           \/ StopReading \/ EndPass \/ PassFails \/ Reuse
  BY <1>4 DEF SpawnFails, WaitForWorkers, TimeOut, StartPass, StartFails, StopReading,
              EndPass, PassFails, CloseFd, Reuse, pool
<1>5. ASSUME NEW w \in Worker, WorkerStep(w)
      PROVE  Started' /\ GoneWhenDone'
  <2>1. /\ main' = main /\ fd' = fd
        /\ worker[w] \in {"born", "free", "waiting", "reading"}
        /\ worker'[w] \in {"free", "waiting", "reading", "gone"}
        /\ \A v \in Worker \ {w} : worker'[v] = worker[v]
    BY <1>5 DEF WorkerStep, Born, Take, Leave, Read, ReadRaises, Retire
  <2> QED
    BY <2>1
<1>6. CASE UNCHANGED vars
  BY <1>6 DEF vars, pool
<1> QED
  BY <1>1, <1>2, <1>3, <1>4, <1>5, <1>6 DEF Next, MainStep

\* Each barrier task that was submitted has started the next thread.
Spawned == \A w \in Worker : worker[w] = "none" <=> w > submitted

LEMMA SpawnedStep ==
  ASSUME TypeOK, Spawned, [Next]_vars
  PROVE  Spawned'
<1> USE DEF TypeOK, Spawned
<1>1. CASE Submit
  <2>1. /\ submitted \in Nat /\ submitted' = submitted + 1
        /\ worker' = [worker EXCEPT ![submitted + 1] = "born"]
    BY <1>1, ReadPoolAssumption DEF Submit
  <2>2. \A w \in Worker : worker'[w] = IF w = submitted + 1 THEN "born" ELSE worker[w]
    BY <2>1
  <2> QED
    BY <2>1, <2>2 DEF Worker
<1>2. CASE \/ SpawnFails \/ WaitForWorkers \/ Release \/ TimeOut \/ StartPass \/ StartFails
           \/ StopReading \/ EndPass \/ PassFails \/ Join \/ Reuse \/ UNCHANGED vars
  <2>1. UNCHANGED <<worker, submitted>>
    BY <1>2 DEF SpawnFails, WaitForWorkers, Release, TimeOut, StartPass, StartFails,
                StopReading, EndPass, PassFails, Join, Reuse, vars, pool
  <2> QED
    BY <2>1
<1>3. ASSUME NEW w \in Worker, WorkerStep(w)
      PROVE  Spawned'
  <2>1. /\ submitted' = submitted /\ worker[w] # "none" /\ worker'[w] # "none"
        /\ \A v \in Worker \ {w} : worker'[v] = worker[v]
    BY <1>3 DEF WorkerStep, Born, Take, Leave, Read, ReadRaises, Retire
  <2> QED
    BY <2>1
<1> QED
  BY <1>1, <1>2, <1>3 DEF Next, MainStep

-----------------------------------------------------------------------------
(* Parts.                                                                  *)

Queued(p) == \E i \in 1..Len(queue) : queue[i] = p

BeingRead(p) == \E w \in Worker : worker[w] = "reading" /\ task[w] = p

\* The parts of the passes begun so far.
HandedOut(p) ==
  IF reader = "ranged" THEN offset > 0 /\ p \in Worker ELSE p \in 1..files /\ p <= offset

\* A part is in one place: queued once, or with one worker, or read once.
EachOnce ==
  /\ \A i, j \in 1..Len(queue) : queue[i] = queue[j] /\ queue[i] # Wait => i = j
  /\ \A v, w \in Worker :
       worker[v] = "reading" /\ worker[w] = "reading" /\ task[v] = task[w] => v = w
  /\ \A p \in Part : BeingRead(p) => ~Queued(p)
  /\ \A p \in Part : Queued(p) \/ BeingRead(p) => reads[p] = 0
  /\ ReadOnce

OnlyHandedOut == \A p \in Part : Queued(p) \/ BeingRead(p) \/ reads[p] # 0 => HandedOut(p)

\* Unless something fails, no part gets lost.
Kept ==
  ~raised => \A p \in Part : HandedOut(p) => Queued(p) \/ BeingRead(p) \/ reads[p] = 1

\* Parts are on their way only while a pass is being read.
Idle == ~raised /\ main # "read" => \A p \in Part : ~Queued(p) /\ ~BeingRead(p)

PartsInv == EachOnce /\ OnlyHandedOut /\ Kept /\ Idle

\* A step that moves no part.
LEMMA PartsStay ==
  ASSUME TypeOK, PartsInv, UNCHANGED cell, UNCHANGED reads,
         \A p \in Part : Queued(p)' => Queued(p),
         \A i, j \in 1..Len(queue') : queue'[i] = queue'[j] /\ queue'[i] # Wait => i = j,
         \A w \in Worker : worker'[w] = "reading" <=> worker[w] = "reading",
         task' = task,
         offset' >= offset, offset' \in Int,
         raised => raised',
         ~raised' => /\ \A p \in Part : Queued(p) => Queued(p)'
                     /\ offset' = offset
                     /\ main' # "read" /\ main = "read" => \A p \in Part : ~Queued(p) /\ ~BeingRead(p)
                     /\ main' = "read" => main = "read"
  PROVE  PartsInv'
<1> USE DEF PartsInv
<1>1. \A p : BeingRead(p)' <=> BeingRead(p)
  BY DEF BeingRead
<1>0. Part' = Part /\ reader' = reader /\ files' = files /\ offset \in Nat
  BY CellStays, OffsetType
<1>2. \A p \in Part : HandedOut(p) => HandedOut(p)'
  BY <1>0 DEF HandedOut, Part
<1>3. EachOnce'
  BY <1>0, <1>1 DEF EachOnce, ReadOnce
<1>4. OnlyHandedOut'
  BY <1>0, <1>1, <1>2 DEF OnlyHandedOut
<1>5. Kept'
  BY <1>0, <1>1 DEF Kept, HandedOut
<1>6. Idle'
  BY <1>0, <1>1 DEF Idle
<1> QED
  BY <1>3, <1>4, <1>5, <1>6

\* The steps of the main thread and of idle workers.
LEMMA QuietStep ==
  ASSUME TypeOK, Pace, Spawned, PartsInv,
         \/ Submit \/ SpawnFails \/ WaitForWorkers \/ Release \/ TimeOut \/ StartFails
         \/ StopReading \/ EndPass \/ PassFails \/ Join \/ Reuse \/ UNCHANGED vars
         \/ \E w \in Worker : Born(w) \/ Leave(w) \/ Retire(w)
  PROVE  PartsInv'
<1>1. CASE Submit \/ SpawnFails
  <2>1. queue \in Seq(Task) /\ queue' = Append(queue, Wait)
    BY <1>1 DEF Submit, SpawnFails, TypeOK, Task
  <2>2. /\ Len(queue') = Len(queue) + 1 /\ Len(queue) \in Nat
        /\ queue'[Len(queue) + 1] = Wait
        /\ \A i \in 1..Len(queue) : queue'[i] = queue[i]
    BY <2>1
  <2>3. \A p \in Part : Queued(p)' <=> Queued(p)
    BY <2>2 DEF Queued, Part, Wait
  <2>4. \A i, j \in 1..Len(queue') : queue'[i] = queue'[j] /\ queue'[i] # Wait => i = j
    BY <2>2 DEF PartsInv, EachOnce
  <2>5. \A w \in Worker : worker'[w] = "reading" <=> worker[w] = "reading"
    <3>1. CASE SpawnFails
      BY <3>1 DEF SpawnFails
    <3>2. CASE Submit
      <4>1. submitted \in Nat /\ worker' = [worker EXCEPT ![submitted + 1] = "born"]
        BY <3>2, ReadPoolAssumption DEF Submit, TypeOK
      <4>2. submitted + 1 \in Worker => worker[submitted + 1] = "none"
        BY <4>1 DEF Spawned
      <4> QED
        BY <4>1, <4>2 DEF TypeOK
    <3> QED
      BY <1>1, <3>1, <3>2
  <2>6. /\ UNCHANGED <<cell, reads, task, offset>> /\ offset \in Int
        /\ main = "submit" /\ main' \in {"submit", "join"}
        /\ raised' = raised \/ raised' = TRUE
    BY <1>1, PerPassType DEF Submit, SpawnFails, loop, TypeOK
  <2> QED
    BY <2>3, <2>4, <2>5, <2>6, PartsStay
<1>2. CASE \E w \in Worker : Born(w) \/ Leave(w) \/ Retire(w)
  <2>1. PICK w \in Worker : Born(w) \/ Leave(w) \/ Retire(w)
    BY <1>2
  <2>2. \A v \in Worker : worker'[v] = "reading" <=> worker[v] = "reading"
    BY <2>1 DEF Born, Leave, Retire, TypeOK
  <2>3. UNCHANGED <<cell, reads, task, queue, offset, raised, main>> /\ offset \in Int
    BY <2>1, PerPassType DEF Born, Leave, Retire, loop, TypeOK
  <2>4. \A p : Queued(p)' <=> Queued(p)
    BY <2>3 DEF Queued
  <2> QED
    BY <2>2, <2>3, <2>4, PartsStay DEF PartsInv, EachOnce
<1>3. CASE \/ WaitForWorkers \/ Release \/ TimeOut \/ StopReading
           \/ Join \/ Reuse \/ UNCHANGED vars
  <2>1. /\ UNCHANGED <<cell, reads, task, queue, worker, offset>> /\ offset \in Int
        /\ raised' = raised \/ raised' = TRUE
        /\ main' = main \/ (main # "read" /\ main' # "read")
    BY <1>3, PerPassType
    DEF WaitForWorkers, Release, TimeOut, StopReading, Join, Reuse, vars, pool, loop, TypeOK
  <2>2. \A p : Queued(p)' <=> Queued(p)
    BY <2>1 DEF Queued
  <2> QED
    BY <2>1, <2>2, PartsStay DEF PartsInv, EachOnce
<1>4. CASE StartFails
  <2>1. /\ UNCHANGED <<cell, reads, task, queue, worker>> /\ raised' = TRUE
        /\ offset' = offset + PerPass /\ offset \in Int
    BY <1>4, PerPassType DEF StartFails, Advance, pool, TypeOK
  <2>2. \A p : Queued(p)' <=> Queued(p)
    BY <2>1 DEF Queued
  <2>3. offset' \in Int /\ offset' >= offset
    BY <2>1, PerPassType DEF TypeOK
  <2> QED
    BY <2>1, <2>2, <2>3, PartsStay DEF PartsInv, EachOnce
<1>5. CASE EndPass
  <2>1. /\ UNCHANGED <<cell, reads, task, queue, worker, offset, raised>> /\ offset \in Int
        /\ main' = "check" /\ \A p : ~Queued(p) /\ ~BeingRead(p)
    BY <1>5, PerPassType DEF EndPass, pool, TypeOK, Queued, BeingRead
  <2>2. \A p : Queued(p)' <=> Queued(p)
    BY <2>1 DEF Queued
  <2> QED
    BY <2>1, <2>2, PartsStay DEF PartsInv, EachOnce
<1>6. CASE PassFails
  <2>1. /\ UNCHANGED <<cell, reads, task, worker, offset, raised>> /\ offset \in Int
        /\ raised /\ queue' = <<>>
    BY <1>6, PerPassType DEF PassFails, loop, TypeOK
  <2>2. Len(queue') = 0
    BY <2>1
  <2>3. \A p : ~Queued(p)'
    BY <2>2 DEF Queued
  <2> QED
    BY <2>1, <2>2, <2>3, PartsStay
<1> QED
  BY <1>1, <1>2, <1>3, <1>4, <1>5, <1>6

\* A pass hands out parts that nobody has seen yet.
LEMMA PassStep ==
  ASSUME TypeOK, Pace, PartsInv, StartPass
  PROVE  PartsInv'
<1>1. /\ offset < files /\ UNCHANGED <<cell, worker, task, reads, raised>>
      /\ offset' = offset + PerPass /\ main' = "read" /\ main = "check"
  BY DEF StartPass, More, Advance
<1>0. reader' = reader /\ files' = files /\ Part' = Part /\ files \in Nat
  BY <1>1, CellStays DEF TypeOK
<1>2. offset \in Nat /\ PerPass \in Nat \ {0}
  BY OffsetType, PerPassType DEF TypeOK
<1>3. \A p : BeingRead(p)' <=> BeingRead(p)
  BY <1>1 DEF BeingRead
<1>4. /\ \A i, j \in 1..Len(queue') : queue'[i] = queue'[j] => i = j
      /\ \A p \in Part : Queued(p)' <=> HandedOut(p)' /\ ~HandedOut(p)
  <2>1. CASE reader = "ranged"
    <3>1. offset = 0 /\ offset' > 0 /\ reader' = "ranged"
      BY <1>0, <1>1, <1>2, <2>1 DEF TypeOK
    <3>2. Len(queue') = Threads /\ \A i \in 1..Threads : queue'[i] = i
      BY <1>1, <2>1, RangesType DEF StartPass, TypeOK
    <3>3. \A p : Queued(p)' <=> p \in Worker
      BY <3>2, ReadPoolAssumption DEF Queued, Worker
    <3>4. \A p : HandedOut(p)' <=> p \in Worker
      BY <3>1 DEF HandedOut
    <3>5. \A p : ~HandedOut(p)
      BY <2>1, <3>1 DEF HandedOut
    <3> QED
      BY <3>2, <3>3, <3>4, <3>5
  <2>2. CASE reader # "ranged"
    <3> DEFINE n == IF files - offset < PerPass THEN files - offset ELSE PerPass
    <3>2. n \in Nat /\ n <= PerPass /\ offset + n <= files /\ (offset + n = files \/ n = PerPass)
      BY <1>1, <1>2 DEF TypeOK
    <3>3. queue' = [k \in 1..n |-> offset + k]
      BY <2>2 DEF StartPass, Batch, Slice
    <3> HIDE DEF n
    <3>4. Len(queue') = n /\ \A i \in 1..n : queue'[i] = offset + i
      BY <3>2, <3>3
    <3>5. \A p \in Part : HandedOut(p)' <=> p <= files /\ p <= offset + PerPass
      BY <1>0, <1>1, <2>2 DEF HandedOut, Part
    <3>6. \A p \in Part : HandedOut(p) <=> p <= files /\ p <= offset
      BY <2>2 DEF HandedOut, Part
    <3>7. ASSUME NEW p \in Part PROVE Queued(p)' <=> offset < p /\ p <= offset + n
      <4>1. ASSUME offset < p, p <= offset + n PROVE Queued(p)'
        <5>1. p - offset \in 1..n /\ offset + (p - offset) = p
          BY <1>2, <3>2, <4>1 DEF Part
        <5> QED
          BY <3>4, <5>1 DEF Queued
      <4>2. ASSUME Queued(p)' PROVE offset < p /\ p <= offset + n
        BY <1>2, <3>2, <3>4, <4>2 DEF Queued
      <4> QED
        BY <4>1, <4>2
    <3>8. \A p \in Part : Queued(p)' <=> HandedOut(p)' /\ ~HandedOut(p)
      BY <1>0, <1>2, <3>2, <3>5, <3>6, <3>7, ReadPoolAssumption DEF Part
    <3>9. \A i, j \in 1..Len(queue') : queue'[i] = queue'[j] => i = j
      BY <1>2, <3>2, <3>4
    <3> QED
      BY <3>8, <3>9
  <2> QED
    BY <2>1, <2>2
<1>5. \A p \in Part : HandedOut(p) => HandedOut(p)'
  BY <1>0, <1>1, <1>2 DEF HandedOut, Part
<1>6. EachOnce'
  BY <1>0, <1>1, <1>3, <1>4 DEF PartsInv, EachOnce, OnlyHandedOut, ReadOnce
<1>7. OnlyHandedOut'
  BY <1>0, <1>1, <1>3, <1>4, <1>5 DEF PartsInv, OnlyHandedOut
<1>8. Kept'
  BY <1>0, <1>1, <1>3, <1>4 DEF PartsInv, Kept, Idle
<1>9. Idle'
  BY <1>1 DEF Idle
<1> QED
  BY <1>6, <1>7, <1>8, <1>9 DEF PartsInv

\* A worker takes a part from the queue.
LEMMA TakeStep ==
  ASSUME TypeOK, PartsInv, NEW w \in Worker, Take(w)
  PROVE  PartsInv'
<1>1. /\ queue \in Seq(Task) /\ queue # <<>> /\ queue' = Tail(queue)
      /\ worker[w] = "free" /\ task' = [task EXCEPT ![w] = Head(queue)]
      /\ worker' = [worker EXCEPT ![w] = IF Head(queue) = Wait THEN "waiting" ELSE "reading"]
      /\ UNCHANGED <<cell, main, offset, raised, reads>>
  BY DEF Take, TypeOK, Task, loop
<1>0. PICK h \in Task : h = Head(queue)
  BY <1>1, HeadTailProperties
<1>c. reader' = reader /\ files' = files /\ Part' = Part
  BY <1>1, CellStays
<1> DEFINE n == Len(queue)
<1>2. n \in Nat \ {0} /\ Len(queue') = n - 1 /\ h = queue[1]
  BY <1>0, <1>1, HeadTailProperties
<1>3. \A i \in 1..(n - 1) : queue'[i] = queue[i + 1]
  BY <1>1, <1>2, HeadTailProperties
<1> HIDE DEF n
<1>4. \A i \in 1..(n - 1) : i + 1 \in 1..n /\ i + 1 # 1
  BY <1>2
<1>5. /\ task'[w] = h /\ (worker'[w] = "reading" <=> h # Wait)
      /\ \A v \in Worker \ {w} : worker'[v] = worker[v] /\ task'[v] = task[v]
  BY <1>0, <1>1 DEF TypeOK
<1>6. \A p \in Part : BeingRead(p)' <=> BeingRead(p) \/ p = h
  BY <1>1, <1>5 DEF BeingRead, Part, Wait
<1>7. ASSUME NEW p \in Part PROVE Queued(p) <=> Queued(p)' \/ p = h
  <2>1. ASSUME Queued(p), p # h PROVE Queued(p)'
    <3>1. PICK i \in 1..n : queue[i] = p
      BY <2>1 DEF Queued, n
    <3>2. i - 1 \in 1..(n - 1) /\ (i - 1) + 1 = i
      BY <1>2, <2>1, <3>1
    <3> QED
      BY <1>2, <1>3, <3>1, <3>2 DEF Queued
  <2>2. ASSUME Queued(p)' \/ p = h PROVE Queued(p)
    BY <1>2, <1>3, <1>4, <2>2 DEF Queued, n
  <2> QED
    BY <2>1, <2>2
<1>8. \A i, j \in 1..n : queue[i] = queue[j] /\ queue[i] # Wait => i = j
  BY DEF PartsInv, EachOnce, n
<1>9. h # Wait => h \in Part /\ ~Queued(h)' /\ Queued(h)
  <2> SUFFICES ASSUME h # Wait PROVE h \in Part /\ ~Queued(h)' /\ Queued(h)
    OBVIOUS
  <2>1. h \in Part
    BY <1>2 DEF Task
  <2>2. \A i \in 1..(n - 1) : queue'[i] # h
    BY <1>2, <1>3, <1>4, <1>8
  <2> QED
    BY <1>2, <1>7, <2>1, <2>2 DEF Queued
<1>10. EachOnce'
  <2>1. \A i, j \in 1..Len(queue') : queue'[i] = queue'[j] /\ queue'[i] # Wait => i = j
    BY <1>2, <1>3, <1>4, <1>8
  <2>2. \A u, v \in Worker :
          worker'[u] = "reading" /\ worker'[v] = "reading" /\ task'[u] = task'[v] => u = v
    BY <1>5, <1>9 DEF PartsInv, EachOnce, BeingRead
  <2>3. ASSUME NEW p \in Part, BeingRead(p)' PROVE ~Queued(p)'
    <3>1. CASE p = h
      BY <1>9, <3>1 DEF Part, Wait
    <3>2. CASE p # h
      BY <1>6, <1>7, <2>3, <3>2 DEF PartsInv, EachOnce
    <3> QED
      BY <3>1, <3>2
  <2>4. ASSUME NEW p \in Part, Queued(p)' \/ BeingRead(p)' PROVE reads'[p] = 0
    <3>1. Queued(p) \/ BeingRead(p)
      BY <1>6, <1>7, <2>4
    <3> QED
      BY <1>1, <3>1 DEF PartsInv, EachOnce
  <2>5. ReadOnce'
    BY <1>1, <1>c DEF PartsInv, EachOnce, ReadOnce
  <2> QED
    BY <1>c, <2>1, <2>2, <2>3, <2>4, <2>5 DEF EachOnce
<1>11. \A p : HandedOut(p)' <=> HandedOut(p)
  BY <1>1, <1>c DEF HandedOut
<1>12. OnlyHandedOut' /\ Kept'
  BY <1>1, <1>c, <1>6, <1>7, <1>11 DEF PartsInv, OnlyHandedOut, Kept, Part, Wait
<1>13. Idle'
  BY <1>1, <1>c, <1>6, <1>7 DEF PartsInv, Idle
<1> QED
  BY <1>10, <1>12, <1>13 DEF PartsInv

\* A worker is done with a part, or has failed with it.
LEMMA ReadStep ==
  ASSUME TypeOK, PartsInv, NEW w \in Worker, Read(w) \/ ReadRaises(w)
  PROVE  PartsInv'
<1> DEFINE p == task[w]
<1>1. /\ worker[w] = "reading" /\ p \in Part /\ BeingRead(p)
      /\ worker' = [worker EXCEPT ![w] = "free"]
      /\ UNCHANGED <<cell, main, offset, queue, task>>
  BY DEF Read, ReadRaises, TypeOK, BeingRead, loop
<1>c. reader' = reader /\ files' = files /\ Part' = Part
  BY <1>1, CellStays
<1>2. reads[p] = 0 /\ ~Queued(p)
  BY <1>1 DEF PartsInv, EachOnce
<1>3. \/ raised' = raised /\ reads' = [reads EXCEPT ![p] = 1]
      \/ raised' = TRUE /\ reads' = reads
  BY <1>2 DEF Read, ReadRaises, loop, TypeOK
<1>4. \A q : Queued(q)' <=> Queued(q)
  BY <1>1 DEF Queued
<1>5. \A q \in Part : BeingRead(q)' <=> BeingRead(q) /\ q # p
  BY <1>1 DEF BeingRead, PartsInv, EachOnce, TypeOK
<1>6. \A q : HandedOut(q)' <=> HandedOut(q)
  BY <1>1, <1>c DEF HandedOut
<1> HIDE DEF p
<1>7. reads \in [Part -> Nat] /\ \A q \in Part : q # p => reads'[q] = reads[q]
  BY <1>1, <1>3 DEF TypeOK
<1>8. EachOnce'
  <2>1. \A q \in Part : Queued(q)' \/ BeingRead(q)' => reads'[q] = 0
    BY <1>2, <1>4, <1>5, <1>7 DEF PartsInv, EachOnce
  <2>2. ReadOnce'
    <3>1. reads'[p] <= 1
      BY <1>1, <1>2, <1>3, <1>7
    <3>2. \A q \in Part : q # p => reads'[q] <= 1
      BY <1>7 DEF PartsInv, EachOnce, ReadOnce
    <3> QED
      BY <1>c, <3>1, <3>2 DEF ReadOnce
  <2>3. \A u, v \in Worker :
          worker'[u] = "reading" /\ worker'[v] = "reading" /\ task'[u] = task'[v] => u = v
    BY <1>1 DEF PartsInv, EachOnce, TypeOK
  <2> QED
    BY <1>1, <1>c, <1>4, <1>5, <2>1, <2>2, <2>3 DEF PartsInv, EachOnce
<1>9. OnlyHandedOut'
  BY <1>1, <1>c, <1>4, <1>5, <1>6, <1>7 DEF PartsInv, OnlyHandedOut
<1>10. Kept'
  <2>1. ASSUME ~raised', NEW q \in Part, HandedOut(q)'
        PROVE  Queued(q)' \/ BeingRead(q)' \/ reads'[q] = 1
    <3>1. ~raised /\ reads' = [reads EXCEPT ![p] = 1]
      BY <1>3, <2>1
    <3>2. Queued(q) \/ BeingRead(q) \/ reads[q] = 1
      BY <1>6, <2>1, <3>1 DEF PartsInv, Kept
    <3> QED
      BY <1>1, <1>4, <1>5, <1>7, <3>1, <3>2
  <2> QED
    BY <1>c, <2>1 DEF Kept
<1>11. Idle'
  BY <1>1, <1>c, <1>3, <1>4, <1>5 DEF PartsInv, Idle
<1> QED
  BY <1>8, <1>9, <1>10, <1>11 DEF PartsInv

-----------------------------------------------------------------------------
(* What a read that ends without an error has read.                        *)

\* How the loop of read_until can have come to its end.
Ending ==
  /\ ~raised /\ main # "read" => offset = passes * PerPass
  /\ ~raised /\ main \in {"join", "done"} => ~More
  /\ enough => passes > 0
  /\ reader = "many" => passes <= 1 /\ (main = "read" => passes = 0)

LEMMA EndingStep ==
  ASSUME TypeOK, Pace, Ending, [Next]_vars
  PROVE  Ending'
<1> USE DEF TypeOK, Pace, Ending
<1>1. PerPass \in Nat \ {0} /\ files \in Nat \ {0} /\ offset \in Nat /\ MaxPasses \in Nat \ {0}
  BY PerPassType, OffsetType, ReadPoolAssumption
<1>2. CASE StartPass
  <2>1. /\ main = "check" /\ main' = "read" /\ offset < files
        /\ UNCHANGED <<cell, passes, enough, raised>>
    BY <1>2 DEF StartPass, More
  <2>2. ASSUME reader = "many" PROVE passes = 0
    <3>1. PerPass = files
      BY <2>2 DEF PerPass
    <3>2. passes # 1
      BY <1>1, <2>1, <3>1
    <3> QED
      BY <2>2, <3>2
  <2>3. reader' = reader /\ files' = files /\ PerPass' = PerPass
    BY <2>1, CellStays
  <2> QED
    BY <1>1, <2>1, <2>2, <2>3
<1>3. CASE EndPass
  <2>1. /\ main = "read" /\ main' = "check" /\ UNCHANGED <<cell, offset>>
        /\ passes' = passes + 1
    BY <1>3 DEF EndPass
  <2>2. reader' = reader /\ files' = files /\ PerPass' = PerPass
    BY <2>1, CellStays
  <2> QED
    BY <1>1, <2>1, <2>2
<1>4. CASE \/ Submit \/ SpawnFails \/ WaitForWorkers \/ Release \/ TimeOut \/ StartFails
           \/ StopReading \/ PassFails \/ Join \/ Reuse \/ UNCHANGED vars
           \/ \E w \in Worker : WorkerStep(w)
  <2>1. /\ UNCHANGED <<cell, passes, enough>>
        /\ offset' = offset \/ raised' = TRUE
        /\ raised => raised'
        /\ main' = "read" => main = "read"
        /\ main = "read" => raised' \/ main' = "read"
        /\ ~raised' /\ main' \in {"join", "done"} => main \in {"join", "done"} \/ ~More
    BY <1>4 DEF Submit, SpawnFails, WaitForWorkers, Release, TimeOut, StartFails, StopReading,
                PassFails, Join, Reuse, WorkerStep, Born, Take, Leave, Read, ReadRaises,
                Retire, vars, pool, loop
  <2>2. /\ reader' = reader /\ files' = files /\ PerPass' = PerPass
        /\ offset' = offset => More' = More
    BY <2>1, CellStays DEF More
  <2> QED
    BY <2>1, <2>2
<1> QED
  BY <1>2, <1>3, <1>4 DEF Next, MainStep

\* Equal spans and a last one with the rest: every byte of the file is in the
\* range of one worker (ranged_reader).
LEMMA RangesPartition ==
  ASSUME size \in Nat, NEW b \in 0..(size - 1)
  PROVE  \E k \in Worker : {l \in Worker : b \in Bytes(l)} = {k}
<1> DEFINE From(k) == (k - 1) * Span
           To(k) == IF k = Threads THEN size ELSE k * Span
<1>1. Span \in Nat /\ Threads \in Nat \ {0} /\ size \in Nat /\ b \in Nat
  BY ReadPoolAssumption DEF Span
<1>2. \A l \in Worker : b \in Bytes(l) <=> From(l) <= b /\ b < To(l)
  BY <1>1 DEF Bytes, Worker
<1>3. \A k, l \in Nat : k <= l => k * Span <= l * Span
  BY <1>1
<1>4. \E k \in Worker : b \in Bytes(k)
  <2>1. CASE From(Threads) <= b
    BY <1>1, <1>2, <2>1 DEF Worker
  <2>2. CASE b < From(Threads)
    <3>1. Span # 0
      BY <1>1, <2>2
    <3> DEFINE q == b \div Span
    <3>2. q \in Nat /\ q * Span <= b /\ b < (q + 1) * Span
      BY <1>1, <3>1
    <3> HIDE DEF q
    <3>3. q < Threads - 1
      BY <1>1, <1>3, <2>2, <3>2
    <3>4. q + 1 \in Worker /\ q + 1 # Threads /\ (q + 1) - 1 = q
      BY <1>1, <3>2, <3>3 DEF Worker
    <3> QED
      BY <1>2, <3>2, <3>4
  <2> QED
    BY <1>1, <2>1, <2>2
<1>5. ASSUME NEW k \in Worker, NEW l \in Worker, k < l, b \in Bytes(k), b \in Bytes(l)
      PROVE  FALSE
  <2>1. k # Threads /\ k <= l - 1 /\ k \in Nat /\ l - 1 \in Nat
    BY <1>1, <1>5 DEF Worker
  <2>2. b < k * Span /\ (l - 1) * Span <= b
    BY <1>2, <1>5, <2>1
  <2>3. k * Span <= (l - 1) * Span
    BY <1>3, <2>1
  <2>4. k * Span \in Int /\ (l - 1) * Span \in Int
    BY <1>1, <2>1
  <2> QED
    BY <1>1, <2>2, <2>3, <2>4
<1>6. \A k, l \in Worker : b \in Bytes(k) /\ b \in Bytes(l) => k = l
  <2>1. \A k, l \in Worker : k < l \/ l < k \/ k = l
    BY DEF Worker
  <2> QED
    BY <1>5, <2>1
<1> QED
  BY <1>4, <1>6

-----------------------------------------------------------------------------
IInv ==
  TypeOK /\ Pace /\ Started /\ Spawned /\ GoneWhenDone /\ PartsInv /\ Ending

LEMMA InitInv == Init => IInv
<1> SUFFICES ASSUME Init PROVE IInv
  OBVIOUS
<1>1. TypeOK /\ Pace
  BY InitType
<1>2. Started /\ Spawned /\ GoneWhenDone /\ Ending
  BY <1>1 DEF Init, Started, Spawned, GoneWhenDone, Ending, Pace, Worker
<1>3. \A p : ~Queued(p) /\ ~BeingRead(p) /\ (p \in Part => ~HandedOut(p))
  BY DEF Init, Queued, BeingRead, HandedOut, Part
<1>4. PartsInv
  BY <1>3 DEF Init, PartsInv, EachOnce, ReadOnce, OnlyHandedOut, Kept, Idle
<1> QED
  BY <1>1, <1>2, <1>4 DEF IInv

\* The inductive invariant holds in every behaviour.
THEOREM Invariance == Spec => []IInv
<1>1. IInv /\ [Next]_vars => IInv'
  <2> SUFFICES ASSUME IInv, [Next]_vars PROVE IInv'
    OBVIOUS
  <2>1. PartsInv'
    BY QuietStep, PassStep, TakeStep, ReadStep DEF IInv, Next, MainStep, WorkerStep
  <2> QED
    BY <2>1, StepType, ThreadsStep, SpawnedStep, EndingStep DEF IInv
<1> QED
  BY InitInv, <1>1, PTL DEF Spec

\* The state of the pool and of the loop has its type, and the offset counts
\* whole slices.
THEOREM TypeCorrect == Spec => []TypeOK
<1>1. IInv => TypeOK
  BY DEF IInv
<1> QED
  BY Invariance, <1>1, PTL

\* No pass pays for the start of a thread, whatever the number of threads
\* (io.py:91-99).
THEOREM ThreadsUpBeforeTheClock == Spec => []AllWorkersAtStart
<1>1. IInv => AllWorkersAtStart
  BY DEF IInv, Started, AllWorkersAtStart
<1> QED
  BY Invariance, <1>1, PTL

\* Nothing is read twice, so every pass is cold, whatever the number of files
\* and threads and whatever fails on the way (io.py:123-128).
THEOREM EveryPassIsCold == Spec => []ReadOnce
<1>1. IInv => ReadOnce
  BY DEF IInv, PartsInv, EachOnce
<1> QED
  BY Invariance, <1>1, PTL

\* No worker is left to read through a descriptor number that another file has
\* by now (io.py:182-193).
THEOREM NobodyReadsAnotherFile == Spec => []NoForeignRead
<1>1. IInv => NoForeignRead
  BY DEF IInv, GoneWhenDone, NoForeignRead
<1> QED
  BY Invariance, <1>1, PTL

\* A rate is reported of whole slices with no file left out between them, of all
\* files, or of every byte of the one file once (io.py:108-117, 130-132,
\* 147-154, 166-169).
THEOREM RatesAreOfWholePasses == Spec => []PassesAddUp
<1>1. IInv => PassesAddUp
  <2> SUFFICES ASSUME IInv, main = "done", ~raised
               PROVE  IF reader = "ranged"
                      THEN \A b \in 0..(size - 1) : \E k \in Worker :
                             reads[k] = 1 /\ {l \in Worker : b \in Bytes(l)} = {k}
                      ELSE /\ {f \in 1..files : reads[f] = 1} =
                                {f \in 1..files : f <= passes * PerPass}
                           /\ reader = "until" =>
                                enough \/ passes = MaxPasses \/ passes * PerPass >= files
                           /\ reader = "many" => passes = 1
    BY DEF PassesAddUp
  <2>0. files \in Nat \ {0} /\ size \in Nat /\ PerPass \in Nat \ {0}
    BY PerPassType DEF IInv, TypeOK
  <2>1. /\ offset = passes * PerPass /\ passes \in 0..MaxPasses
        /\ enough \/ offset >= files \/ passes = MaxPasses
        /\ enough => passes > 0
    BY OffsetType, PerPassType, ReadPoolAssumption DEF IInv, Ending, More, TypeOK
  <2>2. passes > 0
    BY <2>0, <2>1, ReadPoolAssumption
  <2>3. offset > 0
    BY <2>0, <2>1, <2>2
  <2>4. \A p \in Part : reads[p] = 1 <=> HandedOut(p)
    BY DEF IInv, PartsInv, Kept, Idle, OnlyHandedOut
  <2>5. CASE reader = "ranged"
    <3>1. \A k \in Worker : reads[k] = 1
      BY <2>0, <2>3, <2>4, <2>5, ReadPoolAssumption DEF HandedOut, Worker, Part
    <3> QED
      BY <2>0, <2>5, <3>1, RangesPartition
  <2>6. CASE reader # "ranged"
    <3>1. \A f \in 1..files : reads[f] = 1 <=> f <= offset
      BY <2>0, <2>4, <2>6, ReadPoolAssumption DEF HandedOut, Part
    <3>2. reader = "many" => passes = 1
      BY <2>1, <2>2 DEF IInv, Ending
    <3> QED
      BY <2>1, <2>6, <3>1, <3>2
  <2> QED
    BY <2>5, <2>6
<1> QED
  BY Invariance, <1>1, PTL
=============================================================================
