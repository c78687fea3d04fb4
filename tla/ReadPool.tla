------------------------------ MODULE ReadPool ------------------------------
(***************************************************************************)
(* A timed read of one cell (layout_tuning/io.py: prewarm over a           *)
(* ThreadPoolExecutor, and the readers on top of it).  The main thread     *)
(* fills the pool with workers that meet it at a barrier, then reads the   *)
(* files slice by slice (read_until), all at once (read_many) or one file  *)
(* in ranges (ranged_reader), and leaves the pool, which waits for every   *)
(* worker.                                                                 *)
(* Executor and Barrier are Python's; what they do is modelled from how    *)
(* io.py uses them.                                                        *)
(***************************************************************************)
EXTENDS Integers, Sequences

CONSTANTS
  Threads,    \* max_workers of the pool
  UntilCounts, ManyCounts,  \* the values of len(paths) in either reader
  Sizes,      \* the sizes in bytes of the one file that is read in ranges
  MaxPasses,  \* 50 in the code
  Faults      \* the kinds of fault that may happen

FaultKind == {"spawnFails", "slowStart", "evictFails", "openRaises", "readRaises"}

ASSUME ReadPoolAssumption ==
  /\ Threads \in Nat \ {0}
  /\ UntilCounts \subseteq Nat \ {0}
  /\ ManyCounts \subseteq Nat \ {0}
  /\ Sizes \subseteq Nat
  /\ MaxPasses \in Nat \ {0}
  /\ Faults \subseteq FaultKind

Worker == 1..Threads

\* The task barrier.wait; every other task is the part it reads.
Wait == 0

Reader == {"until", "many", "ranged"}

VARIABLES
  reader,     \* which reader the cell uses
  files,      \* len(paths): read_until reads one path in ranges
  size,       \* size_bytes of that path
  fd,         \* the descriptor the ranges share; "reused": its number has a new file
  main,       \* where the main thread stands
  worker,     \* what each worker does
  task,       \* the task each worker has taken last
  queue,      \* submitted and not yet taken tasks
  submitted,  \* number of barrier tasks submitted
  barrier,    \* "filling", "released" or "broken"
  offset,     \* files handed out so far
  passes,     \* slices read
  enough,     \* the timed region has reached min_seconds
  raised,     \* the cell fails
  reads       \* how often each part was read

cell == <<reader, files, size>>
pool == <<worker, task, queue>>
loop == <<offset, passes, enough, reads>>
vars == <<cell, fd, main, pool, submitted, barrier, loop, raised>>

Created == {w \in Worker : worker[w] # "none"}

\* What a task reads: a file, or a range of the one file.
Part == 1..(IF files > Threads THEN files ELSE Threads)

\* "Enough files per pass to keep every thread busy, and at least one."
\* read_many hands out everything in one pass.
PerPass ==
  IF reader = "many" THEN files
  ELSE IF Threads > files \div 8 THEN Threads
  ELSE files \div 8

Span == size \div Threads

\* The bytes of range k: the last one takes what the division leaves over.
Bytes(k) == ((k - 1) * Span)..((IF k = Threads THEN size ELSE k * Span) - 1)

-----------------------------------------------------------------------------
Init ==
  /\ \/ reader = "until" /\ files \in UntilCounts /\ size = 0
     \/ reader = "many" /\ files \in ManyCounts /\ size = 0
     \/ reader = "ranged" /\ files = 1 /\ size \in Sizes
  /\ fd = "none"
  /\ main = "submit"
  /\ worker = [w \in Worker |-> "none"]
  /\ task = [w \in Worker |-> Wait]
  /\ queue = <<>>
  /\ submitted = 0
  /\ barrier = "filling"
  /\ offset = 0
  /\ passes = 0
  /\ enough = FALSE
  /\ raised = FALSE
  /\ reads = [p \in Part |-> 0]

\* pool.submit(barrier.wait): the executor queues the task, then starts a
\* thread unless it knows of an idle worker.  It learns of one from a worker
\* that has finished a task or (as of Python 3.12) found the queue empty, and
\* neither happens here: a task is queued before its thread starts, and no
\* barrier.wait ends before the last one is submitted.
Submit ==
  /\ main = "submit"
  /\ submitted < Threads
  /\ submitted' = submitted + 1
  /\ queue' = Append(queue, Wait)
  /\ worker' = [worker EXCEPT ![submitted + 1] = "born"]
  /\ UNCHANGED <<cell, fd, main, task, barrier, loop, raised>>

\* "can't start new thread": the task stays queued, the exception leaves
\* prewarm and with it the pool's with statement, whose exit joins the workers.
SpawnFails ==
  /\ main = "submit"
  /\ submitted < Threads
  /\ "spawnFails" \in Faults
  /\ queue' = Append(queue, Wait)
  /\ raised' = TRUE
  /\ main' = "join"
  /\ UNCHANGED <<cell, fd, worker, task, submitted, barrier, loop>>

WaitForWorkers ==
  /\ main = "submit"
  /\ submitted = Threads
  /\ main' = "barrier"
  /\ UNCHANGED <<cell, fd, pool, submitted, barrier, loop, raised>>

Born(w) ==
  /\ worker[w] = "born"
  /\ worker' = [worker EXCEPT ![w] = "free"]
  /\ UNCHANGED <<cell, fd, main, task, queue, submitted, barrier, loop, raised>>

\* A worker takes the oldest task, whatever state the main thread is in.
Take(w) ==
  /\ worker[w] = "free"
  /\ queue # <<>>
  /\ task' = [task EXCEPT ![w] = Head(queue)]
  /\ queue' = Tail(queue)
  /\ worker' = [worker EXCEPT ![w] = IF Head(queue) = Wait THEN "waiting" ELSE "reading"]
  /\ UNCHANGED <<cell, fd, main, submitted, barrier, loop, raised>>

Waiting == {w \in Worker : worker[w] = "waiting"}

\* A bug Full could have: Barrier(threads) instead of Barrier(threads + 1).
FullWithoutMain == \E w \in Worker : Worker \ {w} \subseteq Waiting

\* The barrier has threads + 1 parties, the main thread is one of them.
Full == Waiting = Worker

Release ==
  /\ main = "barrier"
  /\ barrier = "filling"
  /\ Full
  /\ barrier' = "released"
  /\ main' = "check"
  /\ UNCHANGED <<cell, fd, pool, submitted, loop, raised>>

\* barrier.wait(timeout=60): a worker was not there in time.  The barrier
\* breaks for everybody and the cell fails.
TimeOut ==
  /\ main = "barrier"
  /\ barrier = "filling"
  /\ ~Full
  /\ "slowStart" \in Faults
  /\ barrier' = "broken"
  /\ raised' = TRUE
  /\ main' = "join"
  /\ UNCHANGED <<cell, fd, pool, submitted, loop>>

\* A bug Leave could have: the workers wait for the release only.
LeaveReleased(w) ==
  /\ worker[w] = "waiting"
  /\ barrier = "released"
  /\ worker' = [worker EXCEPT ![w] = "free"]
  /\ UNCHANGED <<cell, fd, main, task, queue, submitted, barrier, loop, raised>>

\* barrier.wait returns in a worker, or raises BrokenBarrierError there.
Leave(w) ==
  /\ worker[w] = "waiting"
  /\ barrier \in {"released", "broken"}
  /\ worker' = [worker EXCEPT ![w] = "free"]
  /\ UNCHANGED <<cell, fd, main, task, queue, submitted, barrier, loop, raised>>

\* paths[offset:offset + n], which may be cut short by the end of the list
Slice(n) ==
  [k \in 1..(IF files - offset < n THEN files - offset ELSE n) |-> offset + k]

\* A bug Batch could have: the slices overlap by one file.
BatchOverlapping == Slice(PerPass + 1)

Batch == Slice(PerPass)

\* A bug Advance could have: the offset runs ahead of the slice.
AdvanceTooFar == offset' = offset + PerPass + 1

Advance == offset' = offset + PerPass

More == ~enough /\ offset < files /\ passes < MaxPasses

\* The ranges share a descriptor that the reader opens; a slice needs none.
StartPass ==
  /\ main = "check"
  /\ More
  /\ IF reader = "ranged"
     THEN fd' = "open" /\ queue' = [k \in Worker |-> k]
     ELSE fd' = fd /\ queue' = Batch
  /\ Advance
  /\ main' = "read"
  /\ UNCHANGED <<cell, worker, task, submitted, barrier, passes, enough, raised, reads>>

\* evict runs sync, which may fail (read_many does not evict), and so may the
\* open of the ranges' file.
StartFails ==
  /\ main = "check"
  /\ More
  /\ \/ "evictFails" \in Faults /\ reader # "many"
     \/ "openRaises" \in Faults /\ reader = "ranged"
  /\ Advance
  /\ raised' = TRUE
  /\ main' = "join"
  /\ UNCHANGED <<cell, fd, pool, submitted, barrier, passes, enough, reads>>

StopReading ==
  /\ main = "check"
  /\ ~More
  /\ main' = "join"
  /\ UNCHANGED <<cell, fd, pool, submitted, barrier, loop, raised>>

Read(w) ==
  /\ worker[w] = "reading"
  /\ reads' = [reads EXCEPT ![task[w]] = @ + 1]
  /\ worker' = [worker EXCEPT ![w] = "free"]
  /\ UNCHANGED <<cell, fd, main, task, queue, submitted, barrier>>
  /\ UNCHANGED <<offset, passes, enough, raised>>

\* A task raises, which sum(pool.map(...)) passes on to the main thread; or its
\* descriptor is closed under it (EBADF), which nobody looks at any more.
ReadRaises(w) ==
  /\ worker[w] = "reading"
  /\ "readRaises" \in Faults \/ fd = "closed"
  /\ worker' = [worker EXCEPT ![w] = "free"]
  /\ raised' = TRUE
  /\ UNCHANGED <<cell, fd, main, task, queue, submitted, barrier, loop>>

\* finally: os.close(fd)
CloseFd == fd' = IF fd = "open" THEN "closed" ELSE fd

\* Every result of the slice is there; whether the floor is reached depends on
\* how long that took.
EndPass ==
  /\ main = "read"
  /\ ~raised
  /\ queue = <<>>
  /\ \A w \in Worker : worker[w] # "reading"
  /\ passes' = passes + 1
  /\ enough' \in BOOLEAN
  /\ CloseFd
  /\ main' = "check"
  /\ UNCHANGED <<cell, pool, submitted, barrier, offset, raised, reads>>

\* A result raised: map cancels the tasks nobody has taken, and the exception
\* leaves the with statement while other workers may still be reading, with the
\* descriptor they share already closed.
PassFails ==
  /\ main = "read"
  /\ raised
  /\ queue' = <<>>
  /\ CloseFd
  /\ main' = "join"
  /\ UNCHANGED <<cell, worker, task, submitted, barrier, loop, raised>>

\* shutdown(wait=True): the workers finish what is queued, then end.
Retire(w) ==
  /\ worker[w] = "free"
  /\ main = "join"
  /\ queue = <<>>
  /\ worker' = [worker EXCEPT ![w] = "gone"]
  /\ UNCHANGED <<cell, fd, main, task, queue, submitted, barrier, loop, raised>>

\* A bug Join could have: shutdown(wait=False).
JoinNobody ==
  /\ main = "join"
  /\ main' = "done"
  /\ UNCHANGED <<cell, fd, pool, submitted, barrier, loop, raised>>

Join ==
  /\ main = "join"
  /\ \A w \in Created : worker[w] = "gone"
  /\ main' = "done"
  /\ UNCHANGED <<cell, fd, pool, submitted, barrier, loop, raised>>

\* The process goes on to other files, and open() hands out the number again.
Reuse ==
  /\ main = "done"
  /\ fd = "closed"
  /\ fd' = "reused"
  /\ UNCHANGED <<cell, main, pool, submitted, barrier, loop, raised>>

MainStep ==
  \/ Submit \/ SpawnFails \/ WaitForWorkers \/ Release \/ TimeOut
  \/ StartPass \/ StartFails \/ StopReading \/ EndPass \/ PassFails \/ Join

WorkerStep(w) ==
  Born(w) \/ Take(w) \/ Leave(w) \/ Read(w) \/ ReadRaises(w) \/ Retire(w)

Next == MainStep \/ Reuse \/ \E w \in Worker : WorkerStep(w)

Spec == Init /\ [][Next]_vars

\* Every thread keeps running.
Fairness == WF_vars(MainStep) /\ \A w \in Worker : WF_vars(WorkerStep(w))

FairSpec == Spec /\ Fairness

-----------------------------------------------------------------------------
(* Properties.                                                             *)

TypeOK ==
  /\ reader \in Reader
  /\ files \in Nat \ {0} /\ (reader = "ranged" => files = 1)
  /\ size \in Nat
  /\ fd \in {"none", "open", "closed", "reused"}
  /\ main \in {"submit", "barrier", "check", "read", "join", "done"}
  /\ worker \in [Worker -> {"none", "born", "free", "waiting", "reading", "gone"}]
  /\ task \in [Worker -> Part \cup {Wait}]
  /\ queue \in Seq(Part \cup {Wait})
  /\ submitted \in 0..Threads
  /\ barrier \in {"filling", "released", "broken"}
  /\ offset \in {passes * PerPass, (passes + 1) * PerPass}
  /\ passes \in 0..MaxPasses
  /\ enough \in BOOLEAN
  /\ raised \in BOOLEAN
  /\ reads \in [Part -> Nat]
  /\ \A w \in Worker : worker[w] = "reading" => task[w] \in Part

\* While the clock runs, every worker thread is up: none is still to be started
\* or starting, so no pass pays for it (io.py:91-99).
AllWorkersAtStart ==
  main = "read" => \A w \in Worker : worker[w] \notin {"none", "born"}

\* No file and no range is read twice, so every pass is cold, also while a
\* failed pass is being abandoned (io.py:123-128).
ReadOnce == \A p \in Part : reads[p] <= 1

\* A read that ends without an error has read one full slice per pass and no
\* file between two slices is left out; it stopped because the floor was
\* reached, the passes were spent or the files were.  read_many has read them
\* all, and the ranges hold every byte of their file exactly once
\* (io.py:108-117, 130-132, 147-154, 166-169).
PassesAddUp ==
  main = "done" /\ ~raised =>
    IF reader = "ranged"
    THEN \A b \in 0..(size - 1) : \E k \in Worker :
           reads[k] = 1 /\ {l \in Worker : b \in Bytes(l)} = {k}
    ELSE /\ {f \in 1..files : reads[f] = 1} = {f \in 1..files : f <= passes * PerPass}
         /\ reader = "until" => enough \/ passes = MaxPasses \/ passes * PerPass >= files
         /\ reader = "many" => passes = 1

\* No worker reads through a descriptor number that another file has by now:
\* it is closed under the workers when a range raises, but the pool is left,
\* and every worker gone, before the process opens anything (io.py:182-193).
NoForeignRead == fd = "reused" => \A w \in Worker : worker[w] # "reading"

\* The cell ends, with a measurement or an error, unless a thread could not be
\* started: a worker that is late or a task that raises leaves no thread behind
\* for the main thread to wait for in vain (io.py:103-105).
CellEnds == <>(main = "done" \/ (main = "join" /\ barrier = "filling"))

\* The cell ends even then: "a pool that cannot start every worker should fail
\* the cell, not hold the allocation until the wall clock" (io.py:103-104).
CellAlwaysEnds == <>(main = "done")
=============================================================================
