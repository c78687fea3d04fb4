----------------------------- MODULE CellsProofs -----------------------------
(***************************************************************************)
(* A cell reads on few cores if and only if it is about cores, for every   *)
(* plan whose bodies give up their cores before they read.  Then, for all  *)
(* that is proved about files (CellsFilesProofs): that the catalogue is    *)
(* shaped as CellPlans says and plans made of it are what the theorems     *)
(* assume, what a step leaves alone, where processes can be, and whose     *)
(* directories and rows change.                                            *)
(***************************************************************************)
EXTENDS CellPlans, FiniteSetTheorems, TLAPS

\* The operations that occur in the catalogue, in their order.
LEMMA OpsOfCatalogue ==
  ASSUME NEW b,
         b.ops \in {<<"write">>, <<"read">>, <<"write", "query", "evict">>,
                    <<"write", "evict", "read">>, <<"write", "evict", "stat">>,
                    <<"write", "evict", "readUntil">>, <<"write", "readUntil">>,
                    <<"write", "restrict", "readUntil">>, <<"write", "read">>,
                    <<"write", "reopen", "read">>}
  PROVE  WellMade(b)
<1>1. CASE b.ops = <<"write", "restrict", "readUntil">>
  <2>1. b.ops \in Seq(Op) /\ Len(b.ops) = 3
        /\ b.ops[1] = "write" /\ b.ops[2] = "restrict" /\ b.ops[3] = "readUntil"
    BY <1>1 DEF Op
  <2> QED
    BY <2>1 DEF WellMade, Restricts
<1>2. CASE b.ops # <<"write", "restrict", "readUntil">>
  <2>1. b.ops \in Seq(Op) /\ b.ops # <<>>
    <3>1. \A o1, o2, o3 \in Op :
            /\ <<o1>> \in Seq(Op) /\ <<o1, o2>> \in Seq(Op) /\ <<o1, o2, o3>> \in Seq(Op)
            /\ <<o1>> # <<>> /\ <<o1, o2>> # <<>> /\ <<o1, o2, o3>> # <<>>
      OBVIOUS
    <3>2. \A o \in {"write", "evict", "stat", "reopen", "read", "readUntil", "query"} : o \in Op
      BY DEF Op
    <3> QED
      BY <1>2, <3>1, <3>2
  <2>2. \A k \in 1..Len(b.ops) : b.ops[k] # "restrict"
    <3>1. CASE b.ops \in {<<"write">>, <<"read">>}
      <4>1. Len(b.ops) = 1 /\ b.ops[1] # "restrict"
        BY <3>1
      <4> QED
        BY <4>1
    <3>2. CASE b.ops \in {<<"write", "readUntil">>, <<"write", "read">>}
      <4>1. Len(b.ops) = 2 /\ b.ops[1] # "restrict" /\ b.ops[2] # "restrict"
        BY <3>2
      <4> QED
        BY <4>1
    <3>3. CASE b.ops \in {<<"write", "query", "evict">>, <<"write", "evict", "read">>,
                          <<"write", "evict", "stat">>, <<"write", "evict", "readUntil">>,
                          <<"write", "reopen", "read">>}
      <4>1. Len(b.ops) = 3
        BY <3>3
      <4>2. b.ops[1] # "restrict" /\ b.ops[2] # "restrict" /\ b.ops[3] # "restrict"
        BY <3>3
      <4> QED
        BY <4>1, <4>2
    <3> QED
      BY <1>2, <3>1, <3>2, <3>3
  <2> QED
    BY <2>1, <2>2 DEF WellMade, Restricts
<1> QED
  BY <1>1, <1>2

\* Every cell of every experiment is well made, whatever its parameters.
LEMMA CatalogueIsWellMade ==
  ASSUME NEW u, NEW v, NEW x, NEW y, NEW z
  PROVE  /\ WellMade(DomCutoff(u, v, x)) /\ WellMade(DomFootprint(u, v))
         /\ WellMade(FlushCost(u, v)) /\ WellMade(TailLatency(u, v))
         /\ WellMade(Epoch(u, v)) /\ WellMade(StripeGrid(u, v, x, y, z))
         /\ WellMade(WritePath(u, v, x)) /\ WellMade(CoresVsThroughput(u, v, x))
         /\ WellMade(PoolSelection(u, v, x)) /\ WellMade(BottleneckBudget(u, v, x, y))
         /\ WellMade(MixedClasses(u, v, x, y)) /\ WellMade(MdsScaling(u, v, x))
         /\ WellMade(NeighbourCost(u, v, x)) /\ WellMade(Probe(u, v, x))
BY OpsOfCatalogue
DEF DomCutoff, DomFootprint, FlushCost, TailLatency, Epoch, StripeGrid, WritePath,
    CoresVsThroughput, PoolSelection, BottleneckBudget, MixedClasses, MdsScaling,
    NeighbourCost, Probe, Within, Body

\* So are the steps of a plan that are no cells.
LEMMA OtherStepsAreWellMade ==
  ASSUME NEW arm
  PROVE  WellMade(RemoveEpochs(arm)) /\ \A i \in 1..2 : WellMade(Preflight[i])
<1>1. WellMade(RemoveEpochs(arm))
  <2>1. RemoveEpochs(arm).ops = <<>> /\ ~RemoveEpochs(arm).enters
    BY DEF RemoveEpochs, Body
  <2>2. <<>> \in Seq(Op) /\ Len(<<>>) = 0
    OBVIOUS
  <2> QED
    BY <2>1, <2>2 DEF WellMade
<1>2. WellMade(Preflight[1]) /\ WellMade(Preflight[2])
  <2>1. /\ Preflight[1].ops = <<"write", "query", "evict">>
        /\ Preflight[2].ops = <<"write">>
    BY DEF Preflight, Within, Body
  <2>2. WellMade(Preflight[1])
    BY <2>1, OpsOfCatalogue
  <2>3. WellMade(Preflight[2])
    BY <2>1, OpsOfCatalogue
  <2> QED
    BY <2>2, <2>3
<1> QED
  BY <1>1, <1>2

Fields == {"pc", "at", "step", "failed", "few", "seen", "aborted"}

AtWork == {"enter", "run", "leave", "record"}

\* Where a process stands; it has few cores from a restriction on, to the end of
\* its operations, and what it saw at their end it saw on the right cores.
Stands(p) ==
  /\ DOMAIN proc[p] = Fields
  /\ proc[p].at \in Nat \ {0}
  /\ proc[p].failed \in BOOLEAN /\ proc[p].few \in BOOLEAN
  /\ proc[p].pc \in AtWork => Left(p)
  /\ proc[p].pc = "enter" => Now(p).enters
  /\ proc[p].pc # "run" => ~proc[p].few
  /\ proc[p].pc = "run" =>
       /\ proc[p].step \in 1..Len(Now(p).ops)
       /\ proc[p].few <=> \E j \in 1..Len(Now(p).ops) : j < proc[p].step /\ Restricts(Now(p), j)
  /\ proc[p].pc \in {"leave", "record"} /\ ~proc[p].failed =>
       \A x \in proc[p].seen : x.few = HasOp(Now(p), "restrict")

CoresInv ==
  /\ plan \in Workload
  /\ DOMAIN proc = Proc
  /\ \A p \in Proc : Stands(p)
  /\ NoCell \notin DOMAIN rows
  /\ OwnCores

-----------------------------------------------------------------------------
\* A process at work is at a body of its plan.
LEMMA NowIsPlanned ==
  ASSUME WellPlanned, CoresInv, NEW p \in Proc, Left(p)
  PROVE  /\ proc[p].at \in 1..Len(plan[p])
         /\ Now(p) \in Planned
         /\ WellMade(Now(p))
<1>1. Len(plan[p]) \in Nat /\ proc[p].at \in Nat \ {0}
  BY DEF WellPlanned, CoresInv, Stands
<1>2. proc[p].at \in 1..Len(plan[p])
  BY <1>1 DEF Left
<1> QED
  BY <1>2 DEF WellPlanned, CoresInv, Now, Planned

\* A process that a step does not touch stands where it stood.
LEMMA OthersStand ==
  ASSUME CoresInv, NEW p \in Proc, plan' = plan, proc'[p] = proc[p]
  PROVE  Stands(p)'
BY DEF CoresInv, Stands, Left, Now, Restricts, HasOp

\* A process between two cells.
LEMMA BetweenCells ==
  ASSUME NEW p \in Proc, DOMAIN proc'[p] = Fields,
         proc'[p].at \in Nat \ {0}, proc'[p].failed \in BOOLEAN, proc'[p].few = FALSE,
         proc'[p].pc \notin AtWork
  PROVE  Stands(p)'
BY DEF Stands, AtWork

\* A process on its way out of a body.
LEMMA OnTheWayOut ==
  ASSUME CoresInv, NEW p \in Proc, plan' = plan, Left(p), DOMAIN proc'[p] = Fields,
         proc'[p].at = proc[p].at, proc'[p].few = FALSE, proc'[p].failed \in BOOLEAN,
         proc'[p].pc \in {"leave", "record"},
         proc'[p].failed = FALSE =>
           \A x \in proc'[p].seen : x.few = HasOp(Now(p), "restrict")
  PROVE  Stands(p)'
<1>1. Now(p)' = Now(p) /\ Left(p)'
  BY DEF Now, Left
<1>2. HasOp(Now(p), "restrict")' = HasOp(Now(p), "restrict")
  BY <1>1 DEF HasOp
<1>3. proc'[p].at \in Nat \ {0}
  BY DEF CoresInv, Stands
<1> QED
  BY <1>1, <1>2, <1>3 DEF Stands, AtWork

\* Whoever has seen something has seen it with the cores it had.
LEMMA SeenOnCores ==
  ASSUME WellPlanned, CoresInv, NEW p \in Proc, proc[p].pc = "run",
         OpNow(p) \in {"read", "readUntil"}
  PROVE  proc[p].few = HasOp(Now(p), "restrict")
<1>1. Stands(p) /\ Left(p)
  BY DEF CoresInv, Stands, AtWork
<1>2. WellMade(Now(p))
  BY <1>1, NowIsPlanned
<1>3. /\ proc[p].step \in 1..Len(Now(p).ops) /\ proc[p].few \in BOOLEAN
      /\ Now(p).ops[proc[p].step] \in {"read", "readUntil"}
  BY <1>1 DEF Stands, OpNow
<1>4. HasOp(Now(p), "restrict") => proc[p].few
  BY <1>1, <1>2, <1>3 DEF HasOp, WellMade, Restricts, Stands
<1>5. proc[p].few => HasOp(Now(p), "restrict")
  BY <1>1, <1>3 DEF HasOp, Restricts, Stands
<1> QED
  BY <1>3, <1>4, <1>5 DEF HasOp

\* What a step of a process on its way leaves alone.
OnlyMoves(p) ==
  /\ plan' = plan /\ rows' = rows /\ DOMAIN proc' = Proc
  /\ \A q \in Proc \ {p} : proc'[q] = proc[q]

-----------------------------------------------------------------------------
\* Steps before and after a cell.
LEMMA BetweenSteps ==
  ASSUME CoresInv, NEW p \in Proc, Launch(p) \/ Skip(p) \/ End(p) \/ Kill(p)
  PROVE  OnlyMoves(p) /\ Stands(p)'
<1>1. DOMAIN proc = Proc /\ Stands(p)
  BY DEF CoresInv
<1>2. DOMAIN proc[p] = Fields /\ proc[p].at \in Nat \ {0} /\ proc[p].failed \in BOOLEAN
  BY <1>1 DEF Stands
<1>3. OnlyMoves(p)
  BY <1>1 DEF OnlyMoves, Launch, Skip, End, Kill
<1>4. CASE Launch(p)
  <2>1. proc'[p] = [Idle EXCEPT !.pc = "next"]
    BY <1>1, <1>4 DEF Launch
  <2>2. /\ DOMAIN proc'[p] = Fields /\ proc'[p].at \in Nat \ {0}
        /\ proc'[p].failed \in BOOLEAN /\ proc'[p].few = FALSE
        /\ proc'[p].pc \notin AtWork
    BY <2>1 DEF Idle, Fields, AtWork
  <2> QED
    BY <1>3, <2>2, BetweenCells
<1>5. CASE Kill(p)
  <2>1. proc'[p] = Idle
    BY <1>1, <1>5 DEF Kill
  <2>2. /\ DOMAIN proc'[p] = Fields /\ proc'[p].at \in Nat \ {0}
        /\ proc'[p].failed \in BOOLEAN /\ proc'[p].few = FALSE
        /\ proc'[p].pc \notin AtWork
    BY <2>1 DEF Idle, Fields, AtWork
  <2> QED
    BY <1>3, <2>2, BetweenCells
<1>6. CASE Skip(p) \/ End(p)
  <2>1. proc[p].pc = "next" /\ proc[p].few = FALSE
    BY <1>1, <1>6 DEF Skip, End, Stands
  <2>2. \/ proc'[p] = [proc[p] EXCEPT !.at = @ + 1]
        \/ proc'[p] = [proc[p] EXCEPT !.pc = "done"]
        \/ proc'[p] = [proc[p] EXCEPT !.pc = "aborted"]
    BY <1>1, <1>6 DEF Skip, End
  <2>3. /\ DOMAIN proc'[p] = Fields /\ proc'[p].at \in Nat \ {0}
        /\ proc'[p].failed \in BOOLEAN /\ proc'[p].few = FALSE
        /\ proc'[p].pc \in {"next", "done", "aborted"}
    BY <1>2, <2>1, <2>2 DEF Fields
  <2> QED
    BY <1>3, <2>3, BetweenCells DEF AtWork
<1> QED
  BY <1>4, <1>5, <1>6

\* A process stands before the first operation of its body.
LEMMA BeforeFirst ==
  ASSUME WellPlanned, CoresInv, NEW p \in Proc, plan' = plan, Left(p),
         DOMAIN proc'[p] = Fields, proc'[p].at = proc[p].at, proc'[p].pc = "run",
         proc'[p].step = 1, proc'[p].few = FALSE, proc'[p].failed \in BOOLEAN,
         Now(p).ops # <<>>
  PROVE  Stands(p)'
<1>1. Now(p)' = Now(p) /\ Left(p)' /\ proc'[p].at \in Nat \ {0}
  BY DEF Now, Left, CoresInv, Stands
<1>2. Len(Now(p).ops) \in Nat \ {0}
  BY NowIsPlanned DEF WellMade
<1>3. ~ \E j \in 1..Len(Now(p).ops) : j < proc'[p].step
  BY <1>2
<1>4. proc'[p].step \in 1..Len(Now(p).ops)
  BY <1>2
<1>5. \A j : Restricts(Now(p), j)' <=> Restricts(Now(p), j)
  BY <1>1 DEF Restricts
<1> QED
  BY <1>1, <1>3, <1>4, <1>5 DEF Stands, AtWork

LEMMA BeginStep ==
  ASSUME WellPlanned, CoresInv, NEW p \in Proc, Begin(p)
  PROVE  OnlyMoves(p) /\ Stands(p)'
<1>1. DOMAIN proc = Proc /\ Stands(p) /\ Left(p) /\ proc[p].pc = "next"
  BY DEF CoresInv, Begin
<1>2. OnlyMoves(p)
  BY <1>1 DEF OnlyMoves, Begin
<1>3. /\ DOMAIN proc'[p] = Fields /\ proc'[p].at = proc[p].at /\ proc'[p].step = 1
      /\ proc'[p].failed = FALSE /\ proc'[p].few = FALSE /\ proc'[p].seen = {}
      /\ proc'[p].pc = IF Now(p).enters THEN "enter"
                       ELSE IF Now(p).ops # <<>> THEN "run" ELSE "leave"
  BY <1>1 DEF Begin, Stands, Fields
<1>4. CASE proc'[p].pc = "enter"
  <2>1. Now(p)' = Now(p) /\ Left(p)' /\ proc'[p].at \in Nat \ {0}
    BY <1>1, <1>2, <1>3 DEF Now, Left, OnlyMoves, Stands
  <2>2. Now(p).enters
    BY <1>3, <1>4
  <2> QED
    BY <1>2, <1>3, <1>4, <2>1, <2>2 DEF Stands
<1>5. CASE proc'[p].pc = "run"
  BY <1>1, <1>2, <1>3, <1>5, BeforeFirst DEF OnlyMoves
<1>6. CASE proc'[p].pc = "leave"
  BY <1>1, <1>2, <1>3, <1>6, OnTheWayOut DEF OnlyMoves
<1> QED
  BY <1>3, <1>4, <1>5, <1>6

LEMMA EnterStep ==
  ASSUME WellPlanned, CoresInv, NEW p \in Proc, Enter(p)
  PROVE  OnlyMoves(p) /\ Stands(p)'
<1>1. DOMAIN proc = Proc /\ Stands(p) /\ Left(p) /\ proc[p].pc = "enter" /\ Now(p).enters
  BY DEF CoresInv, Enter, Stands, AtWork
<1>2. OnlyMoves(p)
  BY <1>1 DEF OnlyMoves, Enter
<1>3. /\ proc[p].few = FALSE /\ DOMAIN proc[p] = Fields /\ proc[p].failed \in BOOLEAN
  BY <1>1 DEF Stands
<1>4. CASE proc'[p] = [proc[p] EXCEPT !.step = @ + 1]
  <2>1. /\ DOMAIN proc'[p] = Fields /\ proc'[p].at = proc[p].at /\ proc'[p].pc = "enter"
        /\ proc'[p].few = FALSE /\ proc'[p].failed = proc[p].failed
    BY <1>1, <1>3, <1>4 DEF Fields
  <2>2. Now(p)' = Now(p) /\ Left(p)' /\ proc'[p].at \in Nat \ {0}
    BY <1>1, <1>2, <2>1 DEF Now, Left, OnlyMoves, Stands
  <2> QED
    BY <1>1, <1>2, <1>3, <2>1, <2>2 DEF Stands
<1>5. CASE proc'[p] = [proc[p] EXCEPT !.pc = "run", !.step = 1]
  <2>1. /\ DOMAIN proc'[p] = Fields /\ proc'[p].at = proc[p].at /\ proc'[p].pc = "run"
        /\ proc'[p].step = 1
        /\ proc'[p].few = FALSE /\ proc'[p].failed \in BOOLEAN
    BY <1>1, <1>3, <1>5 DEF Fields
  <2>2. Now(p).ops # <<>>
    BY <1>1, NowIsPlanned DEF WellMade
  <2> QED
    BY <1>1, <1>2, <2>1, <2>2, BeforeFirst DEF OnlyMoves
<1>6. \/ proc'[p] = [proc[p] EXCEPT !.step = @ + 1]
      \/ proc'[p] = [proc[p] EXCEPT !.pc = "run", !.step = 1]
  BY <1>1 DEF Enter
<1> QED
  BY <1>4, <1>5, <1>6

\* One more operation is done: cores are few from a restriction on.
LEMMA CoresAfter ==
  ASSUME WellPlanned, CoresInv, NEW p \in Proc, proc[p].pc = "run",
         proc[p].step < Len(Now(p).ops)
  PROVE  /\ proc[p].step + 1 \in 1..Len(Now(p).ops)
         /\ (proc[p].few \/ OpNow(p) = "restrict") <=>
              \E j \in 1..Len(Now(p).ops) : j < proc[p].step + 1 /\ Restricts(Now(p), j)
<1>1. Stands(p) /\ Left(p)
  BY DEF CoresInv, Stands, AtWork
<1>2. Len(Now(p).ops) \in Nat
  BY <1>1, NowIsPlanned DEF WellMade
<1>3. /\ proc[p].step \in 1..Len(Now(p).ops)
      /\ proc[p].few <=> \E j \in 1..Len(Now(p).ops) : j < proc[p].step /\ Restricts(Now(p), j)
  BY <1>1 DEF Stands
<1>4. OpNow(p) = "restrict" <=> Restricts(Now(p), proc[p].step)
  BY <1>3 DEF OpNow, Restricts
<1>5. \A j \in 1..Len(Now(p).ops) : j < proc[p].step + 1 <=> j < proc[p].step \/ j = proc[p].step
  BY <1>2, <1>3
<1>6. proc[p].step + 1 \in 1..Len(Now(p).ops)
  BY <1>2, <1>3
<1> QED
  BY <1>3, <1>4, <1>5, <1>6

LEMMA WorkStep ==
  ASSUME WellPlanned, CoresInv, NEW p \in Proc, Work(p)
  PROVE  OnlyMoves(p) /\ Stands(p)'
<1> DEFINE more == proc[p].step < Len(Now(p).ops)
           cores == proc[p].few \/ OpNow(p) = "restrict"
           reads == OpNow(p) \in {"read", "readUntil"}
<1>1. DOMAIN proc = Proc /\ Stands(p) /\ Left(p) /\ proc[p].pc = "run"
  BY DEF CoresInv, Work, Stands, AtWork
<1>2. OnlyMoves(p)
  BY <1>1 DEF OnlyMoves, Work
<1>3. DOMAIN proc[p] = Fields /\ proc[p].failed \in BOOLEAN /\ proc[p].few \in BOOLEAN
      /\ proc[p].at \in Nat \ {0}
  BY <1>1 DEF Stands
<1>4. PICK m \in Reach(p) :
        LET found == IF reads THEN Found(p, m) ELSE {}
            next == IF more THEN [proc[p] EXCEPT !.step = @ + 1, !.few = cores]
                            ELSE OutOfRun(p, FALSE)
        IN  proc'[p] = [next EXCEPT !.seen = found]
  BY <1>1 DEF Work
<1> DEFINE found == IF reads THEN Found(p, m) ELSE {}
<1>5. CASE more
  <2>1. proc'[p] = [[proc[p] EXCEPT !.step = proc[p].step + 1, !.few = cores] EXCEPT !.seen = found]
    BY <1>4, <1>5
  <2> HIDE DEF found
  <2>2. /\ DOMAIN proc'[p] = Fields /\ proc'[p].at = proc[p].at /\ proc'[p].pc = "run"
        /\ proc'[p].step = proc[p].step + 1 /\ proc'[p].few = cores
        /\ proc'[p].failed = proc[p].failed
    BY <1>1, <1>3, <2>1 DEF Fields
  <2>3. Now(p)' = Now(p) /\ Left(p)'
    BY <1>1, <1>2, <2>2 DEF Now, Left, OnlyMoves
  <2>4. /\ proc'[p].step \in 1..Len(Now(p).ops)
        /\ proc'[p].few <=>
             \E j \in 1..Len(Now(p).ops) : j < proc'[p].step /\ Restricts(Now(p), j)
    BY <1>1, <1>5, <2>2, CoresAfter
  <2>5. \A j : Restricts(Now(p), j)' <=> Restricts(Now(p), j)
    BY <2>3 DEF Restricts
  <2>6. proc'[p].few \in BOOLEAN
    BY <2>2
  <2> HIDE DEF cores, more, reads
  <2> QED
    BY <1>2, <1>3, <2>2, <2>3, <2>4, <2>5, <2>6 DEF Stands
<1>6. CASE ~more
  <2>1. proc'[p] = [OutOfRun(p, FALSE) EXCEPT !.seen = found]
    BY <1>4, <1>6
  <2>2. \A x \in found : x.few = HasOp(Now(p), "restrict")
    <3>1. CASE reads
      <4>1. \A x \in Found(p, m) : x.few = proc[p].few
        BY DEF Found
      <4> QED
        BY <1>1, <3>1, <4>1, SeenOnCores
    <3>2. CASE ~reads
      BY <3>2
    <3> QED
      BY <3>1, <3>2
  <2> HIDE DEF found
  <2>3. /\ DOMAIN proc'[p] = Fields /\ proc'[p].at = proc[p].at
        /\ proc'[p].pc \in {"leave", "record"}
        /\ proc'[p].failed = FALSE /\ proc'[p].few = FALSE /\ proc'[p].seen = found
    BY <1>1, <1>3, <2>1 DEF Fields, OutOfRun, Cleanup
  <2> QED
    BY <1>1, <1>2, <2>2, <2>3, OnTheWayOut DEF OnlyMoves
<1> QED
  BY <1>5, <1>6

LEMMA RaiseStep ==
  ASSUME CoresInv, NEW p \in Proc, Raise(p)
  PROVE  OnlyMoves(p) /\ Stands(p)'
<1>1. DOMAIN proc = Proc /\ Stands(p) /\ Left(p) /\ proc[p].pc \in {"enter", "run"}
  BY DEF CoresInv, Raise, Stands, AtWork
<1>2. OnlyMoves(p)
  BY <1>1 DEF OnlyMoves, Raise
<1>3. DOMAIN proc[p] = Fields /\ (proc[p].pc = "enter" => proc[p].few = FALSE)
  BY <1>1 DEF Stands
<1>4. \/ proc[p].pc = "run" /\ proc'[p] = OutOfRun(p, TRUE)
      \/ /\ proc[p].pc = "enter"
         /\ proc'[p] = [proc[p] EXCEPT !.pc = Cleanup(p, TRUE), !.step = proc[p].step - 1,
                                       !.failed = TRUE]
  BY <1>1 DEF Raise
<1>5. /\ DOMAIN proc'[p] = Fields /\ proc'[p].at = proc[p].at
      /\ proc'[p].pc \in {"leave", "record"}
      /\ proc'[p].failed = TRUE /\ proc'[p].few = FALSE
  <2>1. Cleanup(p, TRUE) \in {"leave", "record"}
    BY DEF Cleanup
  <2>2. CASE proc'[p] = OutOfRun(p, TRUE)
    BY <1>3, <2>1, <2>2 DEF Fields, OutOfRun
  <2>3. CASE /\ proc[p].pc = "enter"
             /\ proc'[p] = [proc[p] EXCEPT !.pc = Cleanup(p, TRUE), !.step = proc[p].step - 1,
                                           !.failed = TRUE]
    BY <1>3, <2>1, <2>3 DEF Fields
  <2> QED
    BY <1>4, <2>2, <2>3
<1> QED
  BY <1>1, <1>2, <1>5, OnTheWayOut DEF OnlyMoves

LEMMA LeaveStep ==
  ASSUME CoresInv, NEW p \in Proc, Leave(p)
  PROVE  OnlyMoves(p) /\ Stands(p)'
<1>1. DOMAIN proc = Proc /\ Stands(p) /\ Left(p) /\ proc[p].pc = "leave"
  BY DEF CoresInv, Leave, Stands, AtWork
<1>2. OnlyMoves(p)
  BY <1>1 DEF OnlyMoves, Leave
<1>3. proc'[p] = [proc[p] EXCEPT !.pc = "record"]
  BY <1>1 DEF Leave
<1>4. /\ DOMAIN proc'[p] = Fields /\ proc'[p].at = proc[p].at /\ proc'[p].pc = "record"
      /\ proc'[p].failed = proc[p].failed /\ proc'[p].few = FALSE
      /\ proc'[p].seen = proc[p].seen /\ proc[p].failed \in BOOLEAN
  BY <1>1, <1>3 DEF Fields, Stands
<1>5. ~proc[p].failed => \A x \in proc[p].seen : x.few = HasOp(Now(p), "restrict")
  BY <1>1 DEF Stands
<1> QED
  BY <1>1, <1>2, <1>4, <1>5, OnTheWayOut DEF OnlyMoves

-----------------------------------------------------------------------------
\* Rows that are as they were still say what they said.
LEMMA RowsStay ==
  ASSUME OwnCores, plan' = plan, DOMAIN rows' \subseteq DOMAIN rows,
         \A c \in DOMAIN rows' : rows'[c] = rows[c]
  PROVE  OwnCores'
<1> SUFFICES ASSUME NEW b \in Planned, b.cell \in DOMAIN rows', rows'[b.cell].ok,
                    NEW x \in rows'[b.cell].seen
             PROVE  x.few = HasOp(b, "restrict")
  <2>1. Planned' = Planned
    BY DEF Planned
  <2> QED
    BY <2>1 DEF OwnCores, GoodRow, Seen, HasOp
<1> QED
  BY DEF OwnCores, GoodRow, Seen

\* The row of a cell says what its body saw.
LEMMA RowOfCell ==
  ASSUME WellPlanned, CoresInv, NEW p \in Proc, plan' = plan, proc[p].pc = "record",
         rows' = Recorded(p)
  PROVE  NoCell \notin DOMAIN rows' /\ OwnCores'
<1>1. Stands(p) /\ Left(p)
  BY DEF CoresInv, Stands, AtWork
<1>2. CASE Now(p).cell = NoCell
  <2>1. rows' = rows
    BY <1>2 DEF Recorded
  <2> QED
    BY <2>1, RowsStay DEF CoresInv
<1>3. CASE Now(p).cell # NoCell
  <2> DEFINE c == Now(p).cell
  <2>1. rows' = RecordedAlways(p)
    BY <1>3 DEF Recorded
  <2>2. /\ DOMAIN rows' = DOMAIN rows \cup {c}
        /\ rows'[c].ok = ~proc[p].failed
        /\ rows'[c].seen = IF proc[p].failed THEN {} ELSE proc[p].seen
        /\ \A x \in DOMAIN rows \ {c} : rows'[x] = rows[x]
    BY <2>1 DEF RecordedAlways
  <2>3. ~proc[p].failed => \A x \in proc[p].seen : x.few = HasOp(Now(p), "restrict")
    BY <1>1 DEF Stands
  <2>4. Planned' = Planned
    BY DEF Planned
  <2>5. ASSUME NEW b \in Planned, b.cell \in DOMAIN rows', rows'[b.cell].ok,
               NEW x \in rows'[b.cell].seen
        PROVE  x.few = HasOp(b, "restrict")
    <3>1. CASE b.cell = c
      <4>1. PICK q \in Proc : b \in {plan[q][i] : i \in 1..Len(plan[q])}
        BY DEF Planned
      <4>2. PICK i \in 1..Len(plan[q]) : b = plan[q][i]
        BY <4>1
      <4>3. proc[p].at \in 1..Len(plan[p]) /\ Now(p) = plan[p][proc[p].at]
        BY <1>1, NowIsPlanned DEF Now
      <4>4. HasOp(b, "restrict") = HasOp(Now(p), "restrict")
        BY <1>3, <3>1, <4>2, <4>3 DEF WellPlanned, CoresInv
      <4>5. ~proc[p].failed
        BY <2>2, <2>5, <3>1
      <4> QED
        BY <2>2, <2>3, <2>5, <3>1, <4>4, <4>5
    <3>2. CASE b.cell # c
      BY <2>2, <2>5, <3>2 DEF CoresInv, OwnCores, GoodRow, Seen
    <3> QED
      BY <3>1, <3>2
  <2>6. OwnCores'
    BY <2>4, <2>5 DEF OwnCores, GoodRow, Seen, HasOp
  <2>7. NoCell \notin DOMAIN rows'
    BY <1>3, <2>2 DEF CoresInv
  <2> QED
    BY <2>6, <2>7
<1> QED
  BY <1>2, <1>3

LEMMA RecordStep ==
  ASSUME WellPlanned, CoresInv, NEW p \in Proc, Record(p)
  PROVE  /\ plan' = plan /\ DOMAIN proc' = Proc
         /\ \A q \in Proc \ {p} : proc'[q] = proc[q]
         /\ Stands(p)' /\ NoCell \notin DOMAIN rows' /\ OwnCores'
<1>1. DOMAIN proc = Proc /\ Stands(p) /\ Left(p) /\ proc[p].pc = "record"
  BY DEF CoresInv, Record, Stands, AtWork
<1>2. plan' = plan /\ DOMAIN proc' = Proc /\ \A q \in Proc \ {p} : proc'[q] = proc[q]
  BY <1>1 DEF Record
<1>3. Stands(p)'
  <2>1. /\ DOMAIN proc[p] = Fields /\ proc[p].at \in Nat \ {0} /\ proc[p].failed \in BOOLEAN
        /\ proc[p].few = FALSE
    BY <1>1 DEF Stands
  <2>2. \/ proc'[p] = [proc[p] EXCEPT !.pc = "refused"]
        \/ proc'[p] = [proc[p] EXCEPT !.pc = "next", !.at = proc[p].at + 1]
    BY <1>1 DEF Record
  <2>3. /\ DOMAIN proc'[p] = Fields /\ proc'[p].at \in Nat \ {0}
        /\ proc'[p].failed \in BOOLEAN /\ proc'[p].few = FALSE
        /\ proc'[p].pc \in {"refused", "next"}
    <3>1. CASE proc'[p] = [proc[p] EXCEPT !.pc = "refused"]
      BY <2>1, <3>1 DEF Fields
    <3>2. CASE proc'[p] = [proc[p] EXCEPT !.pc = "next", !.at = proc[p].at + 1]
      BY <2>1, <3>2 DEF Fields
    <3> QED
      BY <2>2, <3>1, <3>2
  <2> QED
    BY <2>3, BetweenCells DEF AtWork
<1>4. rows' = Recorded(p)
  BY DEF Record
<1> QED
  BY <1>1, <1>2, <1>3, <1>4, RowOfCell

LEMMA EscapeStep ==
  ASSUME WellPlanned, CoresInv, NEW p \in Proc, Escape(p)
  PROVE  /\ plan' = plan /\ DOMAIN proc' = Proc
         /\ \A q \in Proc \ {p} : proc'[q] = proc[q]
         /\ Stands(p)' /\ NoCell \notin DOMAIN rows' /\ OwnCores'
<1>1. DOMAIN proc = Proc /\ Stands(p) /\ Left(p)
  BY DEF CoresInv, Escape
<1>2. plan' = plan /\ DOMAIN proc' = Proc /\ \A q \in Proc \ {p} : proc'[q] = proc[q]
  BY <1>1 DEF Escape
<1>3. Stands(p)'
  <2>1. /\ DOMAIN proc[p] = Fields /\ proc[p].at \in Nat \ {0} /\ proc[p].failed \in BOOLEAN
        /\ proc[p].few = FALSE
    BY <1>1 DEF Stands, Escape
  <2>2. PICK k \in Beyond(p) :
          proc'[p] = [proc[p] EXCEPT !.pc = "next", !.at = k, !.aborted = TRUE]
    BY <1>1 DEF Escape
  <2>3. k \in Nat \ {0}
    <3>1. k \in (proc[p].at + 1)..(Len(plan[p]) + 1) /\ Len(plan[p]) \in Nat
      BY <2>2 DEF Beyond, WellPlanned, CoresInv
    <3> QED
      BY <2>1, <3>1
  <2>4. /\ DOMAIN proc'[p] = Fields /\ proc'[p].at = k
        /\ proc'[p].failed \in BOOLEAN /\ proc'[p].few = FALSE
        /\ proc'[p].pc = "next"
    BY <2>1, <2>2 DEF Fields
  <2> QED
    BY <2>3, <2>4, BetweenCells DEF AtWork
<1>4. rows' = rows \/ (proc[p].pc = "record" /\ rows' = Recorded(p))
  BY DEF Escape
<1>5. CASE rows' = rows
  BY <1>2, <1>3, <1>5, RowsStay DEF CoresInv
<1>6. CASE proc[p].pc = "record" /\ rows' = Recorded(p)
  BY <1>2, <1>3, <1>6, RowOfCell
<1> QED
  BY <1>4, <1>5, <1>6

LEMMA StepKeeps ==
  ASSUME WellPlanned, CoresInv, [Next]_vars
  PROVE  CoresInv'
<1>1. ASSUME NEW p \in Proc, OnlyMoves(p), Stands(p)' PROVE CoresInv'
  <2>1. \A q \in Proc : Stands(q)'
    BY <1>1, OthersStand DEF OnlyMoves
  <2>2. OwnCores'
    BY <1>1, RowsStay DEF OnlyMoves, CoresInv
  <2> QED
    BY <1>1, <2>1, <2>2 DEF CoresInv, OnlyMoves
<1>2. ASSUME NEW p \in Proc, Record(p) \/ Escape(p) PROVE CoresInv'
  <2>1. /\ plan' = plan /\ DOMAIN proc' = Proc
        /\ \A q \in Proc \ {p} : proc'[q] = proc[q]
        /\ Stands(p)' /\ NoCell \notin DOMAIN rows' /\ OwnCores'
    BY <1>2, RecordStep, EscapeStep
  <2>2. \A q \in Proc : Stands(q)'
    BY <2>1, OthersStand
  <2> QED
    BY <2>1, <2>2 DEF CoresInv
<1>3. ASSUME NEW c \in DOMAIN rows, Redo(c) PROVE CoresInv'
  <2>1. /\ plan' = plan /\ proc' = proc /\ DOMAIN rows' = DOMAIN rows \ {c}
        /\ \A x \in DOMAIN rows' : rows'[x] = rows[x]
    BY <1>3 DEF Redo
  <2>2. \A q \in Proc : Stands(q)'
    BY <2>1, OthersStand
  <2>3. OwnCores'
    BY <2>1, RowsStay DEF CoresInv
  <2> QED
    BY <2>1, <2>2, <2>3 DEF CoresInv
<1>4. CASE UNCHANGED vars
  <2>1. \A q \in Proc : Stands(q)'
    BY <1>4, OthersStand DEF vars
  <2>2. OwnCores'
    BY <1>4, RowsStay DEF vars, CoresInv
  <2> QED
    BY <1>4, <2>1, <2>2 DEF vars, CoresInv
<1>5. CASE Next
  <2>1. ASSUME NEW p \in Proc,
               \/ Launch(p) \/ Skip(p) \/ Begin(p) \/ Enter(p) \/ Work(p) \/ Raise(p)
               \/ Leave(p) \/ End(p) \/ Kill(p)
        PROVE  OnlyMoves(p) /\ Stands(p)'
    BY <2>1, BetweenSteps, BeginStep, EnterStep, WorkStep, RaiseStep, LeaveStep
  <2> QED
    BY <1>1, <1>2, <1>3, <1>5, <2>1 DEF Next
<1> QED
  BY <1>4, <1>5

-----------------------------------------------------------------------------
\* A good row was read on few cores if and only if its cell is about cores,
\* whatever failed or was killed before, in any number of processes
\* (restricted_to_cores, io.py:333-361).
THEOREM CoresAreGivenBack == ASSUME WellPlanned PROVE Spec => []OwnCores
<1>1. Init => CoresInv
  <2> SUFFICES ASSUME Init PROVE CoresInv
    OBVIOUS
  <2>1. DOMAIN rows = {}
    BY DEF Init
  <2>2. ASSUME NEW p \in Proc PROVE Stands(p)
    <3>1. proc[p] = Idle
      BY DEF Init
    <3>2. /\ DOMAIN proc[p] = Fields /\ proc[p].at \in Nat \ {0}
          /\ proc[p].failed \in BOOLEAN /\ proc[p].few = FALSE
          /\ proc[p].pc \notin {"enter", "run", "leave", "record"}
      BY <3>1 DEF Idle, Fields
    <3> QED
      BY <3>2 DEF Stands, AtWork
  <2> QED
    BY <2>1, <2>2 DEF Init, CoresInv, OwnCores, GoodRow
<1>2. CoresInv /\ [Next]_vars => CoresInv'
  BY StepKeeps
<1>3. CoresInv => OwnCores
  BY DEF CoresInv
<1> QED
  BY <1>1, <1>2, <1>3, PTL DEF Spec

-----------------------------------------------------------------------------
(* Types and places.                                                       *)

Typed(d) ==
  \A path \in DOMAIN d :
    /\ DOMAIN d[path] = {"layout", "files"}
    /\ DOMAIN d[path].files = 1..PerDir
    /\ \A i \in 1..PerDir :
         /\ DOMAIN d[path].files[i] = {"layout", "by", "client"}
         /\ d[path].files[i].client \in {"clean", "locked", "cached"}

\* Between the step and where the process is, the step's experiment ended.
GivenUp(p, j) ==
  \E e \in (j + 1)..proc[p].at : e <= Len(plan[p]) => ~SameExperiment(plan[p][j], plan[p][e])

\* Where a process can be; a body at work has no row yet, and every cell behind
\* has one, or its experiment was given up.
Placed(p) ==
  /\ proc[p].pc \in {"next"} \cup Ended \cup AtWork
  /\ proc[p].at \in 1..(Len(plan[p]) + 1)
  /\ proc[p].aborted \in BOOLEAN
  /\ proc[p].pc = "done" => ~Left(p) /\ ~proc[p].aborted
  /\ proc[p].pc = "enter" => proc[p].step \in 1..Len(Now(p).dirs)
  /\ proc[p].pc = "leave" =>
       /\ Now(p).leaves
       /\ Now(p).enters => proc[p].step \in 0..Len(Now(p).dirs)
       /\ Now(p).enters /\ ~proc[p].failed => proc[p].step = Len(Now(p).dirs)
  /\ proc[p].pc \in AtWork => ~Done(Now(p).cell)
  /\ proc[p].pc \notin Ended =>
       \A j \in 1..Len(plan[p]) :
         j < proc[p].at /\ plan[p][j].cell # NoCell =>
           plan[p][j].cell \in DOMAIN rows \/ GivenUp(p, j)

Places ==
  /\ Typed(dirs)
  /\ DOMAIN dirs \subseteq UNION {Paths(b) : b \in Planned}
  /\ DOMAIN rows \subseteq {b.cell : b \in Planned} \ {NoCell}
  /\ launches \in [Proc -> 0..MaxLaunches]
  /\ happened \subseteq Faults
  /\ \A p \in Proc : Placed(p)

PathsOf(p) == UNION {Paths(plan[p][k]) : k \in 1..Len(plan[p])}

\* The directories that only p works in.
Private(p) == {path \in PathsOf(p) : \A q \in Proc \ {p} : path \notin PathsOf(q)}

-----------------------------------------------------------------------------
(* The catalogue is shaped like that.                                      *)

LEMMA BodyByUse ==
  ASSUME NEW cell, NEW place, NEW flush, NEW ops
  PROVE  /\ Body(cell, "fresh", place, flush, ops) =
              [cell |-> cell, dirs |-> place, flush |-> flush, ops |-> ops,
               enters |-> TRUE, leaves |-> FALSE]
         /\ Body(cell, "none", place, flush, ops) =
              [cell |-> cell, dirs |-> place, flush |-> flush, ops |-> ops,
               enters |-> FALSE, leaves |-> FALSE]
         /\ Body(cell, "rmtree", place, flush, ops) =
              [cell |-> cell, dirs |-> place, flush |-> flush, ops |-> ops,
               enters |-> FALSE, leaves |-> TRUE]
<1>1. /\ ("fresh" \in {"with", "fresh"}) = TRUE /\ ("fresh" \in {"with", "rmtree"}) = FALSE
      /\ ("none" \in {"with", "fresh"}) = FALSE /\ ("none" \in {"with", "rmtree"}) = FALSE
      /\ ("rmtree" \in {"with", "fresh"}) = FALSE /\ ("rmtree" \in {"with", "rmtree"}) = TRUE
  OBVIOUS
<1> QED
  BY <1>1, Zenon DEF Body

LEMMA NamesOfOne ==
  ASSUME NEW x, NEW y
  PROVE  NamesApart(<<Dir(x, y)>>) /\ Len(<<Dir(x, y)>>) = 1
BY DEF NamesApart, Dir

LEMMA NamesOfTwo ==
  ASSUME NEW x, NEW y, NEW u, NEW v, x # u
  PROVE  NamesApart(<<Dir(x, y), Dir(u, v)>>)
<1> DEFINE two == <<Dir(x, y), Dir(u, v)>>
<1>1. Len(two) = 2 /\ two[1] = Dir(x, y) /\ two[2] = Dir(u, v)
  OBVIOUS
<1>2. Dir(x, y).path = x /\ Dir(x, y).layout = y /\ Dir(u, v).path = u /\ Dir(u, v).layout = v
  BY DEF Dir
<1> HIDE DEF two
<1> QED
  BY <1>1, <1>2 DEF NamesApart

\* A body that makes its directories and goes through one of these operations.
LEMMA ShapeOfWriter ==
  ASSUME NEW b, b.enters = TRUE, b.leaves \in BOOLEAN, b.flush \in BOOLEAN,
         b.ops \in {<<"write">>, <<"write", "query", "evict">>,
                    <<"write", "evict", "read">>, <<"write", "evict", "stat">>,
                    <<"write", "evict", "readUntil">>, <<"write", "readUntil">>,
                    <<"write", "restrict", "readUntil">>, <<"write", "read">>,
                    <<"write", "reopen", "read">>},
         NamesApart(b.dirs), Len(b.dirs) > 1 => b.leaves
  PROVE  WellShaped(b)
<1>1. WellMade(b)
  BY OpsOfCatalogue
<1>2. /\ b.ops[1] = "write" /\ Len(b.ops) \in 1..3
      /\ \A i \in 1..Len(b.ops) : b.ops[i] = "write" => i = 1
      /\ \A i \in 1..Len(b.ops) : b.ops[i] \in {"read", "readUntil", "stat"} => i = Len(b.ops)
  <2>1. CASE b.ops = <<"write">>
    BY <2>1
  <2>2. CASE b.ops \in {<<"write", "readUntil">>, <<"write", "read">>}
    <3>1. Len(b.ops) = 2 /\ b.ops[1] = "write" /\ b.ops[2] # "write"
      BY <2>2
    <3> QED
      BY <3>1
  <2>3. CASE b.ops \notin {<<"write">>, <<"write", "readUntil">>, <<"write", "read">>}
    <3>1. /\ Len(b.ops) = 3 /\ b.ops[1] = "write" /\ b.ops[2] # "write" /\ b.ops[3] # "write"
          /\ b.ops[2] \notin {"read", "readUntil", "stat"}
      BY <2>3
    <3> QED
      BY <3>1
  <2> QED
    BY <2>1, <2>2, <2>3
<1>3. HasOp(b, "write") /\ b.ops # <<>>
  BY <1>2 DEF HasOp
<1>4. b.enters \in BOOLEAN /\ (b.enters <=> HasOp(b, "write"))
  BY <1>3
<1> QED
  BY <1>1, <1>2, <1>3, <1>4, Zenon DEF WellShaped

\* A body that finds its directory made.
LEMMA ShapeOfReader ==
  ASSUME NEW b, b.enters = FALSE, b.leaves \in BOOLEAN, b.flush \in BOOLEAN,
         b.ops \in {<<>>, <<"read">>}, b.ops = <<>> => b.leaves, WellMade(b),
         NamesApart(b.dirs), Len(b.dirs) = 1
  PROVE  WellShaped(b)
<1>1. /\ \A i \in 1..Len(b.ops) : b.ops[i] # "write"
      /\ \A i \in 1..Len(b.ops) : b.ops[i] \in {"read", "readUntil", "stat"} => i = Len(b.ops)
  <2>1. CASE b.ops = <<>>
    BY <2>1
  <2>2. CASE b.ops = <<"read">>
    BY <2>2
  <2> QED
    BY <2>1, <2>2
<1>2. b.enters \in BOOLEAN /\ (b.enters <=> HasOp(b, "write"))
  BY <1>1 DEF HasOp
<1>3. ~(Len(b.dirs) > 1)
  OBVIOUS
<1> QED
  BY <1>1, <1>2, <1>3, Zenon DEF WellShaped

LEMMA ShapeOfWithin ==
  ASSUME NEW cell, NEW path, NEW layout, NEW wet \in BOOLEAN,
         NEW ops \in {<<"write">>, <<"write", "query", "evict">>, <<"write", "evict", "read">>,
                      <<"write", "evict", "stat">>, <<"write", "evict", "readUntil">>,
                      <<"write", "readUntil">>, <<"write", "restrict", "readUntil">>}
  PROVE  WellShaped(Within(cell, path, layout, wet, ops))
<1> DEFINE b == Within(cell, path, layout, wet, ops)
<1>1. b = [cell |-> cell, dirs |-> <<Dir(path, layout)>>, flush |-> wet, ops |-> ops,
           enters |-> TRUE, leaves |-> TRUE]
  BY DEF Within, Body
<1> HIDE DEF b
<1>2. NamesApart(b.dirs)
  BY <1>1, NamesOfOne
<1>3. b.leaves \in BOOLEAN /\ b.flush \in BOOLEAN /\ (Len(b.dirs) > 1 => b.leaves)
  BY <1>1
<1>4. WellShaped(b)
  BY <1>1, <1>2, <1>3, ShapeOfWriter
<1> QED
  BY <1>4 DEF b

\* Every body of every experiment is, whatever its parameters.
LEMMA CatalogueIsWellShaped ==
  ASSUME NEW u, NEW v, NEW x, NEW y, NEW z, NEW flush \in BOOLEAN
  PROVE  /\ WellShaped(DomCutoff(u, v, x)) /\ WellShaped(DomFootprint(u, v))
         /\ WellShaped(FlushCost(u, v)) /\ WellShaped(TailLatency(u, v))
         /\ WellShaped(Epoch(u, v)) /\ WellShaped(StripeGrid(u, v, x, y, z))
         /\ WellShaped(WritePath(u, v, x)) /\ WellShaped(CoresVsThroughput(u, v, x))
         /\ WellShaped(PoolSelection(u, v, x)) /\ WellShaped(BottleneckBudget(u, v, x, y))
         /\ WellShaped(MixedClasses(u, v, x, y)) /\ WellShaped(MdsScaling(u, v, x))
         /\ WellShaped(NeighbourCost(u, v, x)) /\ WellShaped(Probe(u, flush, x))
<1>1. /\ WellShaped(DomCutoff(u, v, x)) /\ WellShaped(DomFootprint(u, v))
      /\ WellShaped(TailLatency(u, v)) /\ WellShaped(MdsScaling(u, v, x))
  BY ShapeOfWithin DEF DomCutoff, DomFootprint, TailLatency, MdsScaling
<1>2. /\ WellShaped(StripeGrid(u, v, x, y, z))
      /\ WellShaped(WritePath(u, v, x)) /\ WellShaped(CoresVsThroughput(u, v, x))
      /\ WellShaped(PoolSelection(u, v, x)) /\ WellShaped(BottleneckBudget(u, v, x, y))
      /\ WellShaped(NeighbourCost(u, v, x))
  BY ShapeOfWithin
  DEF StripeGrid, WritePath, CoresVsThroughput, PoolSelection, BottleneckBudget, NeighbourCost
<1>3. WellShaped(FlushCost(u, v))
  <2>1. (u # "dom_noflush") \in BOOLEAN
    OBVIOUS
  <2> QED
    BY <2>1, ShapeOfWithin DEF FlushCost
<1>4. WellShaped(MixedClasses(u, v, x, y))
  <2> DEFINE b == MixedClasses(u, v, x, y)
  <2>1. b = [cell |-> <<"mixed_classes", u, y>>,
             dirs |-> <<Dir(<<"e3", u, "small">>, v), Dir(<<"e3", u, "large">>, x)>>,
             flush |-> TRUE, ops |-> <<"write", "evict", "read">>,
             enters |-> TRUE, leaves |-> TRUE]
    BY DEF MixedClasses, Body
  <2>2. <<"e3", u, "small">> # <<"e3", u, "large">>
    OBVIOUS
  <2> HIDE DEF b
  <2>3. NamesApart(b.dirs)
    BY <2>1, <2>2, NamesOfTwo
  <2>4. b.leaves \in BOOLEAN /\ b.flush \in BOOLEAN /\ (Len(b.dirs) > 1 => b.leaves)
    BY <2>1
  <2>5. WellShaped(b)
    BY <2>1, <2>3, <2>4, ShapeOfWriter
  <2> QED
    BY <2>5 DEF b
<1>5. WellShaped(Epoch(u, v))
  <2> DEFINE b == Epoch(u, v)
             place == <<Dir(<<"e9", u>>, u)>>
  <2>1. WellMade(b)
    BY CatalogueIsWellMade
  <2>2. NamesApart(place) /\ Len(place) = 1 /\ ~(Len(place) > 1)
    BY NamesOfOne
  <2> HIDE DEF place
  <2>3. CASE v = 0
    <3> DEFINE cell == <<"repeated_epochs", u, v>>
               ops == <<"write", "evict", "read">>
    <3>0. b = Body(cell, "fresh", place, TRUE, ops)
      BY <2>3 DEF Epoch, place
    <3> HIDE DEF b, cell
    <3>1. b = [cell |-> cell, dirs |-> place, flush |-> TRUE, ops |-> ops,
               enters |-> TRUE, leaves |-> FALSE]
      BY <3>0, BodyByUse
    <3>2. WellShaped(b)
      BY <2>2, <3>1, ShapeOfWriter
    <3> QED
      BY <3>2 DEF b
  <2>4. CASE v # 0
    <3>1. b = [cell |-> <<"repeated_epochs", u, v>>, dirs |-> place, flush |-> TRUE,
               ops |-> <<"read">>, enters |-> FALSE, leaves |-> FALSE]
      BY <2>4, BodyByUse DEF Epoch, place
    <3>2. <<"read">> # <<>>
      OBVIOUS
    <3> HIDE DEF b
    <3>3. WellShaped(b)
      BY <2>1, <2>2, <3>1, <3>2, ShapeOfReader
    <3> QED
      BY <3>3 DEF b
  <2> QED
    BY <2>3, <2>4
<1>6. WellShaped(Probe(u, flush, x))
  <2> DEFINE b == Probe(u, flush, x)
             place == <<Dir(<<"evictprobe", u, flush, x>>, u)>>
             ops == IF x = "none" THEN <<"write", "read">> ELSE <<"write", "reopen", "read">>
  <2>1. NamesApart(place) /\ Len(place) = 1 /\ ~(Len(place) > 1)
    BY NamesOfOne
  <2>2. b = [cell |-> <<"evictprobe", u, flush, x>>, dirs |-> place, flush |-> flush,
             ops |-> ops, enters |-> TRUE, leaves |-> FALSE]
    BY BodyByUse DEF Probe
  <2>3. ops \in {<<"write", "read">>, <<"write", "reopen", "read">>}
    OBVIOUS
  <2> HIDE DEF b, place, ops
  <2>4. WellShaped(b)
    BY <2>1, <2>2, <2>3, ShapeOfWriter
  <2> QED
    BY <2>4 DEF b
<1> QED
  BY <1>1, <1>2, <1>3, <1>4, <1>5, <1>6

\* So are the removal of the epochs and the start-up check.
LEMMA OthersAreWellShaped ==
  ASSUME NEW arm
  PROVE  WellShaped(RemoveEpochs(arm)) /\ \A i \in 1..2 : WellShaped(Preflight[i])
<1>1. WellShaped(RemoveEpochs(arm))
  <2> DEFINE b == RemoveEpochs(arm)
  <2>1. b = [cell |-> NoCell, dirs |-> <<Dir(<<"e9", arm>>, arm)>>, flush |-> TRUE,
             ops |-> <<>>, enters |-> FALSE, leaves |-> TRUE]
    BY BodyByUse DEF RemoveEpochs
  <2>2. WellMade(b)
    BY OtherStepsAreWellMade
  <2> HIDE DEF b
  <2>3. NamesApart(b.dirs) /\ Len(b.dirs) = 1
    BY <2>1, NamesOfOne
  <2>4. b.leaves \in BOOLEAN /\ b.flush \in BOOLEAN
    BY <2>1
  <2>5. WellShaped(b)
    BY <2>1, <2>2, <2>3, <2>4, ShapeOfReader
  <2> QED
    BY <2>5 DEF b
<1>2. WellShaped(Preflight[1]) /\ WellShaped(Preflight[2])
  <2>1. Preflight[1] = Within(NoCell, <<"preflight">>, "ost", FALSE, <<"write", "query", "evict">>)
    BY DEF Preflight
  <2>2. Preflight[2] = Within(NoCell, <<"preflight_dom">>, "dom", TRUE, <<"write">>)
    BY DEF Preflight
  <2> QED
    BY <2>1, <2>2, ShapeOfWithin
<1>3. \A i \in 1..2 : i = 1 \/ i = 2
  OBVIOUS
<1> QED
  BY <1>1, <1>2, <1>3

-----------------------------------------------------------------------------
(* Names tell the directories of the catalogue apart.                      *)

\* The layout of the directory with this name, and the key of the rank's cell in
\* it.
LayoutAt(path) ==
  CASE path[1] \in {"e1", "preflight_dom"} -> "dom"
    [] path[1] \in {"e2", "e8", "e9", "mds", "evictprobe"} -> path[2]
    [] path[1] = "e7" -> (IF path[2] = "ost" THEN "ost" ELSE "dom")
    [] OTHER -> "ost"

KeyAt(path) ==
  IF path[1] = "mds" THEN <<"mds_scaling", path[3], path[2], path[4]>>
  ELSE <<"neighbour_cost", path[2], path[4]>>

In(b, path) == b.dirs = <<Dir(path, LayoutAt(path))>>

ClassDirs(name, classes) ==
  <<Dir(<<"e3", name, "small">>, classes[name][1]), Dir(<<"e3", name, "large">>, classes[name][2])>>

Tagged(b, tags) == \E path : In(b, path) /\ path[1] \in tags

StartTags == {"preflight", "preflight_dom"}
RankTags == {"mds", "neigh"}
OtherTags == {"e1", "e2", "e7", "e8", "e4", "e11", "cores", "pool", "budget"}

LEMMA PlacesOfOthers ==
  ASSUME NEW classes, NEW b, OfOthers(b, classes)
  PROVE  /\ b.enters = TRUE /\ b.cell # NoCell
         /\ \/ b.leaves = TRUE /\ Tagged(b, OtherTags)
            \/ b.leaves = FALSE /\ Tagged(b, {"evictprobe"})
            \/ b.leaves = TRUE /\ \E u : b.dirs = ClassDirs(u, classes)
<1> PICK u, v, w, x, y :
      \/ b = DomCutoff(u, v, w)
      \/ b = DomFootprint(u, v)
      \/ b = FlushCost(u, v)
      \/ b = TailLatency(u, v)
      \/ b = StripeGrid(u, v, w, x, y)
      \/ b = WritePath(u, v, w)
      \/ b = CoresVsThroughput(u, v, w)
      \/ b = PoolSelection(u, v, w)
      \/ b = BottleneckBudget(u, v, w, x)
      \/ b = MixedClasses(u, classes[u][1], classes[u][2], v)
      \/ v \in BOOLEAN /\ b = Probe(u, v, w)
  BY DEF OfOthers
<1>1. CASE b = DomCutoff(u, v, w)
  <2>1. /\ b.dirs = <<Dir(<<"e1", u, v>>, "dom")>>
        /\ b.enters = TRUE /\ b.leaves = TRUE /\ b.cell # NoCell
    BY <1>1 DEF DomCutoff, Within, Body, NoCell
  <2>2. LayoutAt(<<"e1", u, v>>) = "dom" /\ <<"e1", u, v>>[1] = "e1"
    BY DEF LayoutAt
  <2> QED
    BY <2>1, <2>2 DEF In, Tagged, OtherTags
<1>2. CASE b = DomFootprint(u, v)
  <2>1. /\ b.dirs = <<Dir(<<"e2", u, v>>, u)>>
        /\ b.enters = TRUE /\ b.leaves = TRUE /\ b.cell # NoCell
    BY <1>2 DEF DomFootprint, Within, Body, NoCell
  <2>2. LayoutAt(<<"e2", u, v>>) = u /\ <<"e2", u, v>>[1] = "e2"
    BY DEF LayoutAt
  <2> QED
    BY <2>1, <2>2 DEF In, Tagged, OtherTags
<1>3. CASE b = FlushCost(u, v)
  <2>1. /\ b.dirs = <<Dir(<<"e7", u, v>>, (IF u = "ost" THEN "ost" ELSE "dom"))>>
        /\ b.enters = TRUE /\ b.leaves = TRUE /\ b.cell # NoCell
    BY <1>3 DEF FlushCost, Within, Body, NoCell
  <2>2. LayoutAt(<<"e7", u, v>>) = (IF u = "ost" THEN "ost" ELSE "dom") /\ <<"e7", u, v>>[1] = "e7"
    BY DEF LayoutAt
  <2> QED
    BY <2>1, <2>2 DEF In, Tagged, OtherTags
<1>4. CASE b = TailLatency(u, v)
  <2>1. /\ b.dirs = <<Dir(<<"e8", u, v>>, u)>>
        /\ b.enters = TRUE /\ b.leaves = TRUE /\ b.cell # NoCell
    BY <1>4 DEF TailLatency, Within, Body, NoCell
  <2>2. LayoutAt(<<"e8", u, v>>) = u /\ <<"e8", u, v>>[1] = "e8"
    BY DEF LayoutAt
  <2> QED
    BY <2>1, <2>2 DEF In, Tagged, OtherTags
<1>5. CASE b = StripeGrid(u, v, w, x, y)
  <2>1. /\ b.dirs = <<Dir(<<"e4", u, w, x, v>>, "ost")>>
        /\ b.enters = TRUE /\ b.leaves = TRUE /\ b.cell # NoCell
    BY <1>5 DEF StripeGrid, Within, Body, NoCell
  <2>2. LayoutAt(<<"e4", u, w, x, v>>) = "ost" /\ <<"e4", u, w, x, v>>[1] = "e4"
    BY DEF LayoutAt
  <2> QED
    BY <2>1, <2>2 DEF In, Tagged, OtherTags
<1>6. CASE b = WritePath(u, v, w)
  <2>1. /\ b.dirs = <<Dir(<<"e11", u, v>>, "ost")>>
        /\ b.enters = TRUE /\ b.leaves = TRUE /\ b.cell # NoCell
    BY <1>6 DEF WritePath, Within, Body, NoCell
  <2>2. LayoutAt(<<"e11", u, v>>) = "ost" /\ <<"e11", u, v>>[1] = "e11"
    BY DEF LayoutAt
  <2> QED
    BY <2>1, <2>2 DEF In, Tagged, OtherTags
<1>7. CASE b = CoresVsThroughput(u, v, w)
  <2>1. /\ b.dirs = <<Dir(<<"cores", u, v>>, "ost")>>
        /\ b.enters = TRUE /\ b.leaves = TRUE /\ b.cell # NoCell
    BY <1>7 DEF CoresVsThroughput, Within, Body, NoCell
  <2>2. LayoutAt(<<"cores", u, v>>) = "ost" /\ <<"cores", u, v>>[1] = "cores"
    BY DEF LayoutAt
  <2> QED
    BY <2>1, <2>2 DEF In, Tagged, OtherTags
<1>8. CASE b = PoolSelection(u, v, w)
  <2>1. /\ b.dirs = <<Dir(<<"pool", u, v>>, "ost")>>
        /\ b.enters = TRUE /\ b.leaves = TRUE /\ b.cell # NoCell
    BY <1>8 DEF PoolSelection, Within, Body, NoCell
  <2>2. LayoutAt(<<"pool", u, v>>) = "ost" /\ <<"pool", u, v>>[1] = "pool"
    BY DEF LayoutAt
  <2> QED
    BY <2>1, <2>2 DEF In, Tagged, OtherTags
<1>9. CASE b = BottleneckBudget(u, v, w, x)
  <2>1. /\ b.dirs = <<Dir(<<"budget", u, v, w>>, "ost")>>
        /\ b.enters = TRUE /\ b.leaves = TRUE /\ b.cell # NoCell
    BY <1>9 DEF BottleneckBudget, Within, Body, NoCell
  <2>2. LayoutAt(<<"budget", u, v, w>>) = "ost" /\ <<"budget", u, v, w>>[1] = "budget"
    BY DEF LayoutAt
  <2> QED
    BY <2>1, <2>2 DEF In, Tagged, OtherTags
<1>10. CASE b = MixedClasses(u, classes[u][1], classes[u][2], v)
  <2>1. b.dirs = ClassDirs(u, classes) /\ b.enters = TRUE /\ b.leaves = TRUE /\ b.cell # NoCell
    BY <1>10 DEF MixedClasses, Body, ClassDirs, NoCell
  <2> QED
    BY <2>1
<1>11. CASE v \in BOOLEAN /\ b = Probe(u, v, w)
  <2>1. /\ b.dirs = <<Dir(<<"evictprobe", u, v, w>>, u)>>
        /\ b.enters = TRUE /\ b.leaves = FALSE /\ b.cell # NoCell
    BY <1>11, BodyByUse DEF Probe, NoCell
  <2>2. LayoutAt(<<"evictprobe", u, v, w>>) = u /\ <<"evictprobe", u, v, w>>[1] = "evictprobe"
    BY DEF LayoutAt
  <2> QED
    BY <2>1, <2>2 DEF In, Tagged, OtherTags
<1> QED
  BY <1>1, <1>2, <1>3, <1>4, <1>5, <1>6, <1>7, <1>8, <1>9, <1>10, <1>11

LEMMA PlacesOfRank ==
  ASSUME NEW b, OfRank(b)
  PROVE  \E path : In(b, path) /\ path[1] \in {"mds", "neigh"} /\ b.cell = KeyAt(path) /\ b.cell # NoCell
                   /\ b.enters = TRUE /\ b.leaves = TRUE
<1> PICK arm, nodes, rank : b = MdsScaling(arm, nodes, rank) \/ b = NeighbourCost(arm, nodes, rank)
  BY DEF OfRank
<1>1. CASE b = MdsScaling(arm, nodes, rank)
  <2> DEFINE path == <<"mds", arm, nodes, rank>>
  <2>1. /\ b.dirs = <<Dir(path, arm)>> /\ b.cell = <<"mds_scaling", nodes, arm, rank>>
        /\ b.enters = TRUE /\ b.leaves = TRUE
    BY <1>1 DEF MdsScaling, MdsDir, Within, Body
  <2>2. KeyAt(path) = <<"mds_scaling", nodes, arm, rank>> /\ path[1] = "mds" /\ LayoutAt(path) = arm
    BY DEF KeyAt, LayoutAt
  <2>3. <<"mds_scaling", nodes, arm, rank>> # NoCell
    BY DEF NoCell
  <2> QED
    BY <2>1, <2>2, <2>3 DEF In
<1>2. CASE b = NeighbourCost(arm, nodes, rank)
  <2> DEFINE path == <<"neigh", arm, nodes, rank>>
  <2>1. /\ b.dirs = <<Dir(path, "ost")>> /\ b.cell = <<"neighbour_cost", arm, rank>>
        /\ b.enters = TRUE /\ b.leaves = TRUE
    BY <1>2 DEF NeighbourCost, Within, Body
  <2>2. KeyAt(path) = <<"neighbour_cost", arm, rank>> /\ path[1] = "neigh" /\ LayoutAt(path) = "ost"
    BY DEF KeyAt, LayoutAt
  <2>3. <<"neighbour_cost", arm, rank>> # NoCell
    BY DEF NoCell
  <2> QED
    BY <2>1, <2>2, <2>3 DEF In
<1> QED
  BY <1>1, <1>2

LEMMA EpochIs ==
  ASSUME NEW arm, NEW epoch
  PROVE  /\ Epoch(arm, epoch).dirs = <<Dir(<<"e9", arm>>, arm)>>
         /\ Epoch(arm, epoch).cell = <<"repeated_epochs", arm, epoch>>
         /\ Epoch(arm, epoch).cell # NoCell /\ InLedger(Epoch(arm, epoch).cell)
         /\ Epoch(arm, epoch).enters = (epoch = 0) /\ Epoch(arm, epoch).leaves = FALSE
         /\ HasOp(Epoch(arm, epoch), "read")
<1> DEFINE b == Epoch(arm, epoch)
           place == <<Dir(<<"e9", arm>>, arm)>>
           cell == <<"repeated_epochs", arm, epoch>>
<1>1. cell # NoCell /\ InLedger(cell)
  BY DEF NoCell, InLedger
<1>2. CASE epoch = 0
  <2>1. b = Body(cell, "fresh", place, TRUE, <<"write", "evict", "read">>)
    BY <1>2 DEF Epoch
  <2> HIDE DEF b, place, cell
  <2>2. b = [cell |-> cell, dirs |-> place, flush |-> TRUE, ops |-> <<"write", "evict", "read">>,
             enters |-> TRUE, leaves |-> FALSE]
    BY <2>1, BodyByUse
  <2>3. b.cell = cell /\ b.dirs = place /\ b.enters = TRUE /\ b.leaves = FALSE
    BY <2>2
  <2>4. HasOp(b, "read")
    <3>1. b.ops = <<"write", "evict", "read">>
      BY <2>2
    <3>2. Len(b.ops) = 3 /\ b.ops[3] = "read"
      BY <3>1
    <3> QED
      BY <3>2 DEF HasOp
  <2> QED
    BY <1>1, <1>2, <2>3, <2>4 DEF b, place, cell
<1>3. CASE epoch # 0
  <2>1. b = Body(cell, "none", place, TRUE, <<"read">>)
    BY <1>3 DEF Epoch
  <2> HIDE DEF b, place, cell
  <2>2. b = [cell |-> cell, dirs |-> place, flush |-> TRUE, ops |-> <<"read">>,
             enters |-> FALSE, leaves |-> FALSE]
    BY <2>1, BodyByUse
  <2>3. b.cell = cell /\ b.dirs = place /\ b.enters = FALSE /\ b.leaves = FALSE
    BY <2>2
  <2>4. HasOp(b, "read")
    <3>1. b.ops = <<"read">>
      BY <2>2
    <3>2. Len(b.ops) = 1 /\ b.ops[1] = "read"
      BY <3>1
    <3> QED
      BY <3>2 DEF HasOp
  <2> QED
    BY <1>1, <1>3, <2>3, <2>4 DEF b, place, cell
<1> QED
  BY <1>2, <1>3

LEMMA EpochKey ==
  ASSUME NEW arm, NEW epoch
  PROVE  Epoch(arm, epoch).cell[3] = epoch
<1>1. Epoch(arm, epoch).cell = <<"repeated_epochs", arm, epoch>>
  BY EpochIs
<1> QED
  BY <1>1

LEMMA EpochExperiment ==
  ASSUME NEW arm, NEW epoch
  PROVE  Epoch(arm, epoch).cell[1] = "repeated_epochs"
<1>1. Epoch(arm, epoch).cell = <<"repeated_epochs", arm, epoch>>
  BY EpochIs
<1> QED
  BY <1>1

LEMMA RemovalIs ==
  ASSUME NEW arm
  PROVE  /\ RemoveEpochs(arm).dirs = <<Dir(<<"e9", arm>>, arm)>>
         /\ RemoveEpochs(arm).cell = NoCell
         /\ RemoveEpochs(arm).enters = FALSE /\ RemoveEpochs(arm).leaves = TRUE
<1>1. RemoveEpochs(arm) = [cell |-> NoCell, dirs |-> <<Dir(<<"e9", arm>>, arm)>>, flush |-> TRUE,
                           ops |-> <<>>, enters |-> FALSE, leaves |-> TRUE]
  BY BodyByUse DEF RemoveEpochs
<1> DEFINE place == <<Dir(<<"e9", arm>>, arm)>>
<1> HIDE DEF place
<1>2. RemoveEpochs(arm) = [cell |-> NoCell, dirs |-> place, flush |-> TRUE,
                           ops |-> <<>>, enters |-> FALSE, leaves |-> TRUE]
  BY <1>1 DEF place
<1>3. /\ RemoveEpochs(arm).dirs = place /\ RemoveEpochs(arm).cell = NoCell
      /\ RemoveEpochs(arm).enters = FALSE /\ RemoveEpochs(arm).leaves = TRUE
  BY <1>2
<1> QED
  BY <1>3 DEF place

LEMMA PlacesOfEpochs ==
  ASSUME NEW b, OfEpochs(b)
  PROVE  Tagged(b, {"e9"})
<1>1. PICK arm, epoch : b = Epoch(arm, epoch) \/ b = RemoveEpochs(arm)
  BY DEF OfEpochs
<1>2. b.dirs = <<Dir(<<"e9", arm>>, arm)>>
  <2>1. CASE b = Epoch(arm, epoch)
    BY <2>1, EpochIs
  <2>2. CASE b = RemoveEpochs(arm)
    BY <2>2, RemovalIs
  <2> QED
    BY <1>1, <2>1, <2>2
<1>3. LayoutAt(<<"e9", arm>>) = arm /\ <<"e9", arm>>[1] = "e9"
  BY DEF LayoutAt
<1> QED
  BY <1>2, <1>3 DEF Tagged, In

LEMMA PlacesOfStart ==
  ASSUME NEW b, OfStart(b)
  PROVE  Tagged(b, StartTags) /\ b.cell = NoCell /\ b.enters = TRUE /\ b.leaves = TRUE
<1>1. CASE b = Preflight[1]
  <2>1. b.dirs = <<Dir(<<"preflight">>, "ost")>> /\ b.cell = NoCell /\ b.enters = TRUE /\ b.leaves = TRUE
    BY <1>1 DEF Preflight, Within, Body
  <2>2. LayoutAt(<<"preflight">>) = "ost" /\ <<"preflight">>[1] = "preflight"
    BY DEF LayoutAt
  <2> QED
    BY <2>1, <2>2 DEF Tagged, In, StartTags
<1>2. CASE b = Preflight[2]
  <2>1. b.dirs = <<Dir(<<"preflight_dom">>, "dom")>> /\ b.cell = NoCell /\ b.enters = TRUE /\ b.leaves = TRUE
    BY <1>2 DEF Preflight, Within, Body
  <2>2. LayoutAt(<<"preflight_dom">>) = "dom" /\ <<"preflight_dom">>[1] = "preflight_dom"
    BY DEF LayoutAt
  <2> QED
    BY <2>1, <2>2 DEF Tagged, In, StartTags
<1> QED
  BY <1>1, <1>2 DEF OfStart

LEMMA PathsOfOne ==
  ASSUME NEW b, NEW path, In(b, path)
  PROVE  Paths(b) = {path}
<1>1. Len(b.dirs) = 1 /\ b.dirs[1] = Dir(path, LayoutAt(path))
  BY DEF In
<1>2. Dir(path, LayoutAt(path)).path = path
  BY DEF Dir
<1> QED
  BY <1>1, <1>2 DEF Paths

LEMMA PathsOfClasses ==
  ASSUME NEW b, NEW u, NEW classes, b.dirs = ClassDirs(u, classes)
  PROVE  Paths(b) = {<<"e3", u, "small">>, <<"e3", u, "large">>}
<1> DEFINE small == Dir(<<"e3", u, "small">>, classes[u][1])
           large == Dir(<<"e3", u, "large">>, classes[u][2])
<1>1. b.dirs = <<small, large>>
  BY DEF ClassDirs
<1>2. small.path = <<"e3", u, "small">> /\ large.path = <<"e3", u, "large">>
  BY DEF Dir
<1> HIDE DEF small, large
<1>3. Len(b.dirs) = 2 /\ b.dirs[1] = small /\ b.dirs[2] = large
  BY <1>1
<1>4. \A d \in 1..2 : d = 1 \/ d = 2
  OBVIOUS
<1>5. Paths(b) = {b.dirs[d].path : d \in 1..2}
  BY <1>3 DEF Paths
<1> QED
  BY <1>2, <1>3, <1>4, <1>5

LEMMA TaggedTogether ==
  ASSUME NEW b, NEW c, NEW S, NEW T, Tagged(b, S), Tagged(c, T), Paths(b) \cap Paths(c) # {}
  PROVE  \E path : In(b, path) /\ In(c, path) /\ path[1] \in S \cap T
BY PathsOfOne DEF Tagged

LEMMA TaggedOrClasses ==
  ASSUME NEW b, NEW S, "e3" \notin S, Tagged(b, S), NEW c, NEW u, NEW classes, c.dirs = ClassDirs(u, classes)
  PROVE  Paths(b) \cap Paths(c) = {}
<1>1. PICK path : Paths(b) = {path} /\ path[1] \in S
  BY PathsOfOne DEF Tagged
<1>2. Paths(c) = {<<"e3", u, "small">>, <<"e3", u, "large">>}
  BY PathsOfClasses
<1>3. <<"e3", u, "small">>[1] = "e3" /\ <<"e3", u, "large">>[1] = "e3"
  OBVIOUS
<1> QED
  BY <1>1, <1>2, <1>3, Zenon

LEMMA ClassesTogether ==
  ASSUME NEW b, NEW c, NEW u, NEW v, NEW classes, b.dirs = ClassDirs(u, classes), c.dirs = ClassDirs(v, classes),
         Paths(b) \cap Paths(c) # {}
  PROVE  b.dirs = c.dirs
<1>1. /\ Paths(b) = {<<"e3", u, "small">>, <<"e3", u, "large">>}
      /\ Paths(c) = {<<"e3", v, "small">>, <<"e3", v, "large">>}
  BY PathsOfClasses
<1>2. /\ <<"e3", u, "small">>[2] = u /\ <<"e3", u, "large">>[2] = u
      /\ <<"e3", v, "small">>[2] = v /\ <<"e3", v, "large">>[2] = v
  OBVIOUS
<1>3. u = v
  BY <1>1, <1>2, Zenon
<1> QED
  BY <1>3

\* Bodies that have a directory in common have all in common and are of one kind.
LEMMA SameNames ==
  ASSUME NEW classes, NEW b, NEW c, OfCatalogue(b, classes), OfCatalogue(c, classes),
         Paths(b) \cap Paths(c) # {}
  PROVE  /\ b.dirs = c.dirs
         /\ \/ OfStart(b) /\ OfStart(c)
            \/ OfRank(b) /\ OfRank(c) /\ b.cell = c.cell
            \/ OfEpochs(b) /\ OfEpochs(c)
            \/ OfOthers(b, classes) /\ OfOthers(c, classes) /\ b.leaves = c.leaves
<1> DEFINE Tags == StartTags \cup RankTags \cup OtherTags \cup {"e9", "evictprobe"}
           Single(d) == \/ OfStart(d) /\ Tagged(d, StartTags)
                        \/ OfRank(d) /\ Tagged(d, RankTags)
                        \/ OfEpochs(d) /\ Tagged(d, {"e9"})
                        \/ OfOthers(d, classes) /\ d.leaves = TRUE /\ Tagged(d, OtherTags)
                        \/ OfOthers(d, classes) /\ d.leaves = FALSE /\ Tagged(d, {"evictprobe"})
           Pair(d) == OfOthers(d, classes) /\ d.leaves = TRUE /\ \E u : d.dirs = ClassDirs(u, classes)
<1>1. ASSUME NEW d, OfCatalogue(d, classes) PROVE Single(d) \/ Pair(d)
  <2>1. OfRank(d) => Tagged(d, RankTags)
    BY PlacesOfRank DEF Tagged, RankTags
  <2> QED
    BY <1>1, <2>1, PlacesOfStart, PlacesOfEpochs, PlacesOfOthers DEF OfCatalogue
<1>2. ASSUME NEW d, Single(d) PROVE Tagged(d, Tags) /\ "e3" \notin Tags
  BY <1>2 DEF Tagged, StartTags, RankTags, OtherTags
<1>3. CASE Single(b) /\ Single(c)
  <2>1. PICK path : In(b, path) /\ In(c, path)
    BY <1>2, <1>3, TaggedTogether
  <2>2. b.dirs = c.dirs /\ Paths(b) = {path} /\ Paths(c) = {path}
    BY <2>1, PathsOfOne DEF In
  <2>3. \A S : (Tagged(b, S) => path[1] \in S) /\ (Tagged(c, S) => path[1] \in S)
    BY <2>2, PathsOfOne DEF Tagged
  <2>4. OfRank(b) /\ OfRank(c) => b.cell = c.cell
    <3> SUFFICES ASSUME OfRank(b), OfRank(c) PROVE b.cell = c.cell
      OBVIOUS
    <3>1. PICK p1 : In(b, p1) /\ b.cell = KeyAt(p1)
      BY PlacesOfRank
    <3>2. PICK p2 : In(c, p2) /\ c.cell = KeyAt(p2)
      BY PlacesOfRank
    <3>3. p1 = path /\ p2 = path
      BY <2>2, <3>1, <3>2, PathsOfOne
    <3> QED
      BY <3>1, <3>2, <3>3
  <2> DEFINE tag == path[1]
  <2>5. ASSUME NEW d \in {b, c}
        PROVE  \/ OfStart(d) /\ tag \in StartTags
               \/ OfRank(d) /\ tag \in RankTags
               \/ OfEpochs(d) /\ tag \in {"e9"}
               \/ OfOthers(d, classes) /\ d.leaves = TRUE /\ tag \in OtherTags
               \/ OfOthers(d, classes) /\ d.leaves = FALSE /\ tag \in {"evictprobe"}
    BY <1>3, <2>3
  <2> HIDE DEF tag
  <2>6. /\ tag \in StartTags => tag \notin RankTags /\ tag # "e9" /\ tag \notin OtherTags /\ tag # "evictprobe"
        /\ tag \in RankTags => tag # "e9" /\ tag \notin OtherTags /\ tag # "evictprobe"
        /\ tag = "e9" => tag \notin OtherTags /\ tag # "evictprobe"
        /\ tag \in OtherTags => tag # "evictprobe"
    BY DEF StartTags, RankTags, OtherTags
  <2> QED
    BY <2>2, <2>4, <2>5, <2>6, Zenon
<1>4. CASE Pair(b) /\ Single(c)
  BY <1>2, <1>4, TaggedOrClasses
<1>5. CASE Single(b) /\ Pair(c)
  BY <1>2, <1>5, TaggedOrClasses
<1>6. CASE Pair(b) /\ Pair(c)
  BY <1>6, ClassesTogether
<1> QED
  BY <1>1, <1>3, <1>4, <1>5, <1>6

LEMMA EpochsAreOfNoOther ==
  ASSUME NEW classes, NEW b, OfEpochs(b)
  PROVE  ~OfStart(b) /\ ~OfRank(b) /\ ~OfOthers(b, classes)
<1>1. PICK path : Paths(b) = {path} /\ path[1] = "e9"
  BY PlacesOfEpochs, PathsOfOne DEF Tagged
<1>2. ASSUME NEW S, Tagged(b, S) PROVE "e9" \in S
  BY <1>1, <1>2, PathsOfOne DEF Tagged
<1>3. ~OfStart(b)
  BY <1>2, PlacesOfStart DEF StartTags
<1>4. ~OfRank(b)
  <2>1. OfRank(b) => Tagged(b, RankTags)
    BY PlacesOfRank DEF Tagged, RankTags
  <2> QED
    BY <1>2, <2>1 DEF RankTags
<1>5. ~OfOthers(b, classes)
  <2>1. ~Tagged(b, OtherTags) /\ ~Tagged(b, {"evictprobe"})
    BY <1>2 DEF OtherTags
  <2>2. \A u : b.dirs # ClassDirs(u, classes)
    <3> SUFFICES ASSUME NEW u, b.dirs = ClassDirs(u, classes) PROVE FALSE
      OBVIOUS
    <3>1. Paths(b) \cap Paths(b) = {}
      BY PlacesOfEpochs, TaggedOrClasses
    <3> QED
      BY <1>1, <3>1
  <2> QED
    BY <2>1, <2>2, PlacesOfOthers
<1> QED
  BY <1>3, <1>4, <1>5

LEMMA StepOfLoop ==
  ASSUME NEW work, NEW p, NEW s, NEW n, NEW arm, LoopAt(work, p, s, n, arm), Len(work[p]) \in Nat,
         NEW j \in s..(s + n)
  PROVE  /\ j \in 1..Len(work[p])
         /\ \/ j < s + n /\ work[p][j] = Epoch(arm, j - s)
            \/ j = s + n /\ work[p][j] = RemoveEpochs(arm)
<1>1. s \in Nat \ {0} /\ n \in Nat \ {0} /\ s + n <= Len(work[p])
  BY DEF LoopAt
<1>2. CASE j = s + n
  BY <1>1, <1>2 DEF LoopAt
<1>3. CASE j # s + n
  <2>1. j - s \in 0..(n - 1) /\ s + (j - s) = j /\ j < s + n
    BY <1>1, <1>3
  <2>2. work[p][s + (j - s)] = Epoch(arm, j - s)
    BY <2>1 DEF LoopAt
  <2> QED
    BY <1>1, <2>1, <2>2
<1> QED
  BY <1>2, <1>3

LEMMA DirsOfLoop ==
  ASSUME NEW work, NEW p, NEW s, NEW n, NEW arm, LoopAt(work, p, s, n, arm), Len(work[p]) \in Nat,
         NEW j \in s..(s + n)
  PROVE  work[p][j].dirs = <<Dir(<<"e9", arm>>, arm)>>
<1>1. ASSUME NEW epoch, work[p][j] = Epoch(arm, epoch)
      PROVE  work[p][j].dirs = <<Dir(<<"e9", arm>>, arm)>>
  <2>1. Epoch(arm, epoch).dirs = <<Dir(<<"e9", arm>>, arm)>>
    BY EpochIs
  <2> QED
    BY <1>1, <2>1
<1>2. CASE work[p][j] = RemoveEpochs(arm)
  BY <1>2, RemovalIs
<1> QED
  BY <1>1, <1>2, StepOfLoop

\* An arm has one loop, as its keys are planned once.
LEMMA OneLoop ==
  ASSUME KeysApart, NEW work \in Workload, NEW p \in Proc, Len(work[p]) \in Nat,
         NEW arm, NEW s, NEW n, LoopAt(work, p, s, n, arm), NEW t, NEW m, LoopAt(work, p, t, m, arm)
  PROVE  s = t /\ n = m
<1>1. /\ s \in Nat \ {0} /\ n \in Nat \ {0} /\ s + n <= Len(work[p])
      /\ t \in Nat \ {0} /\ m \in Nat \ {0} /\ t + m <= Len(work[p])
  BY DEF LoopAt
<1>2. s = t
  <2>1. s \in s..(s + n) /\ t \in t..(t + m) /\ s # s + n /\ t # t + m /\ s - s = 0 /\ t - t = 0
    BY <1>1
  <2>2. work[p][s] = Epoch(arm, 0) /\ s \in 1..Len(work[p])
    BY <2>1, StepOfLoop
  <2>3. work[p][t] = Epoch(arm, 0) /\ t \in 1..Len(work[p])
    BY <2>1, StepOfLoop
  <2>4. Epoch(arm, 0).cell # NoCell
    BY EpochIs
  <2> QED
    BY <2>2, <2>3, <2>4 DEF KeysApart
<1>3. ASSUME NEW j PROVE Epoch(arm, j) # RemoveEpochs(arm)
  <2>1. Epoch(arm, j).leaves = FALSE
    BY EpochIs
  <2>2. RemoveEpochs(arm).leaves = TRUE
    BY RemovalIs
  <2> QED
    BY <2>1, <2>2
<1>4. ~(n < m)
  <2> SUFFICES ASSUME n < m, NEW j, j = s + n PROVE FALSE
    OBVIOUS
  <2>1. j \in t..(t + m) /\ j # t + m
    BY <1>1, <1>2
  <2>2. work[p][j] = RemoveEpochs(arm)
    BY DEF LoopAt
  <2>3. work[p][j] = Epoch(arm, j - t)
    BY <2>1, StepOfLoop
  <2> QED
    BY <1>3, <2>2, <2>3
<1>5. ~(m < n)
  <2> SUFFICES ASSUME m < n, NEW j, j = t + m PROVE FALSE
    OBVIOUS
  <2>1. j \in s..(s + n) /\ j # s + n
    BY <1>1, <1>2
  <2>2. work[p][j] = RemoveEpochs(arm)
    BY DEF LoopAt
  <2>3. work[p][j] = Epoch(arm, j - s)
    BY <2>1, StepOfLoop
  <2> QED
    BY <1>3, <2>2, <2>3
<1> QED
  BY <1>1, <1>2, <1>4, <1>5

\* Whatever works in the directory of an arm's epochs is in its loop.
LEMMA InTheLoop ==
  ASSUME NEW classes, FromExperiments(classes), KeysApart,
         NEW work \in Workload, NEW p \in Proc, NEW i \in 1..Len(work[p]), OfEpochs(work[p][i])
  PROVE  \E arm, s, n :
           /\ LoopAt(work, p, s, n, arm) /\ i \in s..(s + n)
           /\ \A j \in 1..Len(work[p]) :
                Paths(work[p][j]) \cap Paths(work[p][i]) # {} => j \in s..(s + n)
<1>1. Len(work[p]) \in Nat /\ \A j \in 1..Len(work[p]) : OfCatalogue(work[p][j], classes)
  BY DEF FromExperiments
<1>2. PICK arm, s, n : LoopAt(work, p, s, n, arm) /\ i \in s..(s + n)
  BY DEF FromExperiments
<1>3. ASSUME NEW j \in 1..Len(work[p]), Paths(work[p][j]) \cap Paths(work[p][i]) # {}
      PROVE  j \in s..(s + n)
  <2>1. work[p][j].dirs = work[p][i].dirs /\ OfEpochs(work[p][j])
    BY <1>1, <1>3, SameNames, EpochsAreOfNoOther
  <2>2. PICK other, t, m : LoopAt(work, p, t, m, other) /\ j \in t..(t + m)
    BY <2>1 DEF FromExperiments
  <2>3. work[p][i].dirs = <<Dir(<<"e9", arm>>, arm)>>
    BY <1>1, <1>2, DirsOfLoop
  <2>4. work[p][j].dirs = <<Dir(<<"e9", other>>, other)>>
    BY <1>1, <2>2, DirsOfLoop
  <2>5. arm = other
    <3>1. Dir(<<"e9", arm>>, arm) = Dir(<<"e9", other>>, other)
      BY <2>1, <2>3, <2>4
    <3> QED
      BY <3>1 DEF Dir
  <2> QED
    BY <1>1, <1>2, <2>2, <2>5, OneLoop
<1> QED
  BY <1>2, <1>3

LEMMA CatalogueIsShaped ==
  ASSUME NEW classes, NEW b, OfCatalogue(b, classes)
  PROVE  WellShaped(b)
<1>1. OfStart(b) => WellShaped(b)
  BY OthersAreWellShaped DEF OfStart
<1>2. OfRank(b) => WellShaped(b)
  <2>1. TRUE \in BOOLEAN
    OBVIOUS
  <2>2. \A arm, nodes, rank : WellShaped(MdsScaling(arm, nodes, rank)) /\ WellShaped(NeighbourCost(arm, nodes, rank))
    BY <2>1, CatalogueIsWellShaped
  <2> QED
    BY <2>2, Zenon DEF OfRank
<1>3. OfEpochs(b) => WellShaped(b)
  <2>1. TRUE \in BOOLEAN
    OBVIOUS
  <2>2. \A arm, epoch : WellShaped(Epoch(arm, epoch)) /\ WellShaped(RemoveEpochs(arm))
    BY <2>1, CatalogueIsWellShaped, OthersAreWellShaped
  <2> QED
    BY <2>2, Zenon DEF OfEpochs
<1>4. OfOthers(b, classes) => WellShaped(b)
  <2> SUFFICES ASSUME OfOthers(b, classes) PROVE WellShaped(b)
    OBVIOUS
  <2>1. PICK u, v, w, x, y :
          \/ b = DomCutoff(u, v, w)
          \/ b = DomFootprint(u, v)
          \/ b = FlushCost(u, v)
          \/ b = TailLatency(u, v)
          \/ b = StripeGrid(u, v, w, x, y)
          \/ b = WritePath(u, v, w)
          \/ b = CoresVsThroughput(u, v, w)
          \/ b = PoolSelection(u, v, w)
          \/ b = BottleneckBudget(u, v, w, x)
          \/ b = MixedClasses(u, classes[u][1], classes[u][2], v)
          \/ v \in BOOLEAN /\ b = Probe(u, v, w)
    BY DEF OfOthers
  <2>2. TRUE \in BOOLEAN
    OBVIOUS
  <2>3. /\ WellShaped(DomCutoff(u, v, w)) /\ WellShaped(DomFootprint(u, v))
        /\ WellShaped(FlushCost(u, v)) /\ WellShaped(TailLatency(u, v))
        /\ WellShaped(StripeGrid(u, v, w, x, y))
        /\ WellShaped(WritePath(u, v, w)) /\ WellShaped(CoresVsThroughput(u, v, w))
        /\ WellShaped(PoolSelection(u, v, w)) /\ WellShaped(BottleneckBudget(u, v, w, x))
    BY <2>2, CatalogueIsWellShaped
  <2>4. WellShaped(MixedClasses(u, classes[u][1], classes[u][2], v))
    BY <2>2, CatalogueIsWellShaped
  <2>5. v \in BOOLEAN => WellShaped(Probe(u, v, w))
    BY CatalogueIsWellShaped
  <2> QED
    BY <2>1, <2>3, <2>4, <2>5, Zenon
<1> QED
  BY <1>1, <1>2, <1>3, <1>4 DEF OfCatalogue

\* The plans of the experiments are as the theorems about cells ask of them: for
\* every experiment and all parameters of its loops, for loops of any number of
\* epochs, and in any order, names and keys do what they are for
\* (docs/experiments.md:137-141).
THEOREM ExperimentsPlanWell ==
  ASSUME NEW classes, FromExperiments(classes), KeysApart
  PROVE  PlannedWell /\ RemovedLater /\ EpochsInOrder
<1> SUFFICES ASSUME NEW work \in Workload
             PROVE  /\ \A p \in Proc :
                         Len(work[p]) \in Nat /\ \A i \in 1..Len(work[p]) : WellShaped(work[p][i])
                    /\ \A p, q \in Proc : \A i \in 1..Len(work[p]), k \in 1..Len(work[q]) :
                         Paths(work[p][i]) \cap Paths(work[q][k]) # {} =>
                           /\ work[p][i].dirs = work[q][k].dirs
                           /\ p = q \/ work[p][i].cell = NoCell
                    /\ \A p \in Proc : \A i, k \in 1..Len(work[p]) :
                         /\ work[p][i].enters /\ ~work[p][i].leaves
                         /\ work[p][k].leaves /\ Paths(work[p][i]) \cap Paths(work[p][k]) # {}
                         => \E j \in (i + 1)..Len(work[p]) :
                              work[p][j].leaves /\ work[p][j].cell = NoCell /\ work[p][j].dirs = work[p][i].dirs
                    /\ \A p \in Proc : \A i, k \in 1..Len(work[p]) :
                         Follows(work, p, i, k) =>
                           /\ i < k /\ InLedger(work[p][i].cell) /\ InLedger(work[p][k].cell)
                           /\ HasOp(work[p][i], "read") /\ HasOp(work[p][k], "read")
                           /\ \A j \in 1..k :
                                work[p][j].dirs = work[p][i].dirs /\ j # i =>
                                  ~work[p][j].enters /\ ~work[p][j].leaves
                           /\ \A j \in (i + 1)..Len(work[p]) : work[p][j].dirs = work[p][i].dirs =>
                                \A m \in (i + 1)..j : SameExperiment(work[p][i], work[p][m])
  BY DEF PlannedWell, Shaped, DirsApart, RemovedLater, EpochsInOrder
<1>1. /\ \A p \in Proc : Len(work[p]) \in Nat
      /\ \A p \in Proc : \A i \in 1..Len(work[p]) : OfCatalogue(work[p][i], classes)
      /\ \A p, q \in Proc : \A i \in 1..Len(work[p]), k \in 1..Len(work[q]) :
           OfOneClient(work[p][i], classes) /\ OfOneClient(work[q][k], classes) => p = q
  BY DEF FromExperiments
<1>2. \A p \in Proc : \A i \in 1..Len(work[p]) : WellShaped(work[p][i])
  BY <1>1, CatalogueIsShaped
<1>3. ASSUME NEW p \in Proc, NEW q \in Proc, NEW i \in 1..Len(work[p]), NEW k \in 1..Len(work[q]),
             Paths(work[p][i]) \cap Paths(work[q][k]) # {}
      PROVE  work[p][i].dirs = work[q][k].dirs /\ (p = q \/ work[p][i].cell = NoCell)
  <2> DEFINE b == work[p][i]
             c == work[q][k]
  <2>1. /\ b.dirs = c.dirs
        /\ \/ OfStart(b) /\ OfStart(c)
           \/ OfRank(b) /\ OfRank(c) /\ b.cell = c.cell
           \/ OfEpochs(b) /\ OfEpochs(c)
           \/ OfOthers(b, classes) /\ OfOthers(c, classes) /\ b.leaves = c.leaves
    BY <1>1, <1>3, SameNames
  <2>2. OfStart(b) => b.cell = NoCell
    BY PlacesOfStart
  <2>3. OfRank(b) => b.cell # NoCell
    BY PlacesOfRank
  <2>4. b.cell = c.cell /\ b.cell # NoCell => p = q
    BY DEF KeysApart
  <2>5. OfOneClient(b, classes) /\ OfOneClient(c, classes) => p = q
    BY <1>1
  <2> QED
    BY <2>1, <2>2, <2>3, <2>4, <2>5 DEF OfOneClient
<1>4. ASSUME NEW p \in Proc, NEW i \in 1..Len(work[p]),
             work[p][i].enters, ~work[p][i].leaves, OfEpochs(work[p][i])
      PROVE  \E arm, s, n :
               /\ LoopAt(work, p, s, n, arm) /\ i = s /\ work[p][i] = Epoch(arm, 0)
               /\ \A j \in 1..Len(work[p]) : Paths(work[p][j]) \cap Paths(work[p][i]) # {} => j \in s..(s + n)
  <2>1. PICK arm, s, n :
           /\ LoopAt(work, p, s, n, arm) /\ i \in s..(s + n)
           /\ \A j \in 1..Len(work[p]) : Paths(work[p][j]) \cap Paths(work[p][i]) # {} => j \in s..(s + n)
    BY <1>4, InTheLoop
  <2>2. i < s + n /\ work[p][i] = Epoch(arm, i - s)
    <3>1. work[p][i] # RemoveEpochs(arm)
      BY <1>4, RemovalIs
    <3> QED
      BY <1>1, <2>1, <3>1, StepOfLoop
  <2>3. i - s = 0 /\ s \in Nat
    <3>1. Epoch(arm, i - s).enters = (i - s = 0)
      BY EpochIs
    <3> QED
      BY <1>4, <2>1, <2>2, <3>1 DEF LoopAt
  <2>4. i = s /\ work[p][i] = Epoch(arm, 0)
    BY <2>2, <2>3
  <2> QED
    BY <2>1, <2>4
<1>5. ASSUME NEW p \in Proc, NEW i \in 1..Len(work[p]), NEW k \in 1..Len(work[p]),
             work[p][i].enters, ~work[p][i].leaves,
             work[p][k].leaves, Paths(work[p][i]) \cap Paths(work[p][k]) # {}
      PROVE  \E j \in (i + 1)..Len(work[p]) :
               work[p][j].leaves /\ work[p][j].cell = NoCell /\ work[p][j].dirs = work[p][i].dirs
  <2>1. OfEpochs(work[p][i])
    BY <1>1, <1>5, SameNames, PlacesOfStart, PlacesOfRank
  <2>2. PICK arm, s, n : LoopAt(work, p, s, n, arm) /\ i = s /\ work[p][i] = Epoch(arm, 0)
    BY <1>4, <1>5, <2>1
  <2>3. s \in Nat \ {0} /\ n \in Nat \ {0} /\ s + n <= Len(work[p]) /\ work[p][s + n] = RemoveEpochs(arm)
    BY <2>2 DEF LoopAt
  <2>4. s + n \in (i + 1)..Len(work[p])
    BY <1>1, <2>2, <2>3
  <2>5. /\ work[p][s + n].leaves = TRUE /\ work[p][s + n].cell = NoCell
        /\ work[p][s + n].dirs = <<Dir(<<"e9", arm>>, arm)>>
    BY <2>3, RemovalIs
  <2>6. work[p][i].dirs = <<Dir(<<"e9", arm>>, arm)>>
    BY <2>2, EpochIs
  <2> QED
    BY <2>4, <2>5, <2>6
<1>6. ASSUME NEW p \in Proc, NEW i \in 1..Len(work[p]), NEW k \in 1..Len(work[p]), Follows(work, p, i, k)
      PROVE  /\ i < k /\ InLedger(work[p][i].cell) /\ InLedger(work[p][k].cell)
             /\ HasOp(work[p][i], "read") /\ HasOp(work[p][k], "read")
             /\ \A j \in 1..k :
                  work[p][j].dirs = work[p][i].dirs /\ j # i => ~work[p][j].enters /\ ~work[p][j].leaves
             /\ \A j \in (i + 1)..Len(work[p]) : work[p][j].dirs = work[p][i].dirs =>
                  \A m \in (i + 1)..j : SameExperiment(work[p][i], work[p][m])
  <2>1. /\ work[p][i].enters /\ ~work[p][i].leaves
        /\ ~work[p][k].enters /\ work[p][k].cell # NoCell /\ work[p][i].dirs = work[p][k].dirs
    BY <1>6 DEF Follows
  <2>2. Paths(work[p][i]) # {} /\ Paths(work[p][i]) = Paths(work[p][k])
    <3>1. 1 \in 1..Len(work[p][i].dirs)
      BY <1>2 DEF WellShaped, NamesApart
    <3> QED
      BY <2>1, <3>1 DEF Paths
  <2>3. OfEpochs(work[p][i])
    <3>1. ~OfOthers(work[p][k], classes)
      BY <2>1, PlacesOfOthers
    <3> QED
      BY <1>1, <2>1, <2>2, <3>1, SameNames, PlacesOfStart, PlacesOfRank
  <2>4. PICK arm, s, n :
           /\ LoopAt(work, p, s, n, arm) /\ i = s /\ work[p][i] = Epoch(arm, 0)
           /\ \A j \in 1..Len(work[p]) : Paths(work[p][j]) \cap Paths(work[p][i]) # {} => j \in s..(s + n)
    BY <1>4, <2>1, <2>3
  <2>5. s \in Nat \ {0} /\ n \in Nat \ {0} /\ s + n <= Len(work[p])
    BY <2>4 DEF LoopAt
  <2>6. k \in s..(s + n) /\ k < s + n /\ work[p][k] = Epoch(arm, k - s)
    <3>1. k \in s..(s + n)
      BY <2>2, <2>4
    <3>2. work[p][k] # RemoveEpochs(arm)
      BY <2>1, RemovalIs
    <3> QED
      BY <1>1, <2>4, <3>1, <3>2, StepOfLoop
  <2>7. i < k
    <3>1. k # i
      BY <2>1
    <3> QED
      BY <2>4, <2>5, <2>6, <3>1
  <2>8. /\ InLedger(work[p][i].cell) /\ InLedger(work[p][k].cell)
        /\ HasOp(work[p][i], "read") /\ HasOp(work[p][k], "read")
    BY <2>4, <2>6, EpochIs
  <2>9. ASSUME NEW j \in 1..k, work[p][j].dirs = work[p][i].dirs, j # i
        PROVE  ~work[p][j].enters /\ ~work[p][j].leaves
    <3>1. j \in 1..Len(work[p]) /\ Paths(work[p][j]) = Paths(work[p][i])
      BY <1>1, <2>9 DEF Paths
    <3>2. j \in s..(s + n) /\ j < s + n /\ j - s # 0
      BY <2>2, <2>4, <2>5, <2>6, <2>9, <3>1
    <3>3. work[p][j] = Epoch(arm, j - s)
      BY <1>1, <2>4, <3>2, StepOfLoop
    <3>4. Epoch(arm, j - s).enters = (j - s = 0) /\ Epoch(arm, j - s).leaves = FALSE
      BY EpochIs
    <3> QED
      BY <3>2, <3>3, <3>4
  <2>10. ASSUME NEW j \in (i + 1)..Len(work[p]), work[p][j].dirs = work[p][i].dirs,
                NEW m \in (i + 1)..j
         PROVE  SameExperiment(work[p][i], work[p][m])
    <3>1. j \in 1..Len(work[p]) /\ Paths(work[p][j]) = Paths(work[p][i])
      BY <1>1, <2>10 DEF Paths
    <3>2. m \in s..(s + n)
      BY <2>2, <2>4, <2>5, <3>1
    <3>3. work[p][m] = Epoch(arm, m - s) \/ work[p][m] = RemoveEpochs(arm)
      BY <1>1, <2>4, <3>2, StepOfLoop
    <3>4. work[p][i].cell[1] = "repeated_epochs"
      BY <2>4, EpochExperiment
    <3>5. Epoch(arm, m - s).cell[1] = "repeated_epochs"
      BY EpochExperiment
    <3> QED
      BY <3>3, <3>4, <3>5, RemovalIs DEF SameExperiment
  <2> QED
    BY <2>7, <2>8, <2>9, <2>10
<1> QED
  BY <1>1, <1>2, <1>3, <1>5, <1>6

\* Nothing but the start-up check works in directories that another process works
\* in, and the check does (_preflight, runner.py:192, 198).
THEOREM OnlyStartUpIsShared ==
  ASSUME NEW classes, FromExperiments(classes), KeysApart, NEW work \in Workload,
         NEW p \in Proc, NEW q \in Proc, p # q,
         NEW i \in 1..Len(work[p]), NEW k \in 1..Len(work[q])
  PROVE  /\ Paths(work[p][i]) \cap Paths(work[q][k]) # {} => OfStart(work[p][i]) /\ OfStart(work[q][k])
         /\ OfStart(work[p][i]) /\ work[p][i] = work[q][k] => Paths(work[p][i]) \cap Paths(work[q][k]) # {}
<1> DEFINE b == work[p][i]
           c == work[q][k]
<1>1. /\ OfCatalogue(b, classes) /\ OfCatalogue(c, classes)
      /\ ~(OfOneClient(b, classes) /\ OfOneClient(c, classes))
  BY DEF FromExperiments
<1>2. ASSUME Paths(b) \cap Paths(c) # {} PROVE OfStart(b) /\ OfStart(c)
  <2>1. OfRank(b) /\ b.cell = c.cell => p = q
    BY PlacesOfRank DEF KeysApart
  <2> QED
    BY <1>1, <1>2, <2>1, SameNames DEF OfOneClient
<1>3. ASSUME OfStart(b), b = c PROVE Paths(b) \cap Paths(c) # {}
  <2>1. PICK path : In(b, path)
    BY <1>3, PlacesOfStart DEF Tagged
  <2> QED
    BY <1>3, <2>1, PathsOfOne
<1> QED
  BY <1>2, <1>3

\* There are such plans: the epochs of an arm, as many as one likes.
LEMMA EpochsAreExperiments ==
  ASSUME NEW arm, NEW n \in Nat \ {0}, NEW one, Proc = {one},
         Workload = {[p \in Proc |-> RepeatedEpochs(arm, n)]}, NEW classes
  PROVE  FromExperiments(classes) /\ KeysApart
<1> DEFINE loop == RepeatedEpochs(arm, n)
           epochs == [i \in 1..n |-> Epoch(arm, i - 1)]
<1>1. epochs \in Seq({Epoch(arm, i - 1) : i \in 1..n}) /\ Len(epochs) = n
      /\ \A i \in 1..n : epochs[i] = Epoch(arm, i - 1)
  <2> DEFINE step(i) == Epoch(arm, i - 1)
             S == {step(i) : i \in 1..n}
  <2>1. \A i \in 1..n : step(i) \in S
    OBVIOUS
  <2>2. epochs = [i \in 1..n |-> step(i)]
    OBVIOUS
  <2> HIDE DEF step, epochs
  <2>3. epochs \in [1..n -> S] /\ \A i \in 1..n : epochs[i] = step(i)
    BY <2>1, <2>2
  <2> HIDE DEF S
  <2>4. epochs \in Seq(S) /\ Len(epochs) = n
    BY <2>3
  <2> QED
    BY <2>3, <2>4 DEF S, step
<1>2. /\ Len(loop) = n + 1
      /\ \A i \in 1..n : loop[i] = Epoch(arm, i - 1)
      /\ loop[n + 1] = RemoveEpochs(arm)
  <2>1. loop = epochs \o <<RemoveEpochs(arm)>>
    BY DEF RepeatedEpochs
  <2> HIDE DEF loop
  <2> QED
    BY <1>1, <2>1
<1> HIDE DEF loop
<1>3. ASSUME NEW work \in Workload, NEW p \in Proc PROVE work[p] = loop /\ p = one
  BY DEF loop
<1>4. LoopAt([p \in Proc |-> loop], one, 1, n, arm)
  <2> DEFINE work == [p \in Proc |-> loop]
  <2>1. work[one] = loop
    OBVIOUS
  <2> HIDE DEF work
  <2>2. \A j \in 0..(n - 1) : loop[1 + j] = Epoch(arm, j)
    <3> TAKE j \in 0..(n - 1)
    <3>1. 1 + j \in 1..n /\ (1 + j) - 1 = j
      OBVIOUS
    <3> QED
      BY <1>2, <3>1
  <2>3. 1 + n <= Len(loop) /\ loop[1 + n] = RemoveEpochs(arm)
    <3>1. 1 + n = n + 1
      OBVIOUS
    <3> QED
      BY <1>2, <3>1
  <2>4. LoopAt(work, one, 1, n, arm)
    BY <2>1, <2>2, <2>3 DEF LoopAt
  <2> QED
    BY <2>4 DEF work
<1>5. ASSUME NEW i \in 1..(n + 1) PROVE OfEpochs(loop[i]) /\ i \in 1..(1 + n)
  <2>1. i \in 1..n \/ i = n + 1
    OBVIOUS
  <2> QED
    BY <1>2, <2>1 DEF OfEpochs
<1>6. FromExperiments(classes)
  <2>1. \A work \in Workload : work = [p \in Proc |-> loop]
    BY DEF loop
  <2> QED
    BY <1>2, <1>3, <1>4, <1>5, <2>1 DEF FromExperiments, OfCatalogue
<1>7. KeysApart
  <2> SUFFICES ASSUME NEW i \in 1..(n + 1), NEW k \in 1..(n + 1), loop[i].cell = loop[k].cell,
                      loop[i].cell # NoCell
               PROVE  i = k
    BY <1>2, <1>3 DEF KeysApart
  <2>1. i \in 1..n /\ k \in 1..n
    <3>1. loop[n + 1].cell = NoCell
      BY <1>2, RemovalIs
    <3> QED
      BY <3>1
  <2>2. ASSUME NEW epoch PROVE Epoch(arm, epoch).cell[3] = epoch
    BY EpochKey
  <2>3. i - 1 = k - 1
    BY <1>2, <2>1, <2>2
  <2> QED
    BY <2>1, <2>3
<1> QED
  BY <1>6, <1>7

-----------------------------------------------------------------------------
(* What the assumptions give for the plans of a behaviour.                 *)

LEMMA ShapedIsMade == ASSUME PlannedWell PROVE WellPlanned
<1> SUFFICES ASSUME NEW work \in Workload
             PROVE  /\ \A p \in Proc : Len(work[p]) \in Nat
                    /\ \A p \in Proc : \A i \in 1..Len(work[p]) : WellMade(work[p][i])
                    /\ \A p, q \in Proc : \A i \in 1..Len(work[p]), k \in 1..Len(work[q]) :
                         work[p][i].cell = work[q][k].cell /\ work[p][i].cell # NoCell =>
                           HasOp(work[p][i], "restrict") = HasOp(work[q][k], "restrict")
  BY DEF WellPlanned
<1>1. /\ \A p \in Proc : Len(work[p]) \in Nat
      /\ \A p \in Proc : \A i \in 1..Len(work[p]) : WellMade(work[p][i])
  BY DEF PlannedWell, Shaped, WellShaped
<1>2. ASSUME NEW p \in Proc, NEW q \in Proc, NEW i \in 1..Len(work[p]), NEW k \in 1..Len(work[q]),
             work[p][i].cell = work[q][k].cell, work[p][i].cell # NoCell
      PROVE  HasOp(work[p][i], "restrict") = HasOp(work[q][k], "restrict")
  <2>1. p = q /\ i = k
    BY <1>2 DEF PlannedWell, KeysApart
  <2> QED
    BY <2>1
<1> QED
  BY <1>1, <1>2

LEMMA BodiesOfPlan ==
  ASSUME PlannedWell, CoresInv, NEW p \in Proc
  PROVE  /\ Len(plan[p]) \in Nat
         /\ \A i \in 1..Len(plan[p]) :
              WellShaped(plan[p][i]) /\ plan[p][i] \in Planned
BY DEF PlannedWell, Shaped, CoresInv, Planned

LEMMA OneKey ==
  ASSUME PlannedWell, CoresInv, NEW p \in Proc, NEW q \in Proc,
         NEW i \in 1..Len(plan[p]), NEW k \in 1..Len(plan[q]),
         plan[p][i].cell = plan[q][k].cell, plan[p][i].cell # NoCell
  PROVE  p = q /\ i = k
BY DEF PlannedWell, KeysApart, CoresInv

LEMMA OnePlace ==
  ASSUME PlannedWell, CoresInv, NEW p \in Proc, NEW q \in Proc,
         NEW i \in 1..Len(plan[p]), NEW k \in 1..Len(plan[q]),
         NEW path, path \in Paths(plan[p][i]), path \in Paths(plan[q][k])
  PROVE  /\ plan[p][i].dirs = plan[q][k].dirs
         /\ p = q \/ plan[p][i].cell = NoCell
<1>1. Paths(plan[p][i]) \cap Paths(plan[q][k]) # {}
  OBVIOUS
<1> QED
  BY <1>1 DEF PlannedWell, DirsApart, CoresInv

\* A process that has a body left is at it.
LEMMA AtNow ==
  ASSUME PlannedWell, CoresInv, NEW p \in Proc, proc[p].pc \in AtWork \/ Left(p)
  PROVE  /\ Left(p) /\ proc[p].at \in 1..Len(plan[p])
         /\ Now(p) = plan[p][proc[p].at]
         /\ Now(p) \in Planned /\ WellShaped(Now(p))
<1>1. Left(p) /\ proc[p].at \in Nat \ {0}
  BY DEF CoresInv, Stands
<1>2. proc[p].at \in 1..Len(plan[p]) /\ Now(p) = plan[p][proc[p].at]
  BY <1>1, BodiesOfPlan DEF Left, Now
<1> QED
  BY <1>1, <1>2, BodiesOfPlan

\* The directories of a cell are its process's own.
LEMMA CellsArePrivate ==
  ASSUME PlannedWell, CoresInv, NEW p \in Proc, NEW i \in 1..Len(plan[p]),
         plan[p][i].cell # NoCell
  PROVE  Paths(plan[p][i]) \subseteq Private(p)
<1> SUFFICES ASSUME NEW path \in Paths(plan[p][i]) PROVE path \in Private(p)
  OBVIOUS
<1>1. path \in PathsOf(p)
  BY DEF PathsOf
<1>2. ASSUME NEW q \in Proc \ {p}, path \in PathsOf(q) PROVE FALSE
  <2>1. PICK k \in 1..Len(plan[q]) : path \in Paths(plan[q][k])
    BY <1>2 DEF PathsOf
  <2> QED
    BY <2>1, OnePlace
<1> QED
  BY <1>1, <1>2 DEF Private

\* Nobody else has a body in them.
LEMMA OthersWorkElsewhere ==
  ASSUME NEW p \in Proc, NEW path \in Private(p), NEW q \in Proc, q # p,
         NEW i \in 1..Len(plan[q])
  PROVE  path \notin Paths(plan[q][i])
BY DEF Private, PathsOf

LEMMA PathOfDir ==
  ASSUME NEW b, NEW path
  PROVE  path \in Paths(b) <=> \E d \in 1..Len(b.dirs) : b.dirs[d].path = path
BY DEF Paths

\* A body's files come in the order of its directories.
LEMMA PlacesOfFiles ==
  ASSUME CellsAssumption, NEW b, WellShaped(b), NEW path \in Paths(b), NEW i \in 1..PerDir
  PROVE  /\ Place(b, path, i) \in 1..Total(b)
         /\ Total(b) \in Nat \ {0}
<1> DEFINE d == CHOOSE d \in 1..Len(b.dirs) : b.dirs[d].path = path
<1>1. Len(b.dirs) \in Nat \ {0} /\ PerDir \in Nat \ {0}
  BY DEF WellShaped, NamesApart, CellsAssumption
<1>2. d \in 1..Len(b.dirs)
  BY PathOfDir
<1>3. Place(b, path, i) = d * PerDir - PerDir + i
  BY DEF Place
<1> HIDE DEF d
<1>4. d * PerDir \in Nat /\ Len(b.dirs) * PerDir \in Nat
  BY <1>1, <1>2
<1>5. d * PerDir >= PerDir /\ d * PerDir <= Len(b.dirs) * PerDir
  BY <1>1, <1>2
<1> QED
  BY <1>1, <1>3, <1>4, <1>5 DEF Total

-----------------------------------------------------------------------------
(* What the operators on directories do, path by path.                     *)

LEMMA WithoutIs ==
  ASSUME Typed(dirs), NEW paths
  PROVE  /\ Typed(Without(paths)) /\ DOMAIN Without(paths) = DOMAIN dirs \ paths
         /\ \A path \in DOMAIN dirs \ paths : Without(paths)[path] = dirs[path]
BY DEF Without, Typed

LEMMA KeepingIs ==
  ASSUME CellsAssumption, Typed(dirs), NEW paths, NEW D \in Removing(paths)
  PROVE  /\ Typed(D) /\ DOMAIN D = DOMAIN dirs
         /\ \A path \in DOMAIN dirs :
              /\ path \notin paths => D[path] = dirs[path]
              /\ D[path].layout = dirs[path].layout
              /\ \A i \in 1..PerDir :
                   D[path].files[i] = NoFile \/ D[path].files[i] = dirs[path].files[i]
<1>1. PICK keep \in SUBSET (1..PerDir) : D = Keeping(paths, keep)
  BY DEF Removing
<1>2. DOMAIN D = DOMAIN dirs
  BY <1>1 DEF Keeping
<1>3. ASSUME NEW path \in DOMAIN dirs, path \notin paths PROVE D[path] = dirs[path]
  BY <1>1, <1>3 DEF Keeping
<1>4. ASSUME NEW path \in DOMAIN dirs, path \in paths
      PROVE  /\ DOMAIN D[path] = {"layout", "files"} /\ DOMAIN D[path].files = 1..PerDir
             /\ D[path].layout = dirs[path].layout
             /\ \A i \in 1..PerDir :
                  D[path].files[i] = IF i \in keep THEN dirs[path].files[i] ELSE NoFile
  <2>1. DOMAIN dirs[path] = {"layout", "files"}
    BY DEF Typed
  <2>2. D[path] = [dirs[path] EXCEPT !.files =
                     [i \in 1..PerDir |-> IF i \in keep THEN dirs[path].files[i] ELSE NoFile]]
    BY <1>1, <1>4 DEF Keeping
  <2> QED
    BY <2>1, <2>2
<1>5. DOMAIN NoFile = {"layout", "by", "client"} /\ NoFile.client = "clean"
  BY DEF NoFile
<1>6. ASSUME NEW path \in DOMAIN dirs
      PROVE  /\ DOMAIN D[path] = {"layout", "files"} /\ DOMAIN D[path].files = 1..PerDir
             /\ D[path].layout = dirs[path].layout
             /\ \A i \in 1..PerDir :
                   D[path].files[i] = NoFile \/ D[path].files[i] = dirs[path].files[i]
  BY <1>3, <1>4 DEF Typed
<1>7. Typed(D)
  <2> SUFFICES ASSUME NEW path \in DOMAIN dirs, NEW i \in 1..PerDir
               PROVE  /\ DOMAIN D[path].files[i] = {"layout", "by", "client"}
                      /\ D[path].files[i].client \in {"clean", "locked", "cached"}
    BY <1>2, <1>6 DEF Typed
  <2>1. D[path].files[i] = NoFile \/ D[path].files[i] = dirs[path].files[i]
    BY <1>6
  <2>2. /\ DOMAIN dirs[path].files[i] = {"layout", "by", "client"}
        /\ dirs[path].files[i].client \in {"clean", "locked", "cached"}
    BY DEF Typed
  <2>3. CASE D[path].files[i] = NoFile
    BY <1>5, <2>3
  <2>4. CASE D[path].files[i] = dirs[path].files[i]
    BY <2>2, <2>4
  <2> QED
    BY <2>1, <2>3, <2>4
<1> QED
  BY <1>2, <1>3, <1>6, <1>7

LEMMA StampedIs ==
  ASSUME CellsAssumption, NEW d, Typed(d), NEW dir
  PROVE  /\ Typed(Stamped(d, dir)) /\ DOMAIN Stamped(d, dir) = DOMAIN d \cup {dir.path}
         /\ \A path \in DOMAIN d : path # dir.path => Stamped(d, dir)[path] = d[path]
         /\ Stamped(d, dir)[dir.path].layout = dir.layout
         /\ Stamped(d, dir)[dir.path].files =
              IF dir.path \in DOMAIN d THEN d[dir.path].files ELSE [i \in 1..PerDir |-> NoFile]
<1> DEFINE D == Stamped(d, dir)
           here == D[dir.path]
<1>1. DOMAIN D = DOMAIN d \cup {dir.path}
  BY DEF Stamped
<1>2. \A path \in DOMAIN d : path # dir.path => D[path] = d[path]
  BY DEF Stamped
<1>3. here = [layout |-> dir.layout,
              files |-> IF dir.path \in DOMAIN d THEN d[dir.path].files
                        ELSE [i \in 1..PerDir |-> NoFile]]
  BY DEF Stamped
<1> HIDE DEF D
<1>4. /\ DOMAIN here = {"layout", "files"} /\ here.layout = dir.layout
      /\ here.files = IF dir.path \in DOMAIN d THEN d[dir.path].files
                      ELSE [i \in 1..PerDir |-> NoFile]
  BY <1>3
<1>5. \A i \in 1..PerDir :
        here.files[i] = IF dir.path \in DOMAIN d THEN d[dir.path].files[i] ELSE NoFile
  BY <1>4
<1>6. DOMAIN here.files = 1..PerDir
  BY <1>4 DEF Typed
<1>7. DOMAIN NoFile = {"layout", "by", "client"} /\ NoFile.client = "clean"
  BY DEF NoFile
<1>8. \A i \in 1..PerDir : /\ DOMAIN here.files[i] = {"layout", "by", "client"}
                           /\ here.files[i].client \in {"clean", "locked", "cached"}
  <2>1. CASE dir.path \in DOMAIN d
    BY <1>5, <2>1 DEF Typed
  <2>2. CASE dir.path \notin DOMAIN d
    BY <1>5, <1>7, <2>2
  <2> QED
    BY <2>1, <2>2
<1>9. Typed(D)
  <2> SUFFICES ASSUME NEW path \in DOMAIN D
               PROVE  /\ DOMAIN D[path] = {"layout", "files"}
                      /\ DOMAIN D[path].files = 1..PerDir
                      /\ \A i \in 1..PerDir :
                           /\ DOMAIN D[path].files[i] = {"layout", "by", "client"}
                           /\ D[path].files[i].client \in {"clean", "locked", "cached"}
    BY DEF Typed
  <2>1. CASE path = dir.path
    BY <1>4, <1>6, <1>8, <2>1
  <2>2. CASE path # dir.path
    BY <1>1, <1>2, <2>2 DEF Typed
  <2> QED
    BY <2>1, <2>2
<1> QED
  BY <1>1, <1>2, <1>4, <1>9 DEF D

LEMMA ChangedIs ==
  ASSUME CellsAssumption, Typed(dirs), NEW b, NEW m, NEW new,
         \A path \in DOMAIN dirs : \A i \in 1..PerDir :
           /\ DOMAIN new[path][i] = {"layout", "by", "client"}
           /\ new[path][i].client \in {"clean", "locked", "cached"}
  PROVE  /\ Typed(Changed(b, m, new)) /\ DOMAIN Changed(b, m, new) = DOMAIN dirs
         /\ \A path \in DOMAIN dirs :
              /\ Changed(b, m, new)[path].layout = dirs[path].layout
              /\ \A i \in 1..PerDir : Changed(b, m, new)[path].files[i] =
                   IF path \in Paths(b) /\ Place(b, path, i) <= m
                   THEN new[path][i] ELSE dirs[path].files[i]
<1> DEFINE D == Changed(b, m, new)
<1>1. DOMAIN D = DOMAIN dirs
  BY DEF Changed
<1>2. ASSUME NEW path \in DOMAIN dirs
      PROVE  /\ DOMAIN D[path] = {"layout", "files"} /\ DOMAIN D[path].files = 1..PerDir
             /\ D[path].layout = dirs[path].layout
             /\ \A i \in 1..PerDir :
                  D[path].files[i] = IF path \in Paths(b) /\ Place(b, path, i) <= m
                                     THEN new[path][i] ELSE dirs[path].files[i]
  <2> DEFINE files == [i \in 1..PerDir |-> IF path \in Paths(b) /\ Place(b, path, i) <= m
                                           THEN new[path][i] ELSE dirs[path].files[i]]
  <2>1. DOMAIN dirs[path] = {"layout", "files"}
    BY DEF Typed
  <2>2. D[path] = [dirs[path] EXCEPT !.files = files]
    BY DEF Changed
  <2>3. /\ DOMAIN files = 1..PerDir
        /\ \A i \in 1..PerDir :
             files[i] = IF path \in Paths(b) /\ Place(b, path, i) <= m
                        THEN new[path][i] ELSE dirs[path].files[i]
    OBVIOUS
  <2> HIDE DEF files, D
  <2>4. DOMAIN D[path] = {"layout", "files"} /\ D[path].files = files
        /\ D[path].layout = dirs[path].layout
    BY <2>1, <2>2
  <2> QED
    BY <2>3, <2>4
<1> HIDE DEF D
<1>3. Typed(D)
  <2> SUFFICES ASSUME NEW path \in DOMAIN dirs, NEW i \in 1..PerDir
               PROVE  /\ DOMAIN D[path].files[i] = {"layout", "by", "client"}
                      /\ D[path].files[i].client \in {"clean", "locked", "cached"}
    BY <1>1, <1>2 DEF Typed
  <2>1. \/ D[path].files[i] = new[path][i]
        \/ D[path].files[i] = dirs[path].files[i]
    BY <1>2
  <2>2. CASE D[path].files[i] = new[path][i]
    BY <2>2
  <2>3. CASE D[path].files[i] = dirs[path].files[i]
    BY <2>3 DEF Typed
  <2> QED
    BY <2>1, <2>2, <2>3
<1> QED
  BY <1>1, <1>2, <1>3 DEF D

\* A directory as it was: there or not, under its layout, with its files.
SameDir(D, path) ==
  /\ path \in DOMAIN D <=> path \in DOMAIN dirs
  /\ path \in DOMAIN dirs =>
       /\ D[path].layout = dirs[path].layout
       /\ \A i \in 1..PerDir : D[path].files[i] = dirs[path].files[i]

\* A file that is there or not as it was, of the same execution and layout; who
\* has opened it since is another matter.
SameFile(D, path, i) ==
  /\ D[path].files[i] = NoFile <=> dirs[path].files[i] = NoFile
  /\ D[path].files[i].layout = dirs[path].files[i].layout
  /\ D[path].files[i].by = dirs[path].files[i].by

\* No file is new.
NoNewFiles(D, path) ==
  path \in DOMAIN D =>
    \A i \in 1..PerDir : D[path].files[i] # NoFile =>
      path \in DOMAIN dirs /\ SameFile(D, path, i)

\* A file is as it was, or p has written it.
OwnOrOld(p, D, path) ==
  path \in DOMAIN D =>
    /\ path \in DOMAIN dirs
    /\ \A i \in 1..PerDir :
         \/ SameFile(D, path, i)
         \/ /\ D[path].files[i].by = Execution(p) /\ D[path].files[i] # NoFile
            /\ D[path].files[i].layout = IF dirs[path].files[i] = NoFile THEN dirs[path].layout
                                         ELSE dirs[path].files[i].layout

LEMMA TouchedIs ==
  ASSUME CellsAssumption, Typed(dirs), NEW p \in Proc, NEW m,
         NEW client \in {"locked", "cached"}
  PROVE  /\ Typed(Touched(p, m, client)) /\ DOMAIN Touched(p, m, client) = DOMAIN dirs
         /\ \A path \in DOMAIN dirs :
              /\ path \notin Paths(Now(p)) => SameDir(Touched(p, m, client), path)
              /\ Touched(p, m, client)[path].layout = dirs[path].layout
              /\ \A i \in 1..PerDir :
                   LET file == Touched(p, m, client)[path].files[i] IN
                   /\ file = NoFile <=> dirs[path].files[i] = NoFile
                   /\ file.layout = dirs[path].files[i].layout
                   /\ file.by = dirs[path].files[i].by
<1> DEFINE Held(file) == IF file = NoFile THEN NoFile ELSE [file EXCEPT !.client = client]
           new == [path \in DOMAIN dirs |-> [i \in 1..PerDir |-> Held(dirs[path].files[i])]]
           D == Touched(p, m, client)
<1>1. D = Changed(Now(p), m, new)
  BY DEF Touched
<1>2. ASSUME NEW path \in DOMAIN dirs, NEW i \in 1..PerDir
      PROVE  /\ DOMAIN new[path][i] = {"layout", "by", "client"}
             /\ new[path][i].client \in {"clean", "locked", "cached"}
             /\ new[path][i] = NoFile <=> dirs[path].files[i] = NoFile
             /\ new[path][i].layout = dirs[path].files[i].layout
             /\ new[path][i].by = dirs[path].files[i].by
  <2> DEFINE file == dirs[path].files[i]
  <2>1. /\ DOMAIN file = {"layout", "by", "client"}
        /\ file.client \in {"clean", "locked", "cached"}
    BY DEF Typed
  <2>2. new[path][i] = Held(file)
    OBVIOUS
  <2> HIDE DEF file, new
  <2>3. CASE file = NoFile
    BY <2>1, <2>2, <2>3 DEF file
  <2>4. CASE file # NoFile
    <3>1. new[path][i] = [file EXCEPT !.client = client]
      BY <2>2, <2>4
    <3>2. /\ DOMAIN new[path][i] = {"layout", "by", "client"}
          /\ new[path][i].client = client
          /\ new[path][i].layout = file.layout /\ new[path][i].by = file.by
      BY <2>1, <3>1
    <3>3. new[path][i] # NoFile
      BY <3>2 DEF NoFile
    <3> QED
      BY <2>4, <3>2, <3>3 DEF file
  <2> QED
    BY <2>3, <2>4
<1> HIDE DEF new, D
<1>3. /\ Typed(D) /\ DOMAIN D = DOMAIN dirs
      /\ \A path \in DOMAIN dirs :
           /\ D[path].layout = dirs[path].layout
           /\ \A i \in 1..PerDir : D[path].files[i] =
                IF path \in Paths(Now(p)) /\ Place(Now(p), path, i) <= m
                THEN new[path][i] ELSE dirs[path].files[i]
  BY <1>1, <1>2, ChangedIs
<1>4. \A path \in DOMAIN dirs : path \notin Paths(Now(p)) => SameDir(D, path)
  BY <1>3 DEF SameDir
<1> QED
  BY <1>2, <1>3, <1>4 DEF D

LEMMA WrittenIs ==
  ASSUME CellsAssumption, Typed(dirs), NEW p \in Proc, NEW m
  PROVE  /\ Typed(Written(p, m)) /\ DOMAIN Written(p, m) = DOMAIN dirs
         /\ \A path \in DOMAIN dirs :
              /\ path \notin Paths(Now(p)) => SameDir(Written(p, m), path)
              /\ Written(p, m)[path].layout = dirs[path].layout
              /\ \A i \in 1..PerDir :
                   LET file == Written(p, m)[path].files[i]
                       old == dirs[path].files[i]
                   IN
                   IF path \in Paths(Now(p)) /\ Place(Now(p), path, i) <= m
                   THEN /\ file # NoFile /\ file.by = Execution(p)
                        /\ file.layout = IF old = NoFile THEN dirs[path].layout ELSE old.layout
                        /\ file.client = IF Now(p).flush THEN "clean" ELSE "cached"
                   ELSE file = old
<1> DEFINE LayoutOf(path, i) ==
             LET old == dirs[path].files[i] IN
             IF old = NoFile THEN dirs[path].layout ELSE old.layout
           client == IF Now(p).flush THEN "clean" ELSE "cached"
           new == [path \in DOMAIN dirs |-> [i \in 1..PerDir |->
                    [layout |-> LayoutOf(path, i), by |-> Execution(p), client |-> client]]]
           D == Written(p, m)
<1>1. D = Changed(Now(p), m, new)
  BY DEF Written
<1>2. ASSUME NEW path \in DOMAIN dirs, NEW i \in 1..PerDir
      PROVE  /\ DOMAIN new[path][i] = {"layout", "by", "client"}
             /\ new[path][i].client = client
             /\ new[path][i].layout = LayoutOf(path, i)
             /\ new[path][i].by = Execution(p)
  OBVIOUS
<1>3. client \in {"clean", "locked", "cached"}
  OBVIOUS
<1>4. ASSUME NEW path \in DOMAIN dirs, NEW i \in 1..PerDir PROVE new[path][i] # NoFile
  <2>1. Execution(p) # <<>>
    BY DEF Execution
  <2> HIDE DEF new
  <2> QED
    BY <1>2, <2>1 DEF NoFile
<1> HIDE DEF new, D, client
<1>5. /\ Typed(D) /\ DOMAIN D = DOMAIN dirs
      /\ \A path \in DOMAIN dirs :
           /\ D[path].layout = dirs[path].layout
           /\ \A i \in 1..PerDir : D[path].files[i] =
                IF path \in Paths(Now(p)) /\ Place(Now(p), path, i) <= m
                THEN new[path][i] ELSE dirs[path].files[i]
  BY <1>1, <1>2, <1>3, ChangedIs
<1>6. \A path \in DOMAIN dirs : path \notin Paths(Now(p)) => SameDir(D, path)
  BY <1>5 DEF SameDir
<1> QED
  BY <1>2, <1>4, <1>5, <1>6 DEF D, client

\* Any operation but a write leaves the files that were there, and only those.
LEMMA AfterIs ==
  ASSUME CellsAssumption, Typed(dirs), NEW p \in Proc, NEW op \in Op, NEW m
  PROVE  /\ Typed(After(p, op, m)) /\ DOMAIN After(p, op, m) = DOMAIN dirs
         /\ \A path \in DOMAIN dirs : After(p, op, m)[path].layout = dirs[path].layout
         /\ \A path : path \notin Paths(Now(p)) => SameDir(After(p, op, m), path)
         /\ \A path : OwnOrOld(p, After(p, op, m), path)
         /\ op # "write" =>
              /\ \A path \in DOMAIN dirs : \A i \in 1..PerDir : SameFile(After(p, op, m), path, i)
              /\ \A path : NoNewFiles(After(p, op, m), path)
<1> DEFINE D == After(p, op, m)
<1>1. CASE op = "write"
  <2>1. D = Written(p, m)
    BY <1>1 DEF After
  <2> HIDE DEF D
  <2>2. /\ Typed(D) /\ DOMAIN D = DOMAIN dirs
        /\ \A path \in DOMAIN dirs : D[path].layout = dirs[path].layout
        /\ \A path \in DOMAIN dirs : path \notin Paths(Now(p)) => SameDir(D, path)
    BY <2>1, WrittenIs
  <2>3. ASSUME NEW path PROVE path \notin Paths(Now(p)) => SameDir(D, path)
    BY <2>2 DEF SameDir
  <2>4. ASSUME NEW path PROVE OwnOrOld(p, D, path)
    <3> SUFFICES ASSUME path \in DOMAIN dirs, NEW i \in 1..PerDir
                 PROVE  \/ SameFile(D, path, i)
                        \/ /\ D[path].files[i].by = Execution(p) /\ D[path].files[i] # NoFile
                           /\ D[path].files[i].layout =
                                IF dirs[path].files[i] = NoFile THEN dirs[path].layout
                                ELSE dirs[path].files[i].layout
      BY <2>2 DEF OwnOrOld
    <3> QED
      BY <2>1, WrittenIs DEF SameFile
  <2> QED
    BY <1>1, <2>2, <2>3, <2>4 DEF D
<1>2. CASE op \in {"stat", "reopen", "read", "readUntil"}
  <2>1. PICK client \in {"locked", "cached"} : D = Touched(p, m, client)
    BY <1>2 DEF After
  <2> HIDE DEF D
  <2>2. /\ Typed(D) /\ DOMAIN D = DOMAIN dirs
        /\ \A path \in DOMAIN dirs : D[path].layout = dirs[path].layout
        /\ \A path \in DOMAIN dirs : path \notin Paths(Now(p)) => SameDir(D, path)
        /\ \A path \in DOMAIN dirs : \A i \in 1..PerDir : SameFile(D, path, i)
    BY <2>1, TouchedIs DEF SameFile
  <2>3. \A path : /\ path \notin Paths(Now(p)) => SameDir(D, path)
                  /\ OwnOrOld(p, D, path) /\ NoNewFiles(D, path)
    BY <2>2 DEF SameDir, OwnOrOld, NoNewFiles
  <2> QED
    BY <2>2, <2>3 DEF D
<1>3. CASE op \in {"evict", "restrict", "query"}
  <2>1. D = dirs
    BY <1>3 DEF After, Evicted
  <2> HIDE DEF D
  <2>2. \A path : /\ SameDir(D, path) /\ OwnOrOld(p, D, path) /\ NoNewFiles(D, path)
                  /\ \A i \in 1..PerDir : SameFile(D, path, i)
    BY <2>1 DEF SameDir, OwnOrOld, NoNewFiles, SameFile
  <2> QED
    BY <2>1, <2>2 DEF D
<1> QED
  BY <1>1, <1>2, <1>3 DEF Op

-----------------------------------------------------------------------------
(* What each action does to the process.                                   *)

\* What a step of p leaves alone.
MovesAlone(p) ==
  /\ plan' = plan /\ happened \subseteq happened'
  /\ \A q \in Proc \ {p} : proc'[q] = proc[q] /\ launches'[q] = launches[q]

LEMMA StepsMoveAlone ==
  ASSUME CoresInv, Places, NEW p \in Proc,
         \/ Launch(p) \/ Skip(p) \/ Begin(p) \/ Enter(p) \/ Work(p) \/ Raise(p)
         \/ Leave(p) \/ Record(p) \/ Escape(p) \/ End(p) \/ Kill(p)
  PROVE  /\ MovesAlone(p) /\ happened' \subseteq Faults
         /\ launches' \in [Proc -> 0..MaxLaunches]
         /\ launches'[p] # launches[p] => Launch(p)
<1>1. DOMAIN proc = Proc /\ launches \in [Proc -> 0..MaxLaunches] /\ happened \subseteq Faults
  BY DEF CoresInv, Places
<1>2. CASE Launch(p)
  <2>1. launches[p] + 1 \in 0..MaxLaunches
    BY <1>1, <1>2, CellsAssumption DEF Launch, CellsAssumption
  <2> QED
    BY <1>1, <1>2, <2>1 DEF MovesAlone, Launch
<1>3. CASE Skip(p) \/ Begin(p) \/ Record(p) \/ End(p)
  BY <1>1, <1>3 DEF MovesAlone, Skip, Begin, Record, End
<1>4. CASE Enter(p) \/ Work(p) \/ Raise(p) \/ Leave(p) \/ Escape(p) \/ Kill(p)
  <2>1. happened \subseteq happened' /\ happened' \subseteq Faults
    BY <1>1, <1>4 DEF Enter, Work, Raise, Leave, Escape, Kill, Fault
  <2> QED
    BY <1>1, <1>4, <2>1 DEF MovesAlone, Enter, Work, Raise, Leave, Escape, Kill
<1> QED
  BY <1>2, <1>3, <1>4

LEMMA BetweenDoes ==
  ASSUME CoresInv, NEW p \in Proc
  PROVE  /\ Launch(p) =>
              /\ proc[p].pc \in Ended /\ proc'[p].pc = "next" /\ proc'[p].at = 1
              /\ dirs' = dirs /\ rows' = rows /\ happened' = happened
         /\ Skip(p) =>
              /\ proc[p].pc = "next" /\ Left(p) /\ Done(Now(p).cell)
              /\ proc'[p].pc = "next" /\ proc'[p].at = proc[p].at + 1
              /\ dirs' = dirs /\ rows' = rows /\ happened' = happened
         /\ End(p) =>
              /\ proc[p].pc = "next" /\ ~Left(p)
              /\ proc'[p].pc = IF proc[p].aborted THEN "aborted" ELSE "done"
              /\ proc'[p].at = proc[p].at
              /\ dirs' = dirs /\ rows' = rows /\ happened' = happened
         /\ Kill(p) =>
              /\ proc[p].pc \notin Ended /\ "kill" \in happened' /\ rows' = rows
              /\ proc'[p].pc = "down" /\ proc'[p].at = 1
<1>1. DOMAIN proc = Proc /\ DOMAIN proc[p] = Fields
  BY DEF CoresInv, Stands
<1>2. /\ DOMAIN Idle = Fields /\ Idle.pc = "down" /\ Idle.at = 1
  BY DEF Idle, Fields
<1>3. ASSUME Launch(p)
      PROVE  proc'[p].pc = "next" /\ proc'[p].at = 1
  <2>1. proc'[p] = [Idle EXCEPT !.pc = "next"]
    BY <1>1, <1>3 DEF Launch
  <2> QED
    BY <1>2, <2>1 DEF Fields
<1>4. ASSUME Skip(p)
      PROVE  proc'[p].pc = "next" /\ proc'[p].at = proc[p].at + 1
  BY <1>1, <1>4 DEF Skip, Fields
<1>5. ASSUME End(p)
      PROVE  /\ proc'[p].pc = IF proc[p].aborted THEN "aborted" ELSE "done"
             /\ proc'[p].at = proc[p].at
  BY <1>1, <1>5 DEF End, Fields
<1>6. ASSUME Kill(p)
      PROVE  proc'[p].pc = "down" /\ proc'[p].at = 1
  BY <1>1, <1>2, <1>6 DEF Kill
<1> QED
  BY <1>3, <1>4, <1>5, <1>6 DEF Launch, Skip, End, Kill, Fault

LEMMA BeginDoes ==
  ASSUME CoresInv, NEW p \in Proc, Begin(p)
  PROVE  /\ proc[p].pc = "next" /\ Left(p) /\ ~Done(Now(p).cell)
         /\ proc'[p].pc = IF Now(p).enters THEN "enter"
                          ELSE IF Now(p).ops # <<>> THEN "run" ELSE "leave"
         /\ proc'[p].at = proc[p].at /\ proc'[p].step = 1 /\ proc'[p].failed = FALSE
         /\ dirs' = dirs /\ rows' = rows /\ happened' = happened
<1>1. DOMAIN proc = Proc /\ DOMAIN proc[p] = Fields
  BY DEF CoresInv, Stands
<1> QED
  BY <1>1 DEF Begin, Fields

LEMMA EnterDoes ==
  ASSUME CoresInv, NEW p \in Proc, Enter(p)
  PROVE  /\ proc[p].pc = "enter" /\ rows' = rows
         /\ proc'[p].at = proc[p].at /\ proc'[p].failed = proc[p].failed
         /\ \/ /\ proc[p].step < Len(Now(p).dirs)
               /\ proc'[p].pc = "enter" /\ proc'[p].step = proc[p].step + 1
            \/ /\ ~(proc[p].step < Len(Now(p).dirs))
               /\ proc'[p].pc = "run" /\ proc'[p].step = 1
         /\ LET dir == Now(p).dirs[proc[p].step] IN
              \/ dirs' = Stamped(Without({dir.path}), dir) /\ happened' = happened
              \/ /\ "leftover" \in happened'
                 /\ \E left \in Removing({dir.path}) : dirs' = Stamped(left, dir)
<1>1. DOMAIN proc = Proc /\ DOMAIN proc[p] = Fields
  BY DEF CoresInv, Stands
<1>2. proc'[p] = IF proc[p].step < Len(Now(p).dirs)
                 THEN [proc[p] EXCEPT !.step = proc[p].step + 1]
                 ELSE [proc[p] EXCEPT !.pc = "run", !.step = 1]
  BY <1>1 DEF Enter
<1>3. /\ proc'[p].at = proc[p].at /\ proc'[p].failed = proc[p].failed
      /\ \/ /\ proc[p].step < Len(Now(p).dirs)
            /\ proc'[p].pc = proc[p].pc /\ proc'[p].step = proc[p].step + 1
         \/ /\ ~(proc[p].step < Len(Now(p).dirs))
            /\ proc'[p].pc = "run" /\ proc'[p].step = 1
  BY <1>1, <1>2 DEF Fields
<1> QED
  BY <1>3 DEF Enter, Fault

LEMMA WorkDoes ==
  ASSUME CoresInv, NEW p \in Proc, Work(p)
  PROVE  /\ proc[p].pc = "run" /\ Ready(p) /\ rows' = rows /\ happened' = happened
         /\ proc'[p].at = proc[p].at
         /\ \/ /\ proc[p].step < Len(Now(p).ops)
               /\ proc'[p].pc = "run" /\ proc'[p].step = proc[p].step + 1
            \/ /\ ~(proc[p].step < Len(Now(p).ops))
               /\ proc'[p].pc = IF Now(p).leaves THEN "leave" ELSE "record"
               /\ proc'[p].step = Len(Now(p).dirs) /\ proc'[p].failed = FALSE
         /\ \E m \in Reach(p) :
              /\ dirs' = After(p, OpNow(p), m)
              /\ proc'[p].seen = IF OpNow(p) \in {"read", "readUntil"} THEN Found(p, m) ELSE {}
<1>1. DOMAIN proc = Proc /\ DOMAIN proc[p] = Fields
  BY DEF CoresInv, Stands
<1> DEFINE more == proc[p].step < Len(Now(p).ops)
           cores == proc[p].few \/ OpNow(p) = "restrict"
           next == IF more THEN [proc[p] EXCEPT !.step = proc[p].step + 1, !.few = cores]
                           ELSE OutOfRun(p, FALSE)
<1>2. PICK m \in Reach(p) :
        /\ dirs' = After(p, OpNow(p), m)
        /\ proc'[p] = [next EXCEPT !.seen =
                         IF OpNow(p) \in {"read", "readUntil"} THEN Found(p, m) ELSE {}]
  BY <1>1 DEF Work
<1> HIDE DEF cores
<1>3. /\ DOMAIN next = Fields /\ next.at = proc[p].at
      /\ more => next.pc = proc[p].pc /\ next.step = proc[p].step + 1
      /\ ~more => /\ next.pc = IF Now(p).leaves THEN "leave" ELSE "record"
                  /\ next.step = Len(Now(p).dirs) /\ next.failed = FALSE
  BY <1>1 DEF OutOfRun, Cleanup, Fields
<1> HIDE DEF next
<1>4. /\ proc'[p].at = next.at /\ proc'[p].pc = next.pc /\ proc'[p].step = next.step
      /\ proc'[p].failed = next.failed
      /\ proc'[p].seen = IF OpNow(p) \in {"read", "readUntil"} THEN Found(p, m) ELSE {}
  BY <1>2, <1>3 DEF Fields
<1>5. /\ proc[p].pc = "run" /\ Ready(p) /\ rows' = rows /\ happened' = happened
  BY DEF Work
<1> QED
  BY <1>2, <1>3, <1>4, <1>5

LEMMA RaiseDoes ==
  ASSUME CoresInv, NEW p \in Proc, Raise(p)
  PROVE  /\ proc[p].pc \in {"enter", "run"} /\ dirs' \in Partly(p) /\ rows' = rows
         /\ proc[p].pc = "enter" => "raise" \in happened'
         /\ proc'[p].at = proc[p].at /\ proc'[p].failed = TRUE
         /\ proc'[p].pc = IF Now(p).leaves THEN "leave" ELSE "record"
         /\ proc'[p].step = IF proc[p].pc = "run" THEN Len(Now(p).dirs) ELSE proc[p].step - 1
<1>1. DOMAIN proc = Proc /\ DOMAIN proc[p] = Fields
  BY DEF CoresInv, Stands
<1>2. proc'[p] = IF proc[p].pc = "run" THEN OutOfRun(p, TRUE)
                 ELSE [proc[p] EXCEPT !.pc = Cleanup(p, TRUE), !.step = proc[p].step - 1,
                                      !.failed = TRUE]
  BY <1>1 DEF Raise
<1>3. /\ proc'[p].at = proc[p].at /\ proc'[p].failed = TRUE
      /\ proc'[p].pc = IF Now(p).leaves THEN "leave" ELSE "record"
      /\ proc'[p].step = IF proc[p].pc = "run" THEN Len(Now(p).dirs) ELSE proc[p].step - 1
  BY <1>1, <1>2 DEF OutOfRun, Cleanup, Fields
<1> QED
  BY <1>3 DEF Raise, Fault

LEMMA LeaveDoes ==
  ASSUME CoresInv, NEW p \in Proc, Leave(p)
  PROVE  /\ proc[p].pc = "leave" /\ rows' = rows
         /\ proc'[p].at = proc[p].at /\ proc'[p].failed = proc[p].failed
         /\ proc'[p].pc = "record" /\ proc'[p].seen = proc[p].seen
         /\ LET entered == IF Now(p).enters THEN proc[p].step ELSE Len(Now(p).dirs)
                gone == {Now(p).dirs[d].path : d \in 1..entered}
            IN  \/ dirs' = Without(gone) /\ happened' = happened
                \/ "leftover" \in happened' /\ dirs' \in Removing(gone)
<1>1. DOMAIN proc = Proc /\ DOMAIN proc[p] = Fields
  BY DEF CoresInv, Stands
<1>2. /\ proc'[p].at = proc[p].at /\ proc'[p].failed = proc[p].failed
      /\ proc'[p].pc = "record" /\ proc'[p].seen = proc[p].seen
  BY <1>1 DEF Leave, Fields
<1> QED
  BY <1>2 DEF Leave, Fault

LEMMA RecordDoes ==
  ASSUME CoresInv, NEW p \in Proc, Record(p)
  PROVE  /\ proc[p].pc = "record" /\ dirs' = dirs /\ happened' = happened
         /\ \/ proc'[p].pc = "refused"
            \/ proc'[p].pc = "next" /\ proc'[p].at = proc[p].at + 1
         /\ proc'[p].pc = "refused" => Now(p).cell = NoCell /\ proc'[p].at = proc[p].at
         /\ Now(p).cell = NoCell => rows' = rows
         /\ Now(p).cell # NoCell =>
              /\ DOMAIN rows' = DOMAIN rows \cup {Now(p).cell}
              /\ rows'[Now(p).cell].ok = ~proc[p].failed
              /\ rows'[Now(p).cell].by = Execution(p)
              /\ rows'[Now(p).cell].seen = IF proc[p].failed THEN {} ELSE proc[p].seen
              /\ \A c \in DOMAIN rows \ {Now(p).cell} : rows'[c] = rows[c]
<1>1. DOMAIN proc = Proc /\ DOMAIN proc[p] = Fields
  BY DEF CoresInv, Stands
<1>2. /\ \/ proc'[p].pc = "refused"
         \/ proc'[p].pc = "next" /\ proc'[p].at = proc[p].at + 1
      /\ proc'[p].pc = "refused" => Now(p).cell = NoCell /\ proc'[p].at = proc[p].at
  <2>1. \/ Now(p).cell = NoCell /\ proc'[p] = [proc[p] EXCEPT !.pc = "refused"]
        \/ proc'[p] = [proc[p] EXCEPT !.pc = "next", !.at = proc[p].at + 1]
    BY <1>1 DEF Record
  <2>2. CASE Now(p).cell = NoCell /\ proc'[p] = [proc[p] EXCEPT !.pc = "refused"]
    BY <1>1, <2>2 DEF Fields
  <2>3. CASE proc'[p] = [proc[p] EXCEPT !.pc = "next", !.at = proc[p].at + 1]
    BY <1>1, <2>3 DEF Fields
  <2> QED
    BY <2>1, <2>2, <2>3
<1>3. Now(p).cell = NoCell => rows' = rows
  BY DEF Record, Recorded
<1>4. ASSUME Now(p).cell # NoCell
      PROVE  /\ DOMAIN rows' = DOMAIN rows \cup {Now(p).cell}
             /\ rows'[Now(p).cell].ok = ~proc[p].failed
             /\ rows'[Now(p).cell].by = Execution(p)
             /\ rows'[Now(p).cell].seen = IF proc[p].failed THEN {} ELSE proc[p].seen
             /\ \A c \in DOMAIN rows \ {Now(p).cell} : rows'[c] = rows[c]
  <2>1. rows' = RecordedAlways(p)
    BY <1>4 DEF Record, Recorded
  <2> QED
    BY <2>1 DEF RecordedAlways
<1>5. proc[p].pc = "record" /\ dirs' = dirs /\ happened' = happened
  BY DEF Record
<1> QED
  BY <1>2, <1>3, <1>4, <1>5

LEMMA EscapeDoes ==
  ASSUME CoresInv, NEW p \in Proc, Escape(p)
  PROVE  /\ proc[p].pc \in {"next", "record"} /\ Left(p) /\ Now(p).cell # NoCell
         /\ dirs' = dirs /\ "escape" \in happened'
         /\ proc'[p].pc = "next" /\ proc'[p].at \in Beyond(p) /\ proc'[p].aborted = TRUE
         /\ \/ rows' = rows
            \/ /\ proc[p].pc = "record"
               /\ DOMAIN rows' = DOMAIN rows \cup {Now(p).cell}
               /\ rows'[Now(p).cell].ok = ~proc[p].failed
               /\ rows'[Now(p).cell].by = Execution(p)
               /\ rows'[Now(p).cell].seen = IF proc[p].failed THEN {} ELSE proc[p].seen
               /\ \A c \in DOMAIN rows \ {Now(p).cell} : rows'[c] = rows[c]
<1>1. DOMAIN proc = Proc /\ DOMAIN proc[p] = Fields
  BY DEF CoresInv, Stands
<1>2. proc'[p].pc = "next" /\ proc'[p].at \in Beyond(p) /\ proc'[p].aborted = TRUE
  <2>1. PICK k \in Beyond(p) :
          proc'[p] = [proc[p] EXCEPT !.pc = "next", !.at = k, !.aborted = TRUE]
    BY <1>1 DEF Escape
  <2> QED
    BY <1>1, <2>1 DEF Fields
<1>3. /\ proc[p].pc \in {"next", "record"} /\ Left(p) /\ Now(p).cell # NoCell
      /\ dirs' = dirs /\ "escape" \in happened'
      /\ rows' = rows \/ (proc[p].pc = "record" /\ rows' = Recorded(p))
  BY DEF Escape, Fault
<1>4. ASSUME rows' = Recorded(p)
      PROVE  /\ DOMAIN rows' = DOMAIN rows \cup {Now(p).cell}
             /\ rows'[Now(p).cell].ok = ~proc[p].failed
             /\ rows'[Now(p).cell].by = Execution(p)
             /\ rows'[Now(p).cell].seen = IF proc[p].failed THEN {} ELSE proc[p].seen
             /\ \A c \in DOMAIN rows \ {Now(p).cell} : rows'[c] = rows[c]
  <2>1. rows' = RecordedAlways(p)
    BY <1>3, <1>4 DEF Recorded
  <2> QED
    BY <2>1 DEF RecordedAlways
<1> QED
  BY <1>2, <1>3, <1>4

\* What was given up is so until the next launch.
LEMMA AbortedStays ==
  ASSUME CoresInv, NEW p \in Proc,
         \/ Skip(p) \/ Begin(p) \/ Enter(p) \/ Work(p) \/ Raise(p)
         \/ Leave(p) \/ Record(p) \/ End(p)
  PROVE  proc'[p].aborted = proc[p].aborted
<1>1. DOMAIN proc = Proc /\ DOMAIN proc[p] = Fields
  BY DEF CoresInv, Stands
<1>2. CASE Skip(p) \/ Begin(p) \/ Leave(p) \/ End(p)
  <2>1. CASE Skip(p)
    BY <1>1, <2>1 DEF Skip, Fields
  <2>2. CASE Begin(p)
    BY <1>1, <2>2 DEF Begin, Fields
  <2>3. CASE Leave(p)
    BY <1>1, <2>3 DEF Leave, Fields
  <2>4. CASE End(p)
    BY <1>1, <2>4 DEF End, Fields
  <2> QED
    BY <1>2, <2>1, <2>2, <2>3, <2>4
<1>3. CASE Enter(p)
  BY <1>1, <1>3 DEF Enter, Fields
<1>4. CASE Work(p)
  <2> DEFINE cores == proc[p].few \/ OpNow(p) = "restrict"
             next == IF proc[p].step < Len(Now(p).ops)
                     THEN [proc[p] EXCEPT !.step = proc[p].step + 1, !.few = cores]
                     ELSE OutOfRun(p, FALSE)
  <2>1. PICK m \in Reach(p) :
          proc'[p] = [next EXCEPT !.seen =
                        IF OpNow(p) \in {"read", "readUntil"} THEN Found(p, m) ELSE {}]
    BY <1>1, <1>4 DEF Work
  <2> HIDE DEF cores
  <2>2. DOMAIN next = Fields /\ next.aborted = proc[p].aborted
    BY <1>1 DEF OutOfRun, Fields
  <2> HIDE DEF next
  <2> QED
    BY <2>1, <2>2 DEF Fields
<1>5. CASE Raise(p)
  <2>1. proc'[p] = IF proc[p].pc = "run" THEN OutOfRun(p, TRUE)
                   ELSE [proc[p] EXCEPT !.pc = Cleanup(p, TRUE), !.step = proc[p].step - 1,
                                        !.failed = TRUE]
    BY <1>1, <1>5 DEF Raise
  <2> QED
    BY <1>1, <2>1 DEF OutOfRun, Fields
<1>6. CASE Record(p)
  <2>1. \/ proc'[p] = [proc[p] EXCEPT !.pc = "refused"]
        \/ proc'[p] = [proc[p] EXCEPT !.pc = "next", !.at = proc[p].at + 1]
    BY <1>1, <1>6 DEF Record
  <2> QED
    BY <1>1, <2>1 DEF Fields
<1> QED
  BY <1>2, <1>3, <1>4, <1>5, <1>6

-----------------------------------------------------------------------------
(* What each action does on disk.                                          *)

\* The process is at a body that works in the directory.
WorksIn(p, path) == proc[p].pc \in AtWork /\ path \in Paths(Now(p))

\* The directories D are those of before, but for what p did in its own; and
\* only a write makes files.
OnDisk(p, D) ==
  /\ Typed(D)
  /\ \A path \in DOMAIN D : path \in DOMAIN dirs \/ WorksIn(p, path)
  /\ \A path : ~WorksIn(p, path) => SameDir(D, path)
  /\ \/ \A path : NoNewFiles(D, path)
     \/ /\ proc[p].pc = "run" /\ OpNow(p) = "write"
        /\ \A path : OwnOrOld(p, D, path)

LEMMA SameOnDisk ==
  ASSUME Places, NEW p \in Proc
  PROVE  OnDisk(p, dirs)
<1>1. \A path : SameDir(dirs, path) /\ NoNewFiles(dirs, path)
  BY DEF SameDir, NoNewFiles, SameFile
<1> QED
  BY <1>1 DEF OnDisk, Places

LEMMA GoneOnDisk ==
  ASSUME CellsAssumption, Places, NEW p \in Proc, NEW paths,
         \A path \in paths : WorksIn(p, path),
         NEW D, D = Without(paths) \/ D \in Removing(paths)
  PROVE  OnDisk(p, D)
<1>0. Typed(dirs)
  BY DEF Places
<1>1. CASE D = Without(paths)
  <2>1. /\ Typed(D) /\ DOMAIN D = DOMAIN dirs \ paths
        /\ \A path \in DOMAIN dirs \ paths : D[path] = dirs[path]
    BY <1>0, <1>1, WithoutIs
  <2>2. \A path : /\ path \notin paths => SameDir(D, path)
                  /\ NoNewFiles(D, path)
    BY <2>1 DEF SameDir, NoNewFiles, SameFile
  <2> QED
    BY <2>1, <2>2 DEF OnDisk
<1>2. CASE D \in Removing(paths)
  <2>1. /\ Typed(D) /\ DOMAIN D = DOMAIN dirs
        /\ \A path \in DOMAIN dirs :
              /\ path \notin paths => D[path] = dirs[path]
              /\ D[path].layout = dirs[path].layout
              /\ \A i \in 1..PerDir :
                   D[path].files[i] = NoFile \/ D[path].files[i] = dirs[path].files[i]
    BY <1>0, <1>2, KeepingIs
  <2>2. \A path : /\ path \notin paths => SameDir(D, path)
                  /\ NoNewFiles(D, path)
    BY <2>1 DEF SameDir, NoNewFiles, SameFile
  <2> QED
    BY <2>1, <2>2 DEF OnDisk
<1> QED
  BY <1>1, <1>2

LEMMA StampedOnDisk ==
  ASSUME CellsAssumption, Places, NEW p \in Proc, NEW dir, WorksIn(p, dir.path),
         NEW left, left = Without({dir.path}) \/ left \in Removing({dir.path})
  PROVE  OnDisk(p, Stamped(left, dir))
<1> DEFINE D == Stamped(left, dir)
<1>1. OnDisk(p, left) /\ Typed(left)
  BY GoneOnDisk DEF OnDisk
<1>2. /\ Typed(D) /\ DOMAIN D = DOMAIN left \cup {dir.path}
      /\ \A path \in DOMAIN left : path # dir.path => D[path] = left[path]
      /\ D[dir.path].files =
           IF dir.path \in DOMAIN left THEN left[dir.path].files ELSE [i \in 1..PerDir |-> NoFile]
  BY <1>1, StampedIs
<1>3. \A path : NoNewFiles(left, path)
  <2>1. ASSUME \A path : OwnOrOld(p, left, path), NEW path PROVE NoNewFiles(left, path)
    <3>0. Typed(dirs)
      BY DEF Places
    <3>1. CASE left = Without({dir.path})
      BY <3>0, <3>1, WithoutIs DEF NoNewFiles, SameFile
    <3>2. CASE left \in Removing({dir.path})
      BY <3>0, <3>2, KeepingIs DEF NoNewFiles, SameFile
    <3> QED
      BY <3>1, <3>2
  <2> QED
    BY <1>1, <2>1 DEF OnDisk
<1> HIDE DEF D
<1>4. ASSUME NEW path PROVE NoNewFiles(D, path)
  <2>1. CASE path = dir.path
    BY <1>2, <1>3, <2>1 DEF NoNewFiles, SameFile
  <2>2. CASE path # dir.path
    BY <1>2, <1>3, <2>2 DEF NoNewFiles, SameFile
  <2> QED
    BY <2>1, <2>2
<1>5. ASSUME NEW path, ~WorksIn(p, path) PROVE SameDir(D, path)
  <2>1. path # dir.path /\ SameDir(left, path)
    BY <1>1, <1>5 DEF OnDisk
  <2> QED
    BY <1>2, <2>1 DEF SameDir
<1>6. \A path \in DOMAIN D : path \in DOMAIN dirs \/ WorksIn(p, path)
  BY <1>1, <1>2 DEF OnDisk
<1>7. OnDisk(p, D)
  BY <1>2, <1>4, <1>5, <1>6 DEF OnDisk
<1> QED
  BY <1>7 DEF D

LEMMA OpIsOp ==
  ASSUME PlannedWell, CoresInv, NEW p \in Proc, proc[p].pc = "run"
  PROVE  /\ OpNow(p) \in Op /\ proc[p].step \in 1..Len(Now(p).ops)
         /\ Len(Now(p).ops) \in Nat
<1>1. WellShaped(Now(p))
  BY AtNow DEF AtWork
<1>2. proc[p].step \in 1..Len(Now(p).ops)
  BY DEF CoresInv, Stands
<1>3. Now(p).ops \in Seq(Op)
  BY <1>1 DEF WellShaped, WellMade
<1> QED
  BY <1>2, <1>3 DEF OpNow

LEMMA AfterOnDisk ==
  ASSUME CellsAssumption, PlannedWell, CoresInv, Places, NEW p \in Proc, proc[p].pc = "run", NEW m
  PROVE  OnDisk(p, After(p, OpNow(p), m))
<1> DEFINE D == After(p, OpNow(p), m)
<1>1. /\ Typed(D) /\ DOMAIN D = DOMAIN dirs
      /\ \A path : path \notin Paths(Now(p)) => SameDir(D, path)
      /\ \A path : OwnOrOld(p, D, path)
      /\ OpNow(p) # "write" => \A path : NoNewFiles(D, path)
  BY OpIsOp, AfterIs DEF Places
<1> HIDE DEF D
<1>2. OnDisk(p, D)
  BY <1>1 DEF OnDisk, WorksIn, AtWork
<1> QED
  BY <1>2 DEF D

\* What an operation that does not end leaves.
LEMMA PartlyOnDisk ==
  ASSUME CellsAssumption, PlannedWell, CoresInv, Places, NEW p \in Proc, NEW D \in Partly(p)
  PROVE  OnDisk(p, D)
<1>1. CASE proc[p].pc = "enter"
  <2> DEFINE path == Now(p).dirs[proc[p].step].path
  <2>1. WorksIn(p, path)
    BY <1>1, PathOfDir DEF Places, Placed, WorksIn, AtWork
  <2>2. D = Without({path}) \/ D = Stamped(Without({path}), Dir(path, "default"))
    BY <1>1 DEF Partly
  <2>3. Dir(path, "default").path = path
    BY DEF Dir
  <2> HIDE DEF path
  <2>4. CASE D = Without({path})
    BY <2>1, <2>4, GoneOnDisk
  <2>5. CASE D = Stamped(Without({path}), Dir(path, "default"))
    BY <2>1, <2>3, <2>5, StampedOnDisk
  <2> QED
    BY <2>2, <2>4, <2>5
<1>2. CASE proc[p].pc = "run" /\ Paths(Now(p)) \subseteq DOMAIN dirs
  <2>1. PICK m \in 0..Total(Now(p)) : D = After(p, OpNow(p), m)
    BY <1>2 DEF Partly
  <2> QED
    BY <1>2, <2>1, AfterOnDisk
<1>3. CASE proc[p].pc = "leave"
  <2>1. D \in Removing(Paths(Now(p)))
    BY <1>3 DEF Partly
  <2>2. \A path \in Paths(Now(p)) : WorksIn(p, path)
    BY <1>3 DEF WorksIn, AtWork
  <2> QED
    BY <2>1, <2>2, GoneOnDisk
<1>4. CASE /\ proc[p].pc \notin {"enter", "leave"}
           /\ ~(proc[p].pc = "run" /\ Paths(Now(p)) \subseteq DOMAIN dirs)
  <2>1. D = dirs
    BY <1>4 DEF Partly
  <2> QED
    BY <2>1, SameOnDisk
<1> QED
  BY <1>1, <1>2, <1>3, <1>4

\* Every step of a process leaves on disk what is not its body's alone.
LEMMA StepOnDisk ==
  ASSUME CellsAssumption, PlannedWell, CoresInv, Places, NEW p \in Proc,
         \/ Launch(p) \/ Skip(p) \/ Begin(p) \/ Enter(p) \/ Work(p) \/ Raise(p)
         \/ Leave(p) \/ Record(p) \/ Escape(p) \/ End(p) \/ Kill(p)
  PROVE  OnDisk(p, dirs')
<1>1. CASE Launch(p) \/ Skip(p) \/ Begin(p) \/ Record(p) \/ Escape(p) \/ End(p)
  <2>1. dirs' = dirs
    BY <1>1 DEF Launch, Skip, Begin, Record, Escape, End
  <2> QED
    BY <2>1, SameOnDisk
<1>2. CASE Enter(p)
  <2> DEFINE dir == Now(p).dirs[proc[p].step]
  <2>1. proc[p].pc = "enter" /\ WorksIn(p, dir.path)
    BY <1>2, EnterDoes, PathOfDir DEF Places, Placed, WorksIn, AtWork
  <2>2. \E left : /\ left = Without({dir.path}) \/ left \in Removing({dir.path})
                  /\ dirs' = Stamped(left, dir)
    BY <1>2, EnterDoes
  <2> HIDE DEF dir
  <2> QED
    BY <2>1, <2>2, StampedOnDisk
<1>3. CASE Work(p)
  <2>1. PICK m : dirs' = After(p, OpNow(p), m)
    BY <1>3, WorkDoes
  <2>2. proc[p].pc = "run"
    BY <1>3, WorkDoes
  <2> QED
    BY <2>1, <2>2, AfterOnDisk
<1>4. CASE Raise(p)
  BY <1>4, RaiseDoes, PartlyOnDisk
<1>5. CASE Leave(p)
  <2> DEFINE entered == IF Now(p).enters THEN proc[p].step ELSE Len(Now(p).dirs)
             gone == {Now(p).dirs[d].path : d \in 1..entered}
  <2>1. proc[p].pc = "leave" /\ WellShaped(Now(p))
    BY <1>5, LeaveDoes, AtNow DEF AtWork
  <2>2. entered \in 0..Len(Now(p).dirs)
    <3>1. Len(Now(p).dirs) \in Nat /\ Now(p).enters \in BOOLEAN
      BY <2>1 DEF WellShaped, NamesApart
    <3>2. Now(p).enters => proc[p].step \in 0..Len(Now(p).dirs)
      BY <2>1 DEF Places, Placed
    <3> QED
      BY <3>1, <3>2
  <2>3. \A path \in gone : WorksIn(p, path)
    <3>1. Len(Now(p).dirs) \in Nat
      BY <2>1 DEF WellShaped, NamesApart
    <3>2. \A d \in 1..entered : d \in 1..Len(Now(p).dirs)
      BY <2>2, <3>1
    <3> QED
      BY <2>1, <3>2, PathOfDir DEF WorksIn, AtWork
  <2>4. dirs' = Without(gone) \/ dirs' \in Removing(gone)
    BY <1>5, LeaveDoes
  <2> HIDE DEF gone
  <2> QED
    BY <2>3, <2>4, GoneOnDisk
<1>6. CASE Kill(p)
  <2>1. \/ dirs' = dirs \/ dirs' \in Partly(p)
        \/ /\ proc[p].pc = "enter"
           /\ dirs' \in Removing({Now(p).dirs[proc[p].step].path})
    BY <1>6 DEF Kill
  <2>2. CASE dirs' = dirs
    BY <2>2, SameOnDisk
  <2>3. CASE dirs' \in Partly(p)
    BY <2>3, PartlyOnDisk
  <2>4. CASE /\ proc[p].pc = "enter"
             /\ dirs' \in Removing({Now(p).dirs[proc[p].step].path})
    <3>1. WorksIn(p, Now(p).dirs[proc[p].step].path)
      BY <2>4, PathOfDir DEF Places, Placed, WorksIn, AtWork
    <3> QED
      BY <2>4, <3>1, GoneOnDisk
  <2> QED
    BY <2>1, <2>2, <2>3, <2>4
<1> QED
  BY <1>1, <1>2, <1>3, <1>4, <1>5, <1>6

-----------------------------------------------------------------------------
(* Places are kept.                                                        *)

\* Rows are only added, and only for the cell whose body is over.
RowsGrow(p) ==
  /\ DOMAIN rows \subseteq DOMAIN rows'
  /\ \A c : ~(proc[p].pc = "record" /\ c = Now(p).cell /\ c # NoCell) =>
       /\ c \in DOMAIN rows' => c \in DOMAIN rows
       /\ c \in DOMAIN rows => rows'[c] = rows[c]

LEMMA StepOnRows ==
  ASSUME CoresInv, NEW p \in Proc,
         \/ Launch(p) \/ Skip(p) \/ Begin(p) \/ Enter(p) \/ Work(p) \/ Raise(p)
         \/ Leave(p) \/ Record(p) \/ Escape(p) \/ End(p) \/ Kill(p)
  PROVE  RowsGrow(p)
<1>1. CASE Record(p)
  BY <1>1, RecordDoes DEF RowsGrow
<1>2. CASE Escape(p)
  BY <1>2, EscapeDoes DEF RowsGrow
<1>3. CASE ~Record(p) /\ ~Escape(p)
  <2>1. rows' = rows
    BY <1>3 DEF Launch, Skip, Begin, Enter, Work, Raise, Leave, End, Kill
  <2> QED
    BY <2>1 DEF RowsGrow
<1> QED
  BY <1>1, <1>2, <1>3

LEMMA SameNow ==
  ASSUME NEW p \in Proc, plan' = plan, proc'[p].at = proc[p].at
  PROVE  Now(p)' = Now(p) /\ (Left(p)' <=> Left(p))
BY DEF Now, Left

\* An experiment that was given up stays so as the process goes on.
LEMMA GivenUpStays ==
  ASSUME NEW p \in Proc, plan' = plan, Len(plan[p]) \in Nat, proc[p].at \in Nat, proc'[p].at \in Nat,
         proc[p].at <= proc'[p].at, NEW j \in 1..Len(plan[p]), GivenUp(p, j)
  PROVE  GivenUp(p, j)'
<1>1. PICK e \in (j + 1)..proc[p].at : e <= Len(plan[p]) => ~SameExperiment(plan[p][j], plan[p][e])
  BY DEF GivenUp
<1>2. e \in (j + 1)..proc'[p].at
  BY <1>1
<1> QED
  BY <1>1, <1>2 DEF GivenUp, SameExperiment

\* An escape gives up whatever it goes past.
LEMMA EscapeGivesUp ==
  ASSUME CoresInv, PlannedWell, NEW p \in Proc, Escape(p), NEW j \in 1..Len(plan[p]),
         proc[p].at <= j, j < proc'[p].at, plan[p][j].cell # NoCell
  PROVE  GivenUp(p, j)'
<1> DEFINE k == proc'[p].at
<1>1. /\ k \in (proc[p].at + 1)..(Len(plan[p]) + 1)
      /\ \A m \in (proc[p].at + 1)..(k - 1) : SameExperiment(Now(p), plan[p][m])
      /\ k <= Len(plan[p]) => ~SameExperiment(Now(p), plan[p][k])
  BY EscapeDoes DEF Beyond
<1>2. plan' = plan /\ Len(plan[p]) \in Nat /\ proc[p].at \in Nat \ {0} /\ Now(p) = plan[p][proc[p].at]
  BY BodiesOfPlan DEF Escape, CoresInv, Stands, Now
<1>3. plan[p][j].cell[1] = Now(p).cell[1]
  <2>1. CASE j = proc[p].at
    BY <1>2, <2>1
  <2>2. CASE j # proc[p].at
    <3>1. j \in (proc[p].at + 1)..(k - 1)
      BY <1>1, <1>2, <2>2
    <3> QED
      BY <1>1, <3>1 DEF SameExperiment
  <2> QED
    BY <2>1, <2>2
<1>4. k \in (j + 1)..k
  BY <1>1, <1>2
<1>5. k <= Len(plan[p]) => ~SameExperiment(plan[p][j], plan[p][k])
  BY <1>1, <1>3 DEF SameExperiment
<1> QED
  BY <1>2, <1>4, <1>5 DEF GivenUp, SameExperiment

\* Whoever is at work elsewhere still has no row.
LEMMA OthersPlaced ==
  ASSUME PlannedWell, CoresInv, NEW p \in Proc, NEW q \in Proc, q # p, Placed(q),
         MovesAlone(p), RowsGrow(p)
  PROVE  Placed(q)'
<1>1. plan' = plan /\ proc'[q] = proc[q]
  BY DEF MovesAlone
<1>2. Now(q)' = Now(q) /\ (Left(q)' <=> Left(q))
  BY <1>1, SameNow
<1>3. ASSUME proc[q].pc \in AtWork PROVE ~Done(Now(q).cell)'
  <2>1. ~Done(Now(q).cell)
    BY <1>3 DEF Placed
  <2>2. ~(proc[p].pc = "record" /\ Now(q).cell = Now(p).cell /\ Now(q).cell # NoCell)
    <3> SUFFICES ASSUME proc[p].pc = "record", Now(q).cell = Now(p).cell, Now(q).cell # NoCell
                 PROVE  FALSE
      OBVIOUS
    <3>1. proc[q].at \in 1..Len(plan[q]) /\ Now(q) = plan[q][proc[q].at]
      BY <1>3, AtNow
    <3>2. proc[p].at \in 1..Len(plan[p]) /\ Now(p) = plan[p][proc[p].at]
      BY AtNow DEF AtWork
    <3> QED
      BY <3>1, <3>2, OneKey
  <2> QED
    BY <1>2, <2>1, <2>2 DEF RowsGrow, Done
<1>4. \A j : GivenUp(q, j)' <=> GivenUp(q, j)
  BY <1>1 DEF GivenUp, SameExperiment
<1> QED
  BY <1>1, <1>2, <1>3, <1>4 DEF Placed, RowsGrow

LEMMA MoverPlaced ==
  ASSUME CellsAssumption, PlannedWell, CoresInv, Places, NEW p \in Proc, MovesAlone(p), RowsGrow(p),
         \/ Launch(p) \/ Skip(p) \/ Begin(p) \/ Enter(p) \/ Work(p) \/ Raise(p)
         \/ Leave(p) \/ Record(p) \/ Escape(p) \/ End(p) \/ Kill(p)
  PROVE  Placed(p)'
<1>1. plan' = plan /\ Placed(p) /\ proc[p].at \in Nat \ {0} /\ Len(plan[p]) \in Nat
  BY BodiesOfPlan DEF MovesAlone, Places, CoresInv, Stands
<1>0. ASSUME proc'[p].at \in Nat, proc[p].at <= proc'[p].at, proc[p].pc \notin Ended,
             NEW j \in 1..Len(plan[p]), j < proc[p].at, plan[p][j].cell # NoCell
      PROVE  plan[p][j].cell \in DOMAIN rows' \/ GivenUp(p, j)'
  <2>1. plan[p][j].cell \in DOMAIN rows \/ GivenUp(p, j)
    BY <1>1, <1>0 DEF Placed
  <2>2. GivenUp(p, j) => GivenUp(p, j)'
    BY <1>1, <1>0, GivenUpStays
  <2> QED
    BY <2>1, <2>2 DEF RowsGrow
<1>14. proc'[p].aborted \in BOOLEAN
  <2>1. DOMAIN proc = Proc
    BY DEF CoresInv
  <2>2. CASE Launch(p)
    <3>1. proc'[p] = [Idle EXCEPT !.pc = "next"]
      BY <2>1, <2>2 DEF Launch
    <3> QED
      BY <3>1 DEF Idle
  <2>3. CASE Kill(p)
    BY <2>1, <2>3 DEF Kill, Idle
  <2>4. CASE Escape(p)
    BY <2>4, EscapeDoes
  <2>5. CASE ~(Launch(p) \/ Kill(p) \/ Escape(p))
    BY <1>1, <2>5, AbortedStays DEF Placed
  <2> QED
    BY <2>2, <2>3, <2>4, <2>5
<1>2. CASE Launch(p) \/ Kill(p)
  <2>1. proc'[p].pc \in {"next", "down"} /\ proc'[p].at = 1
    BY <1>2, BetweenDoes
  <2>2. \A j \in 1..Len(plan[p]) : ~(j < 1)
    BY <1>1
  <2>3. proc'[p].at \in 1..(Len(plan[p]) + 1)
    BY <1>1, <2>1
  <2> QED
    BY <1>1, <1>14, <2>1, <2>2, <2>3 DEF Placed, Ended, AtWork
<1>3. CASE Skip(p)
  <2>1. /\ proc[p].pc = "next" /\ Left(p) /\ Done(Now(p).cell)
        /\ proc'[p].pc = "next" /\ proc'[p].at = proc[p].at + 1 /\ rows' = rows
    BY <1>3, BetweenDoes
  <2>2. proc[p].at \in 1..Len(plan[p]) /\ Now(p) = plan[p][proc[p].at]
    BY <2>1, AtNow
  <2>3. ASSUME NEW j \in 1..Len(plan[p]), j < proc[p].at + 1, plan[p][j].cell # NoCell
        PROVE  plan[p][j].cell \in DOMAIN rows' \/ GivenUp(p, j)'
    <3>1. CASE j = proc[p].at
      BY <2>1, <2>2, <3>1 DEF Done
    <3>2. CASE j < proc[p].at
      BY <1>0, <1>1, <2>1, <2>3, <3>2 DEF Ended
    <3> QED
      BY <1>1, <2>3, <3>1, <3>2
  <2>4. proc'[p].at \in 1..(Len(plan[p]) + 1)
    BY <1>1, <2>1, <2>2
  <2> QED
    BY <1>1, <1>14, <2>1, <2>3, <2>4 DEF Placed, Ended, AtWork
<1>4. CASE End(p)
  <2>1. /\ proc[p].pc = "next" /\ ~Left(p) /\ proc'[p].at = proc[p].at
        /\ proc'[p].pc = IF proc[p].aborted THEN "aborted" ELSE "done"
        /\ proc'[p].aborted = proc[p].aborted
    BY <1>4, BetweenDoes, AbortedStays
  <2>2. ~Left(p)'
    BY <1>1, <2>1, SameNow
  <2> QED
    BY <1>1, <1>14, <2>1, <2>2 DEF Placed, Ended, AtWork
<1>5. ASSUME proc'[p].at = proc[p].at, proc'[p].pc \in AtWork, rows' = rows,
             proc[p].pc \in {"next"} \cup AtWork, ~Done(Now(p).cell),
             proc'[p].pc = "enter" => proc'[p].step \in 1..Len(Now(p).dirs),
             proc'[p].pc = "leave" =>
               /\ Now(p).leaves
               /\ Now(p).enters => proc'[p].step \in 0..Len(Now(p).dirs)
               /\ Now(p).enters /\ ~proc'[p].failed => proc'[p].step = Len(Now(p).dirs)
      PROVE  Placed(p)'
  <2>1. Now(p)' = Now(p)
    BY <1>1, <1>5, SameNow
  <2>2. ~Done(Now(p).cell)'
    BY <1>5, <2>1 DEF Done
  <2>3. proc[p].pc \notin Ended /\ proc'[p].pc \notin {"done"} /\ proc'[p].pc \notin Ended
    BY <1>5 DEF Ended, AtWork
  <2>4. ASSUME NEW j \in 1..Len(plan[p]), j < proc'[p].at, plan[p][j].cell # NoCell
        PROVE  plan[p][j].cell \in DOMAIN rows' \/ GivenUp(p, j)'
    BY <1>0, <1>1, <1>5, <2>3, <2>4
  <2>5. proc'[p].at \in 1..(Len(plan[p]) + 1)
    BY <1>1, <1>5 DEF Placed
  <2> QED
    BY <1>1, <1>14, <1>5, <2>1, <2>2, <2>3, <2>4, <2>5 DEF Placed
<1>6. CASE Begin(p)
  <2>0. WellShaped(Now(p))
    BY <1>6, BeginDoes, AtNow
  <2>1. WellShaped(Now(p)) /\ 1 \in 1..Len(Now(p).dirs)
    BY <2>0 DEF WellShaped, NamesApart
  <2>2. /\ proc'[p].pc = "enter" => proc'[p].step \in 1..Len(Now(p).dirs)
        /\ proc'[p].pc = "leave" => Now(p).leaves /\ ~Now(p).enters
        /\ proc'[p].pc \in AtWork
    BY <1>6, <2>1, BeginDoes DEF WellShaped, AtWork
  <2> QED
    BY <1>5, <1>6, <2>2, BeginDoes
<1>7. ASSUME Enter(p) \/ Work(p) \/ Raise(p) \/ Leave(p)
      PROVE  /\ proc[p].pc \in AtWork /\ ~Done(Now(p).cell) /\ Len(Now(p).dirs) \in Nat
             /\ WellShaped(Now(p))
  <2>1. proc[p].pc \in AtWork
    BY <1>7 DEF Enter, Work, Raise, Leave, AtWork
  <2> QED
    BY <1>1, <2>1, AtNow DEF Placed, WellShaped, NamesApart
<1>8. CASE Enter(p)
  <2>0. proc[p].pc = "enter" /\ proc[p].step \in 1..Len(Now(p).dirs)
    BY <1>1, <1>8, EnterDoes DEF Placed
  <2>1. /\ proc'[p].pc = "enter" => proc'[p].step \in 1..Len(Now(p).dirs)
        /\ proc'[p].pc \in {"enter", "run"}
    <3>1. \/ proc'[p].pc = "run"
          \/ /\ proc[p].step < Len(Now(p).dirs)
             /\ proc'[p].pc = "enter" /\ proc'[p].step = proc[p].step + 1
      BY <1>8, EnterDoes
    <3> QED
      BY <1>7, <2>0, <3>1
  <2> QED
    BY <1>5, <1>7, <1>8, <2>1, EnterDoes DEF AtWork
<1>9. CASE Work(p)
  <2>1. proc'[p].pc = "leave" => Now(p).leaves /\ proc'[p].step = Len(Now(p).dirs)
    BY <1>9, WorkDoes
  <2>2. proc'[p].pc = "leave" => Now(p).leaves /\ proc'[p].step \in 0..Len(Now(p).dirs)
                                 /\ proc'[p].step = Len(Now(p).dirs)
    BY <1>7, <1>9, <2>1
  <2>3. proc'[p].pc \in {"run", "leave", "record"}
    BY <1>9, WorkDoes
  <2> QED
    BY <1>5, <1>7, <1>9, <2>2, <2>3, WorkDoes DEF AtWork
<1>10. CASE Raise(p)
  <2>1. proc[p].pc = "enter" => proc[p].step \in 1..Len(Now(p).dirs)
    BY <1>1 DEF Placed
  <2>2. proc'[p].pc = "leave" => Now(p).leaves /\ proc'[p].step \in 0..Len(Now(p).dirs)
    <3>1. /\ proc[p].pc \in {"enter", "run"}
          /\ proc'[p].pc = IF Now(p).leaves THEN "leave" ELSE "record"
          /\ proc'[p].step = IF proc[p].pc = "run" THEN Len(Now(p).dirs) ELSE proc[p].step - 1
      BY <1>10, RaiseDoes
    <3>2. proc'[p].step \in 0..Len(Now(p).dirs)
      BY <1>7, <2>1, <3>1
    <3> QED
      BY <3>1, <3>2
  <2>3. proc'[p].pc \in {"leave", "record"} /\ proc'[p].failed = TRUE
    BY <1>10, RaiseDoes
  <2> QED
    BY <1>5, <1>7, <1>10, <2>2, <2>3, RaiseDoes DEF AtWork
<1>11. CASE Leave(p)
  BY <1>5, <1>7, <1>11, LeaveDoes DEF AtWork
<1>12. CASE Record(p)
  <2>1. proc[p].pc = "record" /\ proc[p].at \in 1..Len(plan[p]) /\ Now(p) = plan[p][proc[p].at]
    BY <1>12, RecordDoes, AtNow DEF AtWork
  <2>2. CASE proc'[p].pc = "refused"
    BY <1>1, <1>14, <1>12, <2>1, <2>2, RecordDoes DEF Placed, Ended, AtWork
  <2>3. CASE proc'[p].pc = "next" /\ proc'[p].at = proc[p].at + 1
    <3>1. ASSUME NEW j \in 1..Len(plan[p]), j < proc[p].at + 1, plan[p][j].cell # NoCell
          PROVE  plan[p][j].cell \in DOMAIN rows' \/ GivenUp(p, j)'
      <4>1. CASE j = proc[p].at
        BY <1>12, <2>1, <3>1, <4>1, RecordDoes
      <4>2. CASE j < proc[p].at
        BY <1>0, <1>1, <2>1, <2>3, <3>1, <4>2 DEF Ended
      <4> QED
        BY <1>1, <3>1, <4>1, <4>2
    <3>2. proc'[p].at \in 1..(Len(plan[p]) + 1)
      BY <1>1, <2>1, <2>3
    <3> QED
      BY <1>1, <1>14, <2>3, <3>1, <3>2 DEF Placed, Ended, AtWork
  <2> QED
    BY <1>12, <2>2, <2>3, RecordDoes
<1>13. CASE Escape(p)
  <2>1. /\ proc[p].pc \in {"next", "record"} /\ proc'[p].pc = "next"
        /\ proc'[p].at \in (proc[p].at + 1)..(Len(plan[p]) + 1)
    BY <1>13, EscapeDoes DEF Beyond
  <2>2. proc'[p].at \in 1..(Len(plan[p]) + 1)
    BY <1>1, <2>1
  <2>3. ASSUME NEW j \in 1..Len(plan[p]), j < proc'[p].at, plan[p][j].cell # NoCell
        PROVE  plan[p][j].cell \in DOMAIN rows' \/ GivenUp(p, j)'
    <3>1. CASE j < proc[p].at
      BY <1>0, <1>1, <2>1, <2>2, <2>3, <3>1 DEF Ended
    <3>2. CASE proc[p].at <= j
      BY <1>13, <2>3, <3>2, EscapeGivesUp
    <3> QED
      BY <1>1, <3>1, <3>2
  <2> QED
    BY <1>1, <1>14, <2>1, <2>2, <2>3 DEF Placed, Ended, AtWork
<1> QED
  BY <1>2, <1>3, <1>4, <1>6, <1>8, <1>9, <1>10, <1>11, <1>12, <1>13

LEMMA PlacesAfterStep ==
  ASSUME CellsAssumption, PlannedWell, CoresInv, Places, NEW p \in Proc,
         \/ Launch(p) \/ Skip(p) \/ Begin(p) \/ Enter(p) \/ Work(p) \/ Raise(p)
         \/ Leave(p) \/ Record(p) \/ Escape(p) \/ End(p) \/ Kill(p)
  PROVE  Places' /\ MovesAlone(p) /\ RowsGrow(p) /\ OnDisk(p, dirs')
<1>1. /\ MovesAlone(p) /\ happened' \subseteq Faults /\ launches' \in [Proc -> 0..MaxLaunches]
      /\ RowsGrow(p) /\ OnDisk(p, dirs')
  BY StepsMoveAlone, StepOnRows, StepOnDisk
<1>2. Planned' = Planned
  BY <1>1 DEF Planned, MovesAlone
<1>3. \A q \in Proc : Placed(q)'
  BY <1>1, OthersPlaced, MoverPlaced DEF Places
<1>4. DOMAIN dirs' \subseteq UNION {Paths(b) : b \in Planned}
  BY <1>1, AtNow DEF OnDisk, WorksIn, Places
<1>5. DOMAIN rows' \subseteq {b.cell : b \in Planned} \ {NoCell}
  BY <1>1, AtNow DEF RowsGrow, Places, AtWork
<1>6. Typed(dirs')
  BY <1>1 DEF OnDisk
<1> QED
  BY <1>1, <1>2, <1>3, <1>4, <1>5, <1>6 DEF Places, Typed, Paths

\* A row that is deleted is deleted while nothing runs.
LEMMA RedoDoes ==
  ASSUME NEW c \in DOMAIN rows, Redo(c)
  PROVE  /\ \A p \in Proc : proc[p].pc \in Ended
         /\ plan' = plan /\ dirs' = dirs /\ proc' = proc /\ launches' = launches
         /\ "redo" \in happened' /\ happened \subseteq happened' /\ happened' \subseteq Faults \cup happened
         /\ DOMAIN rows' = DOMAIN rows \ {c} /\ \A x \in DOMAIN rows' : rows'[x] = rows[x]
BY DEF Redo, Fault

LEMMA PlacesAfterRedo ==
  ASSUME CoresInv, Places, NEW c \in DOMAIN rows, Redo(c)
  PROVE  Places'
<1>0. plan' = plan
  BY DEF Redo
<1>1. Planned' = Planned
  BY <1>0 DEF Planned
<1>2. ASSUME NEW p \in Proc PROVE Placed(p)'
  <2>1. proc[p].pc \in Ended /\ proc' = proc /\ plan' = plan /\ Placed(p)
    BY RedoDoes DEF Places
  <2>2. Left(p)' <=> Left(p)
    BY <2>1, SameNow
  <2> QED
    BY <2>1, <2>2 DEF Placed, Ended, AtWork
<1> QED
  BY <1>1, <1>2, RedoDoes DEF Places, Typed, Paths

LEMMA PlacesAfterStutter ==
  ASSUME CoresInv, Places, UNCHANGED vars
  PROVE  Places'
<1>1. Planned' = Planned
  BY DEF Planned, vars
<1>2. ASSUME NEW p \in Proc PROVE Placed(p)'
  <2>1. plan' = plan /\ proc' = proc /\ rows' = rows /\ Placed(p)
    BY DEF vars, Places
  <2>2. Now(p)' = Now(p) /\ (Left(p)' <=> Left(p))
    BY <2>1 DEF Now, Left
  <2>3. \A j : GivenUp(p, j)' <=> GivenUp(p, j)
    BY <2>1 DEF GivenUp, SameExperiment
  <2> QED
    BY <2>1, <2>2, <2>3 DEF Placed, Done
<1> QED
  BY <1>1, <1>2 DEF vars, Places, Typed, Paths

LEMMA PlacesAreKept ==
  ASSUME CellsAssumption, PlannedWell, CoresInv, Places, [Next]_vars
  PROVE  CoresInv' /\ Places'
<1>1. CoresInv'
  BY ShapedIsMade, StepKeeps
<1>2. CASE UNCHANGED vars
  BY <1>1, <1>2, PlacesAfterStutter
<1>3. ASSUME NEW p \in Proc,
             \/ Launch(p) \/ Skip(p) \/ Begin(p) \/ Enter(p) \/ Work(p) \/ Raise(p)
             \/ Leave(p) \/ Record(p) \/ Escape(p) \/ End(p) \/ Kill(p)
      PROVE  Places'
  BY <1>3, PlacesAfterStep
<1>4. ASSUME NEW c \in DOMAIN rows, Redo(c) PROVE Places'
  BY <1>4, PlacesAfterRedo
<1> QED
  BY <1>1, <1>2, <1>3, <1>4 DEF Next
=============================================================================
