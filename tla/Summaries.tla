------------------------------ MODULE Summaries ------------------------------
(***************************************************************************)
(* What is concluded from the rows of an experiment: the medians of        *)
(* runner.py, the fastest layout of budget.py, the table of                *)
(* analysis/load.py, and the percentiles of probes.py under a row.  Cells  *)
(* of several arms and repeats are recorded in any order, some of them as  *)
(* failed, some never, and a kill may leave a line that is no row; every   *)
(* conclusion is looked at after every row, since a summary sees whatever  *)
(* rows there are.                                                         *)
(*                                                                         *)
(* A row is a record with the keys the JSON has: a failed one has no value *)
(* and a good one has no "failed".  Times and rates are small numbers, and *)
(* medians are doubled to stay whole.                                      *)
(***************************************************************************)
EXTENDS Integers, Sequences, FiniteSets, Functions

CONSTANTS
  Arms,      \* number of arms, in the order in which the code lists them
  Repeats,   \* REPEATS
  Values,    \* what a cell may measure
  MaxSample  \* bound on the files one cell reads

ASSUME SummariesAssumption ==
  /\ Arms \in Nat \ {0, 1} /\ Repeats \in Nat \ {0} /\ MaxSample \in Nat
  /\ Values \subseteq Nat \ {0}

VARIABLES
  rows,  \* the rows of the experiment
  torn,  \* is there a line that a kill has cut short?
  timed  \* the files profile_reads has timed in the first cell

vars == <<rows, torn, timed>>

Arm == 1..Arms

\* float("nan"), which is less than nothing and not equal to itself.
NaN == -1

Less(x, y) == x # NaN /\ y # NaN /\ x < y

Failed(r) == "failed" \in DOMAIN r

-----------------------------------------------------------------------------
(* runner.py: median_by, for the rows of one arm.                          *)

\* The values in ascending order, given by row.
Ascending(value) ==
  LET rs == DOMAIN value
      sorted == CHOOSE p \in Bijection(1..Cardinality(rs), rs) :
                  \A i, k \in 1..Cardinality(rs) : i < k => value[p[i]] <= value[p[k]]
  IN  [i \in 1..Cardinality(rs) |-> value[sorted[i]]]

\* statistics.median, twice.
MedianTwice(value) ==
  LET o == Ascending(value)
      n == Cardinality(DOMAIN value)
  IN  o[(n + 1) \div 2] + o[n \div 2 + 1]

\* A bug MedianBy could have: r.get(key, 0) for a row that has none.
MedianByWithFailed(arm) ==
  LET matching == {r \in rows : r.arm = arm}
      value == [r \in matching |-> IF "value" \in DOMAIN r THEN r.value ELSE 0]
  IN  IF matching = {} THEN NaN ELSE MedianTwice(value)

MedianBy(arm) ==
  LET matching == {r \in rows : ~Failed(r) /\ "value" \in DOMAIN r /\ r.arm = arm}
      value == [r \in matching |-> r.value]
  IN  IF matching = {} THEN NaN ELSE MedianTwice(value)

-----------------------------------------------------------------------------
(* experiments/budget.py: which layout has the shortest epoch.             *)

\* min() over (name, epoch) pairs: a later one has to be less to win.
MinOf(first, arms) ==
  LET best[k \in 0..Len(arms)] ==
        IF k = 0 THEN first
        ELSE IF Less(MedianBy(arms[k]), MedianBy(best[k - 1])) THEN arms[k] ELSE best[k - 1]
  IN  best[Len(arms)]

Undecided == 0

\* A bug Best could have, and once had: a bare min().
BestOfAll == MinOf(1, [k \in Arm |-> k])

Best == IF \E arm \in Arm : MedianBy(arm) = NaN THEN Undecided ELSE BestOfAll

-----------------------------------------------------------------------------
(* analysis/load.py: the rows that become lines of the table.              *)

\* A bug Flag could have: without fillna a missing flag is NaN, which is true.
FlagUnfilled(r) == Failed(r) => r.failed

\* fillna(False)
Flag(r) == Failed(r) /\ r.failed

\* json.loads takes every line for a row, and raises at a torn one: no table.
Loads == ~torn

\* Without a failed row there is no such column.
Loaded == IF \E r \in rows : Failed(r) THEN {r \in rows : ~Flag(r)} ELSE rows

-----------------------------------------------------------------------------
(* probes.py: distribution, of n times all different.                      *)

\* A bug Rank could have, and once had: int(n * p), counted from zero.
RankTruncated(p, n) == (p * n) \div 100 + 1

\* ceil(p * n), counted from one, kept inside the sample.
Rank(p, n) ==
  LET rank == (p * n + 99) \div 100 IN
  CASE rank < 1 -> 1 [] rank > n -> n [] OTHER -> rank

Needed == [p \in {90, 95, 99} |-> CASE p = 90 -> 10 [] p = 95 -> 20 [] OTHER -> 100]

\* The percentiles a sample of n has: those it can support.
Percentiles(n) == {50} \cup {p \in DOMAIN Needed : n >= Needed[p]}

-----------------------------------------------------------------------------
Init == rows = {} /\ torn = FALSE /\ timed = 0

\* profile_reads times one more file.
Time ==
  /\ rows = {} /\ timed < MaxSample
  /\ timed' = timed + 1
  /\ UNCHANGED <<rows, torn>>

\* measured() records a cell, good or failed.
Record(arm, repeat) ==
  /\ ~ \E r \in rows : r.arm = arm /\ r.repeat = repeat
  /\ \E value \in Values :
       \E r \in {[arm |-> arm, repeat |-> repeat, value |-> value],
                 [arm |-> arm, repeat |-> repeat, failed |-> TRUE]} : rows' = rows \cup {r}
  /\ timed' = 0
  /\ UNCHANGED torn

\* A kill inside the write of a row: the medians skip the line it leaves.
Tear ==
  /\ torn' = TRUE
  /\ timed' = 0
  /\ UNCHANGED rows

Next == Time \/ Tear \/ \E arm \in Arm : \E repeat \in 1..Repeats : Record(arm, repeat)

Spec == Init /\ [][Next]_vars

-----------------------------------------------------------------------------
(* Properties.                                                             *)

Good(arm) == {r \in rows : r.arm = arm /\ "value" \in DOMAIN r}

\* A median is one of the good rows alone: there is one as soon as there is a
\* good row, and half of the good rows lie on each side of it, however many
\* cells failed (median_by).
MedianOfGoodRows ==
  \A arm \in Arm :
    LET m == MedianBy(arm) IN
    IF Good(arm) = {} THEN m = NaN
    ELSE /\ m # NaN
         /\ 2 * Cardinality({r \in Good(arm) : 2 * r.value <= m}) >= Cardinality(Good(arm))
         /\ 2 * Cardinality({r \in Good(arm) : 2 * r.value >= m}) >= Cardinality(Good(arm))

\* "A missing arm must not win" (budget.py:69): a layout is called the fastest
\* only when all have rows, and then none has a smaller median.
MissingArmNeverWins ==
  Best # Undecided =>
    \A arm \in Arm : Good(arm) # {} /\ MedianBy(Best) <= MedianBy(arm)

\* If analysis/load.py can read the files at all, its table holds the rows the
\* medians in the logs are of, all of them and no others.
LoadedAreMeasured == Loads => Loaded = UNION {Good(arm) : arm \in Arm}

\* A percentile is the least value of the sample with p percent of it at or
\* below, and a tail figure is never just the worst observation (distribution).
NearestRank ==
  timed > 0 =>
    \A p \in Percentiles(timed) :
      /\ Rank(p, timed) \in 1..timed
      /\ 100 * Rank(p, timed) >= p * timed
      /\ \A k \in 1..(Rank(p, timed) - 1) : 100 * k < p * timed
      /\ p # 50 => Rank(p, timed) < timed
=============================================================================
