--------------------------- MODULE SummariesProofs ---------------------------
(***************************************************************************)
(* The percentiles of a sample, for samples of every size, and the table   *)
(* of the rows, the medians of the arms, the pool and the layout that are  *)
(* called the fastest, for every number of arms and repeats.               *)
(***************************************************************************)
EXTENDS Summaries, FiniteSetTheorems, FunctionTheorems, WellFoundedInduction, TLAPS

\* The rank is the rounded-up share of the sample, and no clamp is needed for
\* the percentages that are looked up.
LEMMA RankRoundsUp ==
  ASSUME NEW n \in Nat \ {0}, NEW p \in 1..100
  PROVE  /\ Rank(p, n) \in 1..n
         /\ 100 * Rank(p, n) >= p * n
         /\ 100 * (Rank(p, n) - 1) < p * n
<1> DEFINE m == p * n
           rank == (m + 99) \div 100
<1>1. m \in Nat /\ 1 <= m /\ m <= 100 * n
  OBVIOUS
<1> HIDE DEF m
<1>2. rank \in Nat /\ 100 * rank >= m /\ 100 * (rank - 1) < m
  BY <1>1
<1>3. 1 <= rank /\ rank <= n
  BY <1>1, <1>2
<1>4. Rank(p, n) = rank
  <2>1. Rank(p, n) = CASE rank < 1 -> 1 [] rank > n -> n [] OTHER -> rank
    BY DEF Rank, m
  <2> HIDE DEF rank
  <2> QED
    BY <1>2, <1>3, <2>1
<1> HIDE DEF rank
<1>5. Rank(p, n) \in 1..n /\ 100 * Rank(p, n) >= m /\ 100 * (Rank(p, n) - 1) < m
  BY <1>2, <1>3, <1>4
<1> QED
  BY <1>5 DEF m

\* Every percentile that is looked up asks for less than all of the sample.
LEMMA TailIsSupported ==
  ASSUME NEW n \in Nat \ {0}, NEW p \in Percentiles(n)
  PROVE  /\ p \in 1..100
         /\ p # 50 => (100 - p) * n >= 100
<1>1. p = 50 \/ (p = 90 /\ n >= 10) \/ (p = 95 /\ n >= 20) \/ (p = 99 /\ n >= 100)
  BY DEF Percentiles, Needed
<1> QED
  BY <1>1

\* What distribution() promises of its percentiles (probes.py), whatever the
\* size of the sample: the nearest rank, and never the worst value for a tail.
THEOREM NearestRankOfAnySample == Spec => []NearestRank
<1>1. Init => timed \in Nat
  BY DEF Init
<1>2. timed \in Nat /\ [Next]_vars => (timed \in Nat)'
  BY DEF Next, vars, Time, Tear, Record
<1>3. timed \in Nat => NearestRank
  <2> SUFFICES ASSUME timed \in Nat, timed > 0, NEW p \in Percentiles(timed)
               PROVE  /\ Rank(p, timed) \in 1..timed
                      /\ 100 * Rank(p, timed) >= p * timed
                      /\ \A k \in 1..(Rank(p, timed) - 1) : 100 * k < p * timed
                      /\ p # 50 => Rank(p, timed) < timed
    BY DEF NearestRank
  <2> DEFINE r == Rank(p, timed)
             m == p * timed
  <2>0. timed \in Nat \ {0}
    OBVIOUS
  <2>1. p \in 1..100 /\ (p # 50 => (100 - p) * timed >= 100)
    BY <2>0, TailIsSupported
  <2>2. r \in 1..timed /\ 100 * r >= m /\ 100 * (r - 1) < m
    BY <2>0, <2>1, RankRoundsUp
  <2>3. m \in Nat /\ (p # 50 => 100 * timed - m >= 100)
    <3>1. (100 - p) * timed = 100 * timed - m
      BY <2>0, <2>1
    <3> QED
      BY <2>0, <2>1, <3>1
  <2> HIDE DEF r, m
  <2>4. \A k \in 1..(r - 1) : 100 * k < m
    BY <2>0, <2>2, <2>3
  <2>5. p # 50 => r < timed
    BY <2>0, <2>2, <2>3
  <2> QED
    BY <2>2, <2>4, <2>5 DEF r, m
<1> QED
  BY <1>1, <1>2, <1>3, PTL DEF Spec

-----------------------------------------------------------------------------
(* The table.                                                              *)

\* The rows are finitely many; each has a number or the flag of a failure, and
\* the flag is true.
RowsInv ==
  /\ IsFiniteSet(rows)
  /\ \A r \in rows :
       /\ r.arm \in Arm
       /\ \/ "value" \in DOMAIN r /\ r.value \in Nat /\ ~Failed(r)
          \/ "value" \notin DOMAIN r /\ Failed(r) /\ r.failed = TRUE

LEMMA RowsAtFirst == Init => RowsInv
BY FS_EmptySet DEF Init, RowsInv

LEMMA RowsAreKept == RowsInv /\ [Next]_vars => RowsInv'
<1> SUFFICES ASSUME RowsInv, [Next]_vars PROVE RowsInv'
  OBVIOUS
<1>1. CASE UNCHANGED rows
  BY <1>1 DEF RowsInv
<1>2. ASSUME NEW arm \in Arm, NEW repeat \in 1..Repeats, Record(arm, repeat)
      PROVE  RowsInv'
  <2>1. PICK value \in Values :
          \E r \in {[arm |-> arm, repeat |-> repeat, value |-> value],
                   [arm |-> arm, repeat |-> repeat, failed |-> TRUE]} : rows' = rows \cup {r}
    BY <1>2 DEF Record
  <2>2. PICK r \in {[arm |-> arm, repeat |-> repeat, value |-> value],
                    [arm |-> arm, repeat |-> repeat, failed |-> TRUE]} : rows' = rows \cup {r}
    BY <2>1
  <2>3. IsFiniteSet(rows')
    BY <2>2, FS_AddElement DEF RowsInv
  <2>4. /\ r.arm \in Arm
        /\ \/ "value" \in DOMAIN r /\ r.value \in Nat /\ "failed" \notin DOMAIN r
           \/ "value" \notin DOMAIN r /\ "failed" \in DOMAIN r /\ r.failed = TRUE
    BY <2>2, SummariesAssumption DEF SummariesAssumption
  <2> QED
    BY <2>2, <2>3, <2>4 DEF RowsInv, Failed
<1> QED
  BY <1>1, <1>2 DEF Next, vars, Time, Tear

\* The table that is loaded for the figures holds the rows that the medians in
\* the logs are taken of, however many cells failed, if every line of the files
\* is a row (analysis/load.py).
THEOREM TableOfMeasured == Spec => []LoadedAreMeasured
<1>1. RowsInv => LoadedAreMeasured
  BY DEF RowsInv, LoadedAreMeasured, Loaded, Flag, Failed, Good
<1> QED
  BY <1>1, RowsAtFirst, RowsAreKept, PTL DEF Spec

-----------------------------------------------------------------------------
(* Medians.                                                                *)

\* Induction, as the provers can use it: a set of numbers has a least one.
LEMMA LeastOf ==
  ASSUME NEW S, S \subseteq Nat, S # {}
  PROVE  \E n \in S : \A k \in S : n <= k
<1>1. PICK n \in S : \A k \in S : <<k, n>> \notin OpToRel(<, Nat)
  BY WFMin, NatLessThanWellFounded, Zenon
<1>2. ASSUME NEW k \in S PROVE ~(k < n)
  BY <1>1, <1>2, Zenon DEF OpToRel
<1> QED
  BY <1>2

\* The numbers from 1 to n can be put in the order of their values: by how many
\* come before.
LEMMA OrderOf ==
  ASSUME NEW n \in Nat, NEW s \in [1..n -> Nat]
  PROVE  \E q \in Bijection(1..n, 1..n) : \A i, k \in 1..n : i < k => s[q[i]] <= s[q[k]]
<1> DEFINE Precedes(i, k) == s[i] < s[k] \/ (s[i] = s[k] /\ i <= k)
           UpTo(k) == {i \in 1..n : Precedes(i, k)}
           rank == [k \in 1..n |-> Cardinality(UpTo(k))]
<1>1. IsFiniteSet(1..n) /\ Cardinality(1..n) = n
  <2>1. 1 \in Int /\ n \in Int /\ (IF 1 > n THEN 0 ELSE n - 1 + 1) = n
    OBVIOUS
  <2> QED
    BY <2>1, FS_Interval
<1>2. ASSUME NEW k \in 1..n
      PROVE  IsFiniteSet(UpTo(k)) /\ Cardinality(UpTo(k)) \in 1..n /\ k \in UpTo(k)
  <2>1. k \in UpTo(k) /\ UpTo(k) \in SUBSET (1..n)
    OBVIOUS
  <2> HIDE DEF UpTo
  <2>2. IsFiniteSet(UpTo(k)) /\ Cardinality(UpTo(k)) <= n
    BY <1>1, <2>1, FS_Subset
  <2>3. Cardinality(UpTo(k)) \in Nat /\ Cardinality(UpTo(k)) # 0
    BY <2>1, <2>2, FS_CardinalityType, FS_EmptySet
  <2> QED
    BY <2>1, <2>2, <2>3
<1>3. ASSUME NEW i \in 1..n, NEW k \in 1..n, i # k, Precedes(i, k)
      PROVE  rank[i] < rank[k]
  <2>1. UpTo(i) \in SUBSET UpTo(k) /\ k \notin UpTo(i)
    BY <1>3
  <2> HIDE DEF UpTo
  <2>2. Cardinality(UpTo(i)) <= Cardinality(UpTo(k)) /\ Cardinality(UpTo(i)) # Cardinality(UpTo(k))
    BY <1>2, <2>1, FS_Subset
  <2> QED
    BY <1>2, <2>2
<1>4. \A i, k \in 1..n : Precedes(i, k) \/ Precedes(k, i)
  OBVIOUS
<1>5. rank \in [1..n -> 1..n]
  BY <1>2
<1> HIDE DEF Precedes, UpTo, rank
<1>6. rank \in Injection(1..n, 1..n)
  <2>1. ASSUME NEW i \in 1..n, NEW k \in 1..n, rank[i] = rank[k] PROVE i = k
    <3>1. rank[i] \in 1..n /\ rank[k] \in 1..n
      BY <1>5
    <3> QED
      BY <1>3, <1>4, <2>1, <3>1
  <2> QED
    BY <1>5, <2>1, Fun_IsInj
<1>7. rank \in Bijection(1..n, 1..n)
  BY <1>1, <1>6, FS_Injection, Fun_IsBij
<1> DEFINE q == Inverse(rank, 1..n, 1..n)
<1>8. q \in Bijection(1..n, 1..n)
  BY <1>7, Fun_BijInverse
<1>9. \A k \in 1..n : q[k] \in 1..n /\ rank[q[k]] = k
  <2>1. \A i \in 1..n : q[rank[i]] = i
    BY <1>7, Fun_BijInverse
  <2> HIDE DEF q
  <2>2. q \in [1..n -> 1..n]
    BY <1>8, Fun_BijectionProperties
  <2>3. \A k \in 1..n : \E i \in 1..n : rank[i] = k
    BY <1>7 DEF Bijection, Surjection
  <2> QED
    BY <1>5, <2>1, <2>2, <2>3
<1> HIDE DEF q
<1>10. ASSUME NEW i \in 1..n, NEW k \in 1..n, i < k PROVE s[q[i]] <= s[q[k]]
  <2>1. q[i] \in 1..n /\ q[k] \in 1..n /\ rank[q[i]] = i /\ rank[q[k]] = k
    BY <1>9
  <2>2. ~Precedes(q[k], q[i])
    BY <1>3, <1>10, <2>1
  <2>3. s[q[i]] \in Nat /\ s[q[k]] \in Nat
    BY <2>1
  <2> QED
    BY <2>2, <2>3 DEF Precedes
<1> QED
  BY <1>8, <1>10

\* The values in ascending order are all of them.
LEMMA AscendingIs ==
  ASSUME NEW rs, IsFiniteSet(rs), NEW value \in [rs -> Nat]
  PROVE  LET n == Cardinality(rs) IN
         /\ n \in Nat
         /\ \E p \in Bijection(1..n, rs) :
              /\ \A i, k \in 1..n : i < k => value[p[i]] <= value[p[k]]
              /\ Ascending(value) = [i \in 1..n |-> value[p[i]]]
<1> DEFINE n == Cardinality(rs)
           Sorts(p) == \A i, k \in 1..n : i < k => value[p[i]] <= value[p[k]]
           sorted == CHOOSE p \in Bijection(1..n, rs) : Sorts(p)
<1>1. n \in Nat /\ Bijection(1..n, rs) # {}
  BY FS_CardinalityType DEF ExistsBijection
<1>2. PICK b \in Bijection(1..n, rs) : TRUE
  BY <1>1
<1>3. b \in [1..n -> rs]
  BY <1>2, Fun_BijectionProperties
<1> DEFINE s == [i \in 1..n |-> value[b[i]]]
<1>4. s \in [1..n -> Nat]
  BY <1>3
<1>5. PICK q \in Bijection(1..n, 1..n) : \A i, k \in 1..n : i < k => s[q[i]] <= s[q[k]]
  <2> HIDE DEF s, n
  <2> QED
    BY <1>1, <1>4, OrderOf
<1>6. q \in [1..n -> 1..n]
  BY <1>5, Fun_BijectionProperties
<1> DEFINE p == [i \in 1..n |-> b[q[i]]]
<1>7. p \in Bijection(1..n, rs)
  BY <1>2, <1>5, Fun_BijTransitive
<1>8. Sorts(p)
  <2> SUFFICES ASSUME NEW i \in 1..n, NEW k \in 1..n, i < k PROVE value[p[i]] <= value[p[k]]
    OBVIOUS
  <2>1. s[q[i]] <= s[q[k]] /\ q[i] \in 1..n /\ q[k] \in 1..n
    BY <1>5, <1>6
  <2> QED
    BY <2>1
<1>9. sorted \in Bijection(1..n, rs) /\ Sorts(sorted)
  <2> HIDE DEF p, Sorts
  <2> QED
    BY <1>7, <1>8
<1>10. Ascending(value) = [i \in 1..n |-> value[sorted[i]]]
  <2>1. DOMAIN value = rs
    OBVIOUS
  <2> QED
    BY <2>1 DEF Ascending
<1> HIDE DEF sorted
<1> QED
  BY <1>1, <1>9, <1>10

\* Twice the median is a number, and half of the values lie on each side of it.
LEMMA MedianHalves ==
  ASSUME NEW rs, IsFiniteSet(rs), rs # {}, NEW value \in [rs -> Nat]
  PROVE  LET m == MedianTwice(value) IN
         /\ m \in Nat
         /\ 2 * Cardinality({r \in rs : 2 * value[r] <= m}) >= Cardinality(rs)
         /\ 2 * Cardinality({r \in rs : 2 * value[r] >= m}) >= Cardinality(rs)
<1> DEFINE n == Cardinality(rs)
           low == (n + 1) \div 2
           high == n \div 2 + 1
           m == MedianTwice(value)
           below == {r \in rs : 2 * value[r] <= m}
           above == {r \in rs : 2 * value[r] >= m}
<1>1. n \in Nat \ {0}
  BY FS_CardinalityType, FS_EmptySet
<1>2. PICK p \in Bijection(1..n, rs) :
        /\ \A i, k \in 1..n : i < k => value[p[i]] <= value[p[k]]
        /\ Ascending(value) = [i \in 1..n |-> value[p[i]]]
  BY AscendingIs
<1>3. /\ low \in 1..n /\ high \in 1..n /\ low <= high
      /\ 2 * low >= n /\ 2 * (n - high + 1) >= n
  BY <1>1
<1>4. p \in [1..n -> rs] /\ \A i, k \in 1..n : p[i] = p[k] => i = k
  <2>1. p \in Bijection(1..n, rs)
    BY <1>2
  <2>2. p \in Injection(1..n, rs)
    BY <2>1 DEF Bijection
  <2> HIDE DEF n
  <2> QED
    BY <2>2, Fun_InjectionProperties
<1>5. m = value[p[low]] + value[p[high]]
  <2>1. DOMAIN value = rs
    OBVIOUS
  <2>2. m = Ascending(value)[low] + Ascending(value)[high]
    BY <2>1 DEF MedianTwice
  <2> HIDE DEF m, low, high, n
  <2> QED
    BY <1>2, <1>3, <2>2
<1> HIDE DEF m, low, high, n
<1>6. \A i \in 1..n : value[p[i]] \in Nat /\ p[i] \in rs
  BY <1>4
<1>7. m \in Nat
  BY <1>3, <1>5, <1>6
<1>8. ASSUME NEW i \in 1..low PROVE i \in 1..n /\ p[i] \in below
  <2>1. i \in 1..n /\ (i < low \/ i = low) /\ (low < high \/ low = high)
    BY <1>1, <1>3
  <2>2. value[p[i]] <= value[p[low]] /\ value[p[low]] <= value[p[high]]
    BY <1>2, <1>3, <1>6, <2>1
  <2>3. 2 * value[p[i]] <= m
    BY <1>3, <1>5, <1>6, <2>1, <2>2
  <2> QED
    BY <1>6, <2>1, <2>3
<1>9. ASSUME NEW i \in high..n PROVE i \in 1..n /\ p[i] \in above
  <2>1. i \in 1..n /\ (high < i \/ i = high) /\ (low < high \/ low = high)
    BY <1>1, <1>3
  <2>2. value[p[high]] <= value[p[i]] /\ value[p[low]] <= value[p[high]]
    BY <1>2, <1>3, <1>6, <2>1
  <2>3. 2 * value[p[i]] >= m
    BY <1>3, <1>5, <1>6, <2>1, <2>2
  <2> QED
    BY <1>6, <2>1, <2>3
<1>10. IsFiniteSet(below) /\ IsFiniteSet(above)
  BY FS_Subset
<1> HIDE DEF below, above
<1>11. Cardinality(below) >= low /\ Cardinality(below) \in Nat
  <2> DEFINE f == [i \in 1..low |-> p[i]]
  <2>1. f \in [1..low -> below] /\ \A i, k \in 1..low : f[i] = f[k] => i = k
    BY <1>4, <1>8
  <2>2. f \in Injection(1..low, below)
    BY <2>1, Fun_IsInj
  <2>3. Cardinality(1..low) <= Cardinality(below)
    BY <1>10, <2>2, FS_Injection
  <2>4. Cardinality(1..low) = low
    <3>1. 1 \in Int /\ low \in Int /\ (IF 1 > low THEN 0 ELSE low - 1 + 1) = low
      BY <1>3
    <3> QED
      BY <3>1, FS_Interval
  <2> QED
    BY <1>3, <1>10, <2>3, <2>4, FS_CardinalityType
<1>12. Cardinality(above) >= n - high + 1 /\ Cardinality(above) \in Nat
  <2> DEFINE f == [i \in high..n |-> p[i]]
  <2>1. f \in [high..n -> above] /\ \A i, k \in high..n : f[i] = f[k] => i = k
    BY <1>4, <1>9
  <2>2. f \in Injection(high..n, above)
    BY <2>1, Fun_IsInj
  <2>3. Cardinality(high..n) <= Cardinality(above)
    BY <1>10, <2>2, FS_Injection
  <2>4. Cardinality(high..n) = n - high + 1
    <3>1. high \in Int /\ n \in Int /\ (IF high > n THEN 0 ELSE n - high + 1) = n - high + 1
      BY <1>1, <1>3
    <3> QED
      BY <3>1, FS_Interval
  <2> QED
    BY <1>3, <1>10, <2>3, <2>4, FS_CardinalityType
<1>13. 2 * Cardinality(below) >= n /\ 2 * Cardinality(above) >= n
  BY <1>1, <1>3, <1>11, <1>12
<1> QED
  BY <1>7, <1>13 DEF below, above, m, n

\* The median of an arm is of its good rows alone.
LEMMA MedianOfArm ==
  ASSUME RowsInv, NEW arm \in Arm
  PROVE  /\ IsFiniteSet(Good(arm))
         /\ \A r \in Good(arm) : r.value \in Nat
         /\ MedianBy(arm) = IF Good(arm) = {} THEN NaN
                            ELSE MedianTwice([r \in Good(arm) |-> r.value])
<1>1. IsFiniteSet(Good(arm))
  BY FS_Subset DEF RowsInv, Good
<1>2. \A r \in Good(arm) : r.value \in Nat
  BY DEF RowsInv, Good
<1>3. {r \in rows : ~Failed(r) /\ "value" \in DOMAIN r /\ r.arm = arm} = Good(arm)
  BY DEF RowsInv, Good
<1> QED
  BY <1>1, <1>2, <1>3 DEF MedianBy

LEMMA MedianIsNumber ==
  ASSUME RowsInv, NEW arm \in Arm, Good(arm) # {}
  PROVE  MedianBy(arm) \in Nat
<1> DEFINE value == [r \in Good(arm) |-> r.value]
<1>1. value \in [Good(arm) -> Nat] /\ IsFiniteSet(Good(arm)) /\ MedianBy(arm) = MedianTwice(value)
  BY MedianOfArm
<1> HIDE DEF value
<1> QED
  BY <1>1, MedianHalves

-----------------------------------------------------------------------------
\* A median is one of the good rows alone, and half of them lie on each side of
\* it, however many cells failed and in whatever order they were recorded
\* (median_by, runner.py:105).
THEOREM MediansAreOfGoodRows == Spec => []MedianOfGoodRows
<1>1. RowsInv => MedianOfGoodRows
  <2> SUFFICES ASSUME RowsInv, NEW arm \in Arm, Good(arm) # {}
               PROVE  LET m == MedianBy(arm) IN
                      /\ m # NaN
                      /\ 2 * Cardinality({r \in Good(arm) : 2 * r.value <= m}) >= Cardinality(Good(arm))
                      /\ 2 * Cardinality({r \in Good(arm) : 2 * r.value >= m}) >= Cardinality(Good(arm))
    BY MedianOfArm DEF MedianOfGoodRows
  <2> DEFINE value == [r \in Good(arm) |-> r.value]
             m == MedianBy(arm)
  <2>1. value \in [Good(arm) -> Nat] /\ IsFiniteSet(Good(arm)) /\ m = MedianTwice(value)
    BY MedianOfArm
  <2> HIDE DEF m
  <2>2. /\ {r \in Good(arm) : 2 * value[r] <= m} = {r \in Good(arm) : 2 * r.value <= m}
        /\ {r \in Good(arm) : 2 * value[r] >= m} = {r \in Good(arm) : 2 * r.value >= m}
    OBVIOUS
  <2> HIDE DEF value
  <2>3. /\ m \in Nat
        /\ 2 * Cardinality({r \in Good(arm) : 2 * value[r] <= m}) >= Cardinality(Good(arm))
        /\ 2 * Cardinality({r \in Good(arm) : 2 * value[r] >= m}) >= Cardinality(Good(arm))
    <3>1. LET t == MedianTwice(value) IN
          /\ t \in Nat
          /\ 2 * Cardinality({r \in Good(arm) : 2 * value[r] <= t}) >= Cardinality(Good(arm))
          /\ 2 * Cardinality({r \in Good(arm) : 2 * value[r] >= t}) >= Cardinality(Good(arm))
      BY <2>1, MedianHalves
    <3> QED
      BY <2>1, <3>1
  <2>4. m # NaN
    BY <2>3 DEF NaN
  <2> QED
    BY <2>2, <2>3, <2>4 DEF m
<1> QED
  BY <1>1, RowsAtFirst, RowsAreKept, PTL DEF Spec

-----------------------------------------------------------------------------
(* The layout that is called the fastest.                                  *)

\* Where min() has come to after so many of the arms.
Passes(first, arms, g, n) ==
  g = [k \in 0..n |-> IF k = 0 THEN first
                      ELSE IF Less(MedianBy(arms[k]), MedianBy(g[k - 1])) THEN arms[k] ELSE g[k - 1]]

LEMMA PassesExist ==
  ASSUME NEW first, NEW arms, NEW n \in Nat
  PROVE  \E g : Passes(first, arms, g, n)
<1> DEFINE Missing == {m \in Nat : ~ \E g : Passes(first, arms, g, m)}
<1>1. ASSUME NEW m \in Nat, m > 0, NEW g, Passes(first, arms, g, m - 1)
      PROVE  \E h : Passes(first, arms, h, m)
  <2> DEFINE Choice(x, k) == IF Less(MedianBy(arms[k]), MedianBy(x)) THEN arms[k] ELSE x
             h == [k \in 0..m |-> IF k = m THEN Choice(g[m - 1], m) ELSE g[k]]
  <2> HIDE DEF Choice
  <2>1. g = [k \in 0..(m - 1) |-> IF k = 0 THEN first ELSE Choice(g[k - 1], k)]
    BY <1>1 DEF Passes, Choice
  <2>2. ASSUME NEW k \in 0..m
        PROVE  h[k] = IF k = 0 THEN first ELSE Choice(h[k - 1], k)
    <3>1. CASE k = 0
      BY <1>1, <2>1, <3>1
    <3>2. CASE k > 0 /\ k < m
      <4>1. k \in 0..(m - 1) /\ k - 1 \in 0..m /\ k - 1 # m
        BY <3>2
      <4>2. h[k] = g[k] /\ h[k - 1] = g[k - 1]
        BY <3>2, <4>1
      <4>3. g[k] = Choice(g[k - 1], k)
        BY <2>1, <3>2, <4>1
      <4> QED
        BY <3>2, <4>2, <4>3
    <3>3. CASE k > 0 /\ k = m
      BY <1>1, <3>3
    <3> QED
      BY <3>1, <3>2, <3>3
  <2>3. h = [k \in 0..m |-> h[k]]
    OBVIOUS
  <2> HIDE DEF h
  <2>4. h = [k \in 0..m |-> IF k = 0 THEN first ELSE Choice(h[k - 1], k)]
    BY <2>2, <2>3
  <2> QED
    BY <2>4 DEF Passes, Choice
<1>2. \E g : Passes(first, arms, g, 0)
  <2> DEFINE g == [k \in 0..0 |-> first]
  <2>1. \A k \in 0..0 : k = 0
    OBVIOUS
  <2>2. Passes(first, arms, g, 0)
    BY <2>1 DEF Passes
  <2> QED
    BY <2>2
<1>3. Missing = {}
  <2> SUFFICES ASSUME Missing # {} PROVE FALSE
    OBVIOUS
  <2>1. PICK m \in Missing : \A k \in Missing : m <= k
    BY LeastOf
  <2>2. m \in Nat /\ m # 0 /\ ~ \E g : Passes(first, arms, g, m)
    BY <1>2, <2>1
  <2>3. m - 1 \in Nat /\ m - 1 \notin Missing
    BY <2>1, <2>2
  <2>4. PICK g : Passes(first, arms, g, m - 1)
    BY <2>3
  <2> QED
    BY <1>1, <2>2, <2>4
<1> QED
  BY <1>3

\* min() is the last of these.
LEMMA MinOfIs ==
  ASSUME NEW first, NEW arms, Len(arms) \in Nat
  PROVE  \E g : Passes(first, arms, g, Len(arms)) /\ MinOf(first, arms) = g[Len(arms)]
<1> DEFINE n == Len(arms)
           best == CHOOSE g : Passes(first, arms, g, n)
<1>1. \E g : Passes(first, arms, g, n)
  BY PassesExist
<1>2. Passes(first, arms, best, n)
  BY <1>1
<1>3. MinOf(first, arms) = best[n]
  BY DEF MinOf, Passes
<1> QED
  BY <1>2, <1>3

\* Every arm that min() has come past is no faster than the one it has chosen.
LEMMA PassesKeepTheLeast ==
  ASSUME NEW n \in Nat \ {0}, NEW first \in Arm, NEW arms \in [1..n -> Arm],
         \A arm \in Arm : MedianBy(arm) \in Nat,
         NEW g, Passes(first, arms, g, n)
  PROVE  /\ g[n] \in Arm
         /\ \A j \in 1..n : MedianBy(g[n]) <= MedianBy(arms[j])
<1> DEFINE Holds(k) == g[k] \in Arm /\ \A j \in 1..k : MedianBy(g[k]) <= MedianBy(arms[j])
           Fails == {k \in 0..n : ~Holds(k)}
<1>1. \A k \in 0..n : g[k] = IF k = 0 THEN first
                             ELSE IF Less(MedianBy(arms[k]), MedianBy(g[k - 1])) THEN arms[k] ELSE g[k - 1]
  BY DEF Passes
<1>2. Holds(0)
  BY <1>1
<1>3. ASSUME NEW k \in 1..n, Holds(k - 1) PROVE Holds(k)
  <2>1. /\ arms[k] \in Arm /\ g[k - 1] \in Arm
        /\ g[k] = IF Less(MedianBy(arms[k]), MedianBy(g[k - 1])) THEN arms[k] ELSE g[k - 1]
    BY <1>1, <1>3
  <2> DEFINE new == MedianBy(arms[k])
             old == MedianBy(g[k - 1])
  <2>2. new \in Nat /\ old \in Nat
    BY <2>1
  <2>3. MedianBy(g[k]) = IF new < old THEN new ELSE old
    BY <2>1, <2>2 DEF Less, NaN
  <2>4. \A j \in 1..(k - 1) : old <= MedianBy(arms[j]) /\ MedianBy(arms[j]) \in Nat
    BY <1>3
  <2> HIDE DEF old
  <2>5. ASSUME NEW j \in 1..k PROVE MedianBy(g[k]) <= MedianBy(arms[j])
    <3>1. CASE j = k
      BY <2>2, <2>3, <3>1
    <3>2. CASE j # k
      <4>1. j \in 1..(k - 1)
        BY <3>2
      <4> HIDE DEF new
      <4> QED
        BY <2>2, <2>3, <2>4, <4>1
    <3> QED
      BY <3>1, <3>2
  <2> QED
    BY <2>1, <2>5
<1> HIDE DEF Holds
<1>4. Fails = {}
  <2> SUFFICES ASSUME Fails # {} PROVE FALSE
    OBVIOUS
  <2>0. Fails \subseteq Nat
    OBVIOUS
  <2>1. PICK k \in Fails : \A j \in Fails : k <= j
    <3> HIDE DEF Fails
    <3> QED
      BY <2>0, LeastOf
  <2>2. k \in 1..n /\ ~Holds(k)
    BY <1>2, <2>1
  <2>3. k - 1 \in 0..n /\ k - 1 \notin Fails
    BY <2>1, <2>2
  <2> QED
    BY <1>3, <2>2, <2>3
<1>5. Holds(n)
  BY <1>4
<1> QED
  BY <1>5 DEF Holds

\* "A missing arm must not win" (budget.py:69): a layout is called the fastest
\* only when all of them have rows, and then none has a smaller median, however
\* many layouts and repeats there are.
THEOREM MissingArmsNeverWin == Spec => []MissingArmNeverWins
<1>1. RowsInv => MissingArmNeverWins
  <2> SUFFICES ASSUME RowsInv, Best # Undecided
               PROVE  \A arm \in Arm : Good(arm) # {} /\ MedianBy(Best) <= MedianBy(arm)
    BY DEF MissingArmNeverWins
  <2>1. \A arm \in Arm : MedianBy(arm) # NaN
    BY DEF Best
  <2>2. \A arm \in Arm : Good(arm) # {}
    BY <2>1, MedianOfArm
  <2>3. \A arm \in Arm : MedianBy(arm) \in Nat
    BY <2>2, MedianIsNumber
  <2> DEFINE arms == [k \in Arm |-> k]
  <2>4. Best = MinOf(1, arms)
    BY <2>1 DEF Best, BestOfAll
  <2>5. /\ Arms \in Nat \ {0} /\ 1 \in Arm
        /\ arms \in [1..Arms -> Arm] /\ Len(arms) = Arms
        /\ \A k \in Arm : arms[k] = k
    BY SummariesAssumption DEF SummariesAssumption, Arm
  <2> HIDE DEF arms
  <2>6. PICK g : Passes(1, arms, g, Arms) /\ MinOf(1, arms) = g[Arms]
    BY <2>5, MinOfIs
  <2>7. \A j \in 1..Arms : MedianBy(g[Arms]) <= MedianBy(arms[j])
    BY <2>3, <2>5, <2>6, PassesKeepTheLeast
  <2>8. \A arm \in Arm : MedianBy(Best) <= MedianBy(arm)
    BY <2>4, <2>5, <2>6, <2>7 DEF Arm
  <2> QED
    BY <2>2, <2>8
<1> QED
  BY <1>1, RowsAtFirst, RowsAreKept, PTL DEF Spec
=============================================================================
