---------------------------- MODULE ResultsProofs ----------------------------
(***************************************************************************)
(* What becomes of the latencies: the statistics of the recorders, the     *)
(* result file and the final summary.                                      *)
(***************************************************************************)
EXTENDS CSVWriter, SummaryPrinter, FoldLemmas, SequenceTheorems

Bag == [Latency -> Nat]

\* What is the least of a set of naturals, or the greatest, is its Min or Max.
LEMMA MinIs ==
  ASSUME NEW S \in SUBSET Nat, NEW x \in S, \A y \in S : x <= y
  PROVE  Min(S) = x
<1>1. \A z \in S : (\A y \in S : z <= y) => z = x
  <2> SUFFICES ASSUME NEW z \in S, \A y \in S : z <= y PROVE z = x
    OBVIOUS
  <2>1. z <= x /\ x <= z /\ x \in Nat /\ z \in Nat
    OBVIOUS
  <2> QED
    BY <2>1
<1> QED
  BY <1>1 DEF Min

LEMMA MaxIs ==
  ASSUME NEW S \in SUBSET Nat, NEW x \in S, \A y \in S : y <= x
  PROVE  Max(S) = x
<1>1. \A z \in S : (\A y \in S : y <= z) => z = x
  <2> SUFFICES ASSUME NEW z \in S, \A y \in S : y <= z PROVE z = x
    OBVIOUS
  <2>1. z <= x /\ x <= z /\ x \in Nat /\ z \in Nat
    OBVIOUS
  <2> QED
    BY <2>1
<1> QED
  BY <1>1 DEF Max

\* A set of naturals that has an element has its Min.
LEMMA MinOf ==
  ASSUME NEW S \in SUBSET Nat, S # {}
  PROVE  Min(S) \in S /\ \A y \in S : Min(S) <= y
BY LeastElement DEF Min

-----------------------------------------------------------------------------
(* A bag of latencies, and the vector sorted from it *)

\* The position behind the last v of the sorted vector.
LEMMA UpToType ==
  ASSUME NEW bag \in Bag
  PROVE  /\ Count(bag) \in Nat
         /\ Count(bag) = SumFunctionOnSet(bag, Latency)
         /\ \A v \in Latency : UpTo(bag, v) \in Nat /\ UpTo(bag, v) <= Count(bag)
<1>1. IsFiniteSet(Latency) /\ (\A v \in Latency : bag[v] \in Nat) /\ DOMAIN bag = Latency
  BY MetricsAssumption DEF Bag
<1>2. Count(bag) = SumFunctionOnSet(bag, Latency)
  BY <1>1 DEF Count, SumFunction
<1>3. Count(bag) \in Nat
  BY <1>1, <1>2, SumType
<1>4. ASSUME NEW v \in Latency PROVE UpTo(bag, v) \in Nat /\ UpTo(bag, v) <= Count(bag)
  <2> DEFINE T == {w \in Latency : w <= v}
  <2>1. T \in SUBSET Latency /\ IsFiniteSet(T) /\ \A w \in T : bag[w] \in Nat
    BY <1>1, FS_Subset
  <2>2. SumFunctionOnSet(bag, T) \in Nat
    BY <2>1, SumType
  <2>3. SumFunctionOnSet(bag, T) <= SumFunctionOnSet(bag, Latency)
    BY <1>1, <2>1, SumWhere
  <2> QED
    BY <1>2, <2>2, <2>3 DEF UpTo
<1> QED
  BY <1>2, <1>3, <1>4

\* What comes before the first v: nothing, or all up to the recorded latency
\* that precedes it.
LEMMA UpToBefore ==
  ASSUME NEW bag \in Bag, NEW v \in Latency
  PROVE  /\ \A w \in Latency : w < v => UpTo(bag, w) <= UpTo(bag, v) - bag[v]
         /\ \/ UpTo(bag, v) - bag[v] = 0
            \/ \E w \in Recorded(bag) : w < v /\ UpTo(bag, v) - bag[v] = UpTo(bag, w)
<1> DEFINE Sum(T) == SumFunctionOnSet(bag, T)
           To(w) == {x \in Latency : x <= w}
           Below == {x \in Latency : x < v}
           Seen == {x \in Recorded(bag) : x < v}
<1>1. IsFiniteSet(Latency) /\ Latency \subseteq Nat /\ \A x \in Latency : bag[x] \in Nat
  BY MetricsAssumption DEF Bag
<1>0. \A x, y, z \in Latency :
        /\ x <= y /\ y < z => x < z
        /\ x <= y <=> x < y \/ x = y
        /\ ~ (x < x)
  <2> SUFFICES ASSUME NEW x \in Latency, NEW y \in Latency, NEW z \in Latency
               PROVE  /\ x <= y /\ y < z => x < z
                      /\ x <= y <=> x < y \/ x = y
                      /\ ~ (x < x)
    OBVIOUS
  <2>1. x \in Nat /\ y \in Nat /\ z \in Nat
    BY <1>1
  <2> QED
    BY <2>1
<1>2. \A T \in SUBSET Latency : IsFiniteSet(T) /\ \A x \in T : bag[x] \in Nat
  BY <1>1, FS_Subset
<1>3. \A T \in SUBSET Latency : Sum(T) \in Nat
  BY <1>2, SumType
<1>4. \A T \in SUBSET Latency, W \in SUBSET Latency :
         W \subseteq T => /\ Sum(W) <= Sum(T)
                          /\ (\A x \in T \ W : bag[x] = 0) => Sum(W) = Sum(T)
  BY <1>2, SumWhere
<1>5. Sum(To(v)) = bag[v] + Sum(Below)
  <2>1. To(v) \in SUBSET Latency /\ v \in To(v)
    BY <1>1
  <2>2. IsFiniteSet(To(v)) /\ \A x \in To(v) : bag[x] \in Nat
    BY <1>2, <2>1
  <2>3. Sum(To(v)) = bag[v] + Sum(To(v) \ {v})
    BY <2>1, <2>2, SumRemove
  <2>4. To(v) \ {v} = Below
    BY <1>0
  <2> QED
    BY <2>3, <2>4
<1>6. Below \in SUBSET Latency /\ Seen \in SUBSET Below /\ \A w \in Latency : To(w) \in SUBSET Latency
  BY DEF Recorded
<1>7. UpTo(bag, v) - bag[v] = Sum(Below)
  BY <1>1, <1>3, <1>5, <1>6 DEF UpTo
<1>8. ASSUME NEW w \in Latency, w < v PROVE UpTo(bag, w) <= UpTo(bag, v) - bag[v]
  <2>1. To(w) \subseteq Below
    BY <1>0, <1>8
  <2>2. Sum(To(w)) <= Sum(Below)
    BY <1>4, <1>6, <2>1
  <2> QED
    BY <1>7, <2>2 DEF UpTo
<1>9. CASE Seen = {}
  <2>1. \A x \in Below \ {} : bag[x] = 0
    BY <1>1, <1>9 DEF Recorded
  <2>2. Sum({}) = Sum(Below)
    BY <1>4, <1>6, <2>1
  <2> QED
    BY <1>7, <1>8, <2>2, SumEmpty
<1>10. CASE Seen # {}
  <2>1. Seen \in SUBSET Nat /\ IsFiniteSet(Seen)
    BY <1>1, <1>2, <1>6
  <2>2. PICK w \in Seen : \A x \in Seen : x <= w
    BY <1>10, <2>1, GreatestElement
  <2>3. w \in Recorded(bag) /\ w \in Latency /\ w < v
    BY DEF Recorded
  <2>4. To(w) \subseteq Below
    BY <1>0, <2>3
  <2>5. \A x \in Below \ To(w) : bag[x] = 0
    <3> SUFFICES ASSUME NEW x \in Below \ To(w), bag[x] > 0 PROVE FALSE
      BY <1>1
    <3>1. x \in Seen
      BY DEF Recorded
    <3> QED
      BY <2>2, <3>1
  <2>6. Sum(To(w)) = Sum(Below)
    BY <1>4, <1>6, <2>3, <2>4, <2>5
  <2> QED
    BY <1>7, <1>8, <2>3, <2>6 DEF UpTo
<1> QED
  BY <1>9, <1>10

\* The last of the sorted vector is the greatest recorded latency.
LEMMA UpToLast ==
  ASSUME NEW bag \in Bag, Count(bag) # 0
  PROVE  /\ Recorded(bag) # {}
         /\ \A v \in Recorded(bag) :
              (\A w \in Recorded(bag) : w <= v) => UpTo(bag, v) = Count(bag)
<1>1. IsFiniteSet(Latency) /\ Latency \subseteq Nat /\ \A x \in Latency : bag[x] \in Nat
  BY MetricsAssumption DEF Bag
<1>2. ASSUME NEW T \in SUBSET Latency, \A x \in Latency \ T : bag[x] = 0
      PROVE  SumFunctionOnSet(bag, T) = Count(bag)
  BY <1>1, <1>2, SumWhere, UpToType
<1>3. Recorded(bag) # {}
  <2> SUFFICES ASSUME Recorded(bag) = {} PROVE FALSE
    OBVIOUS
  <2>1. \A x \in Latency \ {} : bag[x] = 0
    BY <1>1 DEF Recorded
  <2>2. SumFunctionOnSet(bag, {}) = Count(bag)
    BY <1>2, <2>1
  <2> QED
    BY <2>2, SumEmpty
<1>4. ASSUME NEW v \in Recorded(bag), \A w \in Recorded(bag) : w <= v
      PROVE  UpTo(bag, v) = Count(bag)
  <2> DEFINE T == {w \in Latency : w <= v}
  <2>1. \A x \in Latency \ T : bag[x] = 0
    BY <1>1, <1>4 DEF Recorded
  <2>2. SumFunctionOnSet(bag, T) = Count(bag)
    BY <1>2, <2>1
  <2> QED
    BY <2>2 DEF UpTo
<1> QED
  BY <1>3, <1>4

Reached(bag, p) == {v \in Recorded(bag) : 100 * UpTo(bag, v) >= p * Count(bag)}

\* The rank of a percentile, rounded up, less one: an index of the vector, and
\* p percent of the elements come no later.
LEMMA RankRoundsUp ==
  ASSUME NEW n \in Nat \ {0}, NEW p \in Percent
  PROVE  LET index == ((p * n + 99) \div 100) - 1
         IN  /\ index \in 0 .. n - 1
             /\ \A k \in Nat : 100 * k >= p * n <=> index < k
<1>1. ASSUME p = 50 PROVE LET index == ((p * n + 99) \div 100) - 1
         IN  /\ index \in 0 .. n - 1
             /\ \A k \in Nat : 100 * k >= p * n <=> index < k
  BY <1>1
<1>2. ASSUME p = 95 PROVE LET index == ((p * n + 99) \div 100) - 1
         IN  /\ index \in 0 .. n - 1
             /\ \A k \in Nat : 100 * k >= p * n <=> index < k
  BY <1>2
<1>3. ASSUME p = 99 PROVE LET index == ((p * n + 99) \div 100) - 1
         IN  /\ index \in 0 .. n - 1
             /\ \A k \in Nat : 100 * k >= p * n <=> index < k
  BY <1>3
<1> QED
  BY <1>1, <1>2, <1>3 DEF Percent

\* No two values can be at one index.
LEMMA AtIs ==
  ASSUME NEW bag \in Bag, NEW index \in Nat, NEW v \in Latency,
         bag[v] > 0, UpTo(bag, v) - bag[v] <= index, index < UpTo(bag, v)
  PROVE  At(bag, index) = v
<1> DEFINE Is(w) == bag[w] > 0 /\ UpTo(bag, w) - bag[w] <= index /\ index < UpTo(bag, w)
<1>1. Latency \subseteq Nat /\ \A x \in Latency : bag[x] \in Nat /\ UpTo(bag, x) \in Nat
  BY MetricsAssumption, UpToType DEF Bag
<1>2. ASSUME NEW w \in Latency, NEW x \in Latency, Is(w), Is(x), w < x PROVE FALSE
  <2>1. UpTo(bag, w) <= UpTo(bag, x) - bag[x]
    BY <1>2, UpToBefore
  <2> QED
    BY <1>1, <1>2, <2>1
<1>3. \A w \in Latency : Is(w) => w = v
  <2> SUFFICES ASSUME NEW w \in Latency, Is(w), w # v PROVE FALSE
    OBVIOUS
  <2>1. w < v \/ v < w
    <3>1. w \in Nat /\ v \in Nat
      BY <1>1
    <3> QED
      BY <3>1
  <2> QED
    BY <1>2, <2>1
<1> QED
  BY <1>3 DEF At

\* percentile() is the least of the recorded latencies that p percent of the
\* operations did not exceed.
LEMMA PercentileIs ==
  ASSUME NEW bag \in Bag, NEW p \in Percent, Count(bag) # 0
  PROVE  /\ Reached(bag, p) # {}
         /\ Percentile(bag, p) = Min(Reached(bag, p))
         /\ Percentile(bag, p) \in Recorded(bag)
<1> DEFINE index == ((p * Count(bag) + 99) \div 100) - 1
           m == Min(Reached(bag, p))
<1>1. IsFiniteSet(Latency) /\ Latency \subseteq Nat /\ \A x \in Latency : bag[x] \in Nat
  BY MetricsAssumption DEF Bag
<1>2. Count(bag) \in Nat \ {0} /\ \A x \in Latency : UpTo(bag, x) \in Nat
  BY UpToType
<1>3. index \in 0 .. Count(bag) - 1 /\ \A k \in Nat : 100 * k >= p * Count(bag) <=> index < k
  BY <1>2, RankRoundsUp
<1> HIDE DEF index
<1>4. Recorded(bag) \in SUBSET Latency /\ Recorded(bag) \in SUBSET Nat
  BY <1>1 DEF Recorded
<1>5. \A v \in Recorded(bag) : v \in Reached(bag, p) <=> index < UpTo(bag, v)
  BY <1>2, <1>3, <1>4 DEF Reached
<1>6. Reached(bag, p) \in SUBSET Nat /\ Reached(bag, p) \in SUBSET Recorded(bag)
  BY <1>4 DEF Reached
<1>7. Reached(bag, p) # {}
  <2>1. IsFiniteSet(Recorded(bag)) /\ Recorded(bag) # {}
    BY <1>1, <1>4, FS_Subset, UpToLast
  <2>2. PICK v \in Recorded(bag) : \A w \in Recorded(bag) : w <= v
    BY <1>4, <2>1, GreatestElement
  <2>3. UpTo(bag, v) = Count(bag)
    BY <2>2, UpToLast
  <2>4. index < Count(bag)
    BY <1>2, <1>3
  <2> QED
    BY <1>5, <2>3, <2>4
<1>8. m \in Reached(bag, p) /\ \A w \in Reached(bag, p) : m <= w
  BY <1>6, <1>7, MinOf
<1> HIDE DEF m
<1>9. m \in Recorded(bag) /\ m \in Latency /\ bag[m] > 0 /\ index < UpTo(bag, m)
  BY <1>4, <1>5, <1>6, <1>8 DEF Recorded
<1>10. UpTo(bag, m) - bag[m] <= index
  <2>1. index \in Nat
    BY <1>2, <1>3
  <2>2. ASSUME NEW w \in Recorded(bag), w < m PROVE UpTo(bag, w) <= index
    <3>1. w \in Nat /\ m \in Nat /\ UpTo(bag, w) \in Nat
      BY <1>1, <1>2, <1>4, <1>9
    <3>2. w \notin Reached(bag, p)
      BY <1>8, <2>2, <3>1
    <3>3. ~ (index < UpTo(bag, w))
      BY <1>5, <3>2
    <3> QED
      BY <2>1, <3>1, <3>3
  <2>3. \/ UpTo(bag, m) - bag[m] = 0
        \/ \E w \in Recorded(bag) : w < m /\ UpTo(bag, m) - bag[m] = UpTo(bag, w)
    BY <1>9, UpToBefore
  <2> QED
    BY <2>1, <2>2, <2>3
<1>11. At(bag, index) = m
  <2>1. index \in Nat
    BY <1>2, <1>3
  <2> QED
    BY <1>9, <1>10, <2>1, AtIs
<1>12. (IF index < Count(bag) - 1 THEN index ELSE Count(bag) - 1) = index
  BY <1>2, <1>3
<1>13. Percentile(bag, p) = m
  BY <1>11, <1>12 DEF Percentile, index
<1> QED
  BY <1>7, <1>9, <1>13 DEF m

-----------------------------------------------------------------------------
(* All recorders together *)

RecordersTypeOK == latencies_us \in [Recorder -> Bag]

\* Every recorder stays a bag of latencies.
LEMMA RecordersTypeStep ==
  ASSUME RecordersTypeOK, [RecordersNext]_latencies_us
  PROVE  RecordersTypeOK'
<1> USE DEF RecordersTypeOK, Bag
<1>1. ASSUME NEW t \in Recorder, NEW v \in Latency, Record(t, v) PROVE RecordersTypeOK'
  BY <1>1, MetricsAssumption DEF Record
<1>2. ASSUME NEW t \in Recorder, Reset(t) PROVE RecordersTypeOK'
  BY <1>2 DEF Reset, Empty
<1>3. CASE UNCHANGED latencies_us
  BY <1>3
<1> QED
  BY <1>1, <1>2, <1>3 DEF RecordersNext

LEMMA RecordersTypeInv == RecordersSpec => []RecordersTypeOK
<1>1. RecordersInit => RecordersTypeOK
  BY DEF RecordersInit, RecordersTypeOK, Empty, Bag
<1> QED
  BY <1>1, RecordersTypeStep, PTL DEF RecordersSpec

\* The percentiles of a recorder are nearest-rank percentiles, whatever it has
\* recorded.
THEOREM NearestRank == RecordersSpec => []PercentileIsNearestRank
<1>1. RecordersTypeOK => PercentileIsNearestRank
  <2> SUFFICES ASSUME RecordersTypeOK, NEW t \in Recorder, NEW p \in Percent,
                      Count(latencies_us[t]) # 0
               PROVE  Percentile(latencies_us[t], p) = Min(Reached(latencies_us[t], p))
    BY DEF PercentileIsNearestRank, Reached
  <2>1. latencies_us[t] \in Bag
    BY DEF RecordersTypeOK
  <2> QED
    BY <2>1, PercentileIs
<1> QED
  BY <1>1, RecordersTypeInv, PTL

\* A sum is positive if one of what it adds is.
LEMMA SumPositive ==
  ASSUME NEW S, IsFiniteSet(S), NEW f, \A x \in S : f[x] \in Nat
  PROVE  SumFunctionOnSet(f, S) > 0 <=> \E x \in S : f[x] > 0
<1>1. SumFunctionOnSet(f, S) \in Nat
  BY SumType
<1>2. ASSUME NEW x \in S, f[x] > 0 PROVE SumFunctionOnSet(f, S) > 0
  <2>1. IsFiniteSet(S \ {x}) /\ \A y \in S \ {x} : f[y] \in Nat
    BY FS_Subset
  <2>2. SumFunctionOnSet(f, S \ {x}) \in Nat
    BY <2>1, SumType
  <2>3. SumFunctionOnSet(f, S) = f[x] + SumFunctionOnSet(f, S \ {x})
    BY SumRemove
  <2> QED
    BY <1>2, <2>2, <2>3
<1>3. ASSUME \A x \in S : ~ (f[x] > 0) PROVE SumFunctionOnSet(f, S) = 0
  <2>1. {} \in SUBSET S /\ \A x \in S \ {} : f[x] = 0
    BY <1>3
  <2>2. SumFunctionOnSet(f, {}) = SumFunctionOnSet(f, S)
    BY <2>1, SumWhere
  <2> QED
    BY <2>2, SumEmpty
<1> QED
  BY <1>1, <1>2, <1>3

\* Pooling the latencies of the recorders loses none and adds none.
LEMMA PooledIsAll ==
  ASSUME RecordersTypeOK
  PROVE  /\ Pooled \in Bag
         /\ Count(Pooled) = SumFunction([t \in Recorder |-> Count(latencies_us[t])])
         /\ Recorded(Pooled) = UNION {Recorded(latencies_us[t]) : t \in Recorder}
<1> DEFINE at(v) == [t \in Recorder |-> latencies_us[t][v]]
<1>1. IsFiniteSet(Recorder) /\ IsFiniteSet(Latency)
  BY MetricsAssumption
<1>2. \A t \in Recorder : latencies_us[t] \in Bag /\ \A v \in Latency : latencies_us[t][v] \in Nat
  BY DEF RecordersTypeOK, Bag
<1>3. \A v \in Latency : Pooled[v] = SumFunctionOnSet(at(v), Recorder)
  BY DEF Pooled, SumFunction
<1>4. ASSUME NEW v \in Latency
      PROVE  Pooled[v] \in Nat /\ (Pooled[v] > 0 <=> \E t \in Recorder : latencies_us[t][v] > 0)
  <2>1. \A t \in Recorder : at(v)[t] \in Nat /\ at(v)[t] = latencies_us[t][v]
    BY <1>2
  <2> HIDE DEF at
  <2>2. SumFunctionOnSet(at(v), Recorder) \in Nat
    BY <1>1, <2>1, SumType
  <2>3. SumFunctionOnSet(at(v), Recorder) > 0 <=> \E t \in Recorder : at(v)[t] > 0
    BY <1>1, <2>1, SumPositive
  <2> QED
    BY <1>3, <2>1, <2>2, <2>3
<1>5. Pooled \in Bag
  BY <1>4 DEF Pooled, Bag
<1>6. Count(Pooled) = SumFunction([t \in Recorder |-> Count(latencies_us[t])])
  <2>1. SumFunctionOnSet([t \in Recorder |-> SumFunctionOnSet(latencies_us[t], Latency)], Recorder)
          = SumFunctionOnSet([v \in Latency |-> SumFunctionOnSet(at(v), Recorder)], Latency)
    BY <1>1, <1>2, SumSwap
  <2>2. Pooled = [v \in Latency |-> SumFunctionOnSet(at(v), Recorder)]
    BY DEF Pooled, SumFunction
  <2>3. Count(Pooled) = SumFunctionOnSet(Pooled, Latency)
    BY <1>5, UpToType
  <2>4. [t \in Recorder |-> Count(latencies_us[t])]
          = [t \in Recorder |-> SumFunctionOnSet(latencies_us[t], Latency)]
    BY <1>2, UpToType
  <2>5. SumFunction([t \in Recorder |-> Count(latencies_us[t])])
          = SumFunctionOnSet([t \in Recorder |-> Count(latencies_us[t])], Recorder)
    BY DEF SumFunction
  <2> QED
    BY <2>1, <2>2, <2>3, <2>4, <2>5
<1>7. Recorded(Pooled) = UNION {Recorded(latencies_us[t]) : t \in Recorder}
  BY <1>4 DEF Recorded
<1> QED
  BY <1>5, <1>6, <1>7

\* What merge_thread_results makes of the latencies.
LEMMA MergedIs ==
  /\ merged.total_ops = SumFunction([t \in Recorder |-> Count(latencies_us[t])])
  /\ merged.min_us = Min({MinUs(latencies_us[t]) : t \in Recorder})
  /\ merged.max_us = Max({MaxUs(latencies_us[t]) : t \in Recorder})
  /\ \A p \in Percent :
       merged.percentile[p] =
         SumFunction([t \in Recorder |-> Count(latencies_us[t]) * Percentile(latencies_us[t], p)])
<1> DEFINE stats == [t \in Recorder |-> Stats(latencies_us[t])]
<1>1. \A t \in Recorder :
        /\ stats[t].total_ops = Count(latencies_us[t])
        /\ stats[t].min_us = MinUs(latencies_us[t])
        /\ stats[t].max_us = MaxUs(latencies_us[t])
        /\ \A p \in Percent : stats[t].percentile[p] = Percentile(latencies_us[t], p)
  BY DEF Stats
<1> HIDE DEF stats
<1>2. merged = MergeThreadResults(stats)
  BY DEF merged, stats
<1>3. merged.total_ops = SumFunction([t \in Recorder |-> Count(latencies_us[t])])
  <2>1. [t \in Recorder |-> stats[t].total_ops] = [t \in Recorder |-> Count(latencies_us[t])]
    BY <1>1
  <2>2. merged.total_ops = SumFunction([t \in Recorder |-> stats[t].total_ops])
    BY <1>2 DEF MergeThreadResults
  <2> QED
    BY <2>1, <2>2
<1>4. merged.min_us = Min({MinUs(latencies_us[t]) : t \in Recorder})
  <2>1. {stats[t].min_us : t \in Recorder} = {MinUs(latencies_us[t]) : t \in Recorder}
    BY <1>1
  <2>2. merged.min_us = Min({stats[t].min_us : t \in Recorder})
    BY <1>2 DEF MergeThreadResults
  <2> QED
    BY <2>1, <2>2, Zenon
<1>5. merged.max_us = Max({MaxUs(latencies_us[t]) : t \in Recorder})
  <2>1. {stats[t].max_us : t \in Recorder} = {MaxUs(latencies_us[t]) : t \in Recorder}
    BY <1>1
  <2>2. merged.max_us = Max({stats[t].max_us : t \in Recorder})
    BY <1>2 DEF MergeThreadResults
  <2> QED
    BY <2>1, <2>2, Zenon
<1>6. ASSUME NEW p \in Percent
      PROVE  merged.percentile[p] =
               SumFunction([t \in Recorder |-> Count(latencies_us[t]) * Percentile(latencies_us[t], p)])
  <2>1. [t \in Recorder |-> Weight(stats[t]) * stats[t].percentile[p]]
          = [t \in Recorder |-> Count(latencies_us[t]) * Percentile(latencies_us[t], p)]
    BY <1>1 DEF Weight
  <2>2. merged.percentile[p] = SumFunction([t \in Recorder |-> Weight(stats[t]) * stats[t].percentile[p]])
    BY <1>2 DEF MergeThreadResults
  <2> QED
    BY <2>1, <2>2
<1> QED
  BY <1>3, <1>4, <1>5, <1>6

\* The extremes of a bag that is not empty.
LEMMA Extremes ==
  ASSUME NEW bag \in Bag, Count(bag) # 0
  PROVE  /\ Recorded(bag) \in SUBSET Nat /\ Recorded(bag) # {}
         /\ MinUs(bag) \in Recorded(bag) /\ \A v \in Recorded(bag) : MinUs(bag) <= v
         /\ MaxUs(bag) \in Recorded(bag) /\ \A v \in Recorded(bag) : v <= MaxUs(bag)
<1>1. Recorded(bag) \in SUBSET Nat /\ IsFiniteSet(Recorded(bag))
  <2>1. Recorded(bag) \subseteq Latency /\ Latency \subseteq Nat /\ IsFiniteSet(Latency)
    BY MetricsAssumption DEF Recorded
  <2> QED
    BY <2>1, FS_Subset
<1>2. Recorded(bag) # {}
  BY UpToLast
<1>3. Min(Recorded(bag)) \in Recorded(bag) /\ \A v \in Recorded(bag) : Min(Recorded(bag)) <= v
  BY <1>1, <1>2, MinOf
<1>4. Max(Recorded(bag)) \in Recorded(bag) /\ \A v \in Recorded(bag) : v <= Max(Recorded(bag))
  BY <1>1, <1>2, MaxOf
<1> QED
  BY <1>1, <1>2, <1>3, <1>4 DEF MinUs, MaxUs

\* A higher percentile is not less.
LEMMA PercentileOrder ==
  ASSUME NEW bag \in Bag, Count(bag) # 0, NEW p \in Percent, NEW q \in Percent, p <= q
  PROVE  Percentile(bag, p) <= Percentile(bag, q)
<1>1. Percentile(bag, q) \in Reached(bag, q)
  <2>1. Reached(bag, q) \in SUBSET Nat
    BY Extremes DEF Reached
  <2> QED
    BY <2>1, PercentileIs, MinOf
<1>2. Reached(bag, q) \subseteq Reached(bag, p)
  <2> SUFFICES ASSUME NEW v \in Recorded(bag), 100 * UpTo(bag, v) >= q * Count(bag)
               PROVE  100 * UpTo(bag, v) >= p * Count(bag)
    BY DEF Reached
  <2>1. UpTo(bag, v) \in Nat /\ Count(bag) \in Nat
    BY UpToType DEF Recorded
  <2>2. p * Count(bag) <= q * Count(bag)
    BY <2>1 DEF Percent
  <2>3. p * Count(bag) \in Nat /\ q * Count(bag) \in Nat
    BY <2>1 DEF Percent
  <2> QED
    BY <2>1, <2>2, <2>3
<1>3. Reached(bag, p) \in SUBSET Nat
  BY Extremes DEF Reached
<1> QED
  BY <1>1, <1>2, <1>3, PercentileIs, MinOf

\* Two bounds on a latency bound what a thread adds to the weighted sum.
LEMMA ProductOrder ==
  ASSUME NEW n \in Nat, NEW a \in Nat, NEW b \in Nat, a <= b
  PROVE  n * a \in Nat /\ n * a <= n * b
<1>1. n * b = n * a + n * (b - a) /\ n * (b - a) \in Nat /\ n * a \in Nat
  OBVIOUS
<1>2. n * b \in Nat
  OBVIOUS
<1> QED
  BY <1>1, <1>2

\* What is merged, of bags of latencies.
LEMMA MergedOfAll ==
  ASSUME RecordersTypeOK
  PROVE  MergedStatsAreOfAll
<1> DEFINE L(t) == latencies_us[t]
           total == Count(Pooled)
<1>1. /\ Pooled \in Bag
      /\ total = SumFunctionOnSet([t \in Recorder |-> Count(L(t))], Recorder)
      /\ Recorded(Pooled) = UNION {Recorded(L(t)) : t \in Recorder}
  BY PooledIsAll DEF SumFunction
<1>2. \A t \in Recorder : L(t) \in Bag
  BY DEF RecordersTypeOK
<1>3. IsFiniteSet(Recorder) /\ Recorder # {}
  BY MetricsAssumption
<1>4. total \in Nat /\ \A t \in Recorder : Count(L(t)) \in Nat
  BY <1>1, <1>2, UpToType
<1>5. ASSUME \A t \in Recorder : Count(L(t)) > 0
      PROVE  /\ merged.total_ops = total
             /\ merged.min_us = MinUs(Pooled)
             /\ merged.max_us = MaxUs(Pooled)
  <2>1. merged.total_ops = total
    BY <1>1, MergedIs DEF SumFunction
  <2>2. \A t \in Recorder :
          /\ MinUs(L(t)) \in Recorded(L(t)) /\ \A v \in Recorded(L(t)) : MinUs(L(t)) <= v
          /\ MaxUs(L(t)) \in Recorded(L(t)) /\ \A v \in Recorded(L(t)) : v <= MaxUs(L(t))
    <3> SUFFICES ASSUME NEW t \in Recorder
                 PROVE  /\ MinUs(L(t)) \in Recorded(L(t)) /\ \A v \in Recorded(L(t)) : MinUs(L(t)) <= v
                        /\ MaxUs(L(t)) \in Recorded(L(t)) /\ \A v \in Recorded(L(t)) : v <= MaxUs(L(t))
      OBVIOUS
    <3>1. L(t) \in Bag /\ Count(L(t)) # 0
      BY <1>2, <1>4, <1>5
    <3> QED
      BY <3>1, Extremes
  <2>3. total # 0
    <3>1. IsFiniteSet(Recorder) /\ \A t \in Recorder : [u \in Recorder |-> Count(L(u))][t] \in Nat
      BY <1>3, <1>4
    <3>2. \E t \in Recorder : [u \in Recorder |-> Count(L(u))][t] > 0
      BY <1>3, <1>5
    <3>3. SumFunctionOnSet([t \in Recorder |-> Count(L(t))], Recorder) > 0
      BY <3>1, <3>2, SumPositive
    <3> QED
      BY <1>1, <3>3
  <2>4. /\ Recorded(Pooled) \in SUBSET Nat
        /\ MinUs(Pooled) \in Recorded(Pooled) /\ \A v \in Recorded(Pooled) : MinUs(Pooled) <= v
        /\ MaxUs(Pooled) \in Recorded(Pooled) /\ \A v \in Recorded(Pooled) : v <= MaxUs(Pooled)
    BY <1>1, <2>3, Extremes
  <2> HIDE DEF L, total
  <2>5. Min({MinUs(L(t)) : t \in Recorder}) = MinUs(Pooled)
    <3> DEFINE M == {MinUs(L(t)) : t \in Recorder}
    <3>1. M \in SUBSET Recorded(Pooled) /\ M \in SUBSET Nat
      BY <1>1, <2>2, <2>4
    <3>2. PICK t \in Recorder : MinUs(Pooled) \in Recorded(L(t))
      BY <1>1, <2>4
    <3>3. MinUs(L(t)) <= MinUs(Pooled) /\ MinUs(Pooled) <= MinUs(L(t)) /\ MinUs(L(t)) \in M
      BY <2>2, <2>4, <3>1, <3>2
    <3>4. MinUs(L(t)) \in Nat /\ MinUs(Pooled) \in Nat
      BY <2>4, <3>1, <3>3
    <3>5. MinUs(Pooled) \in M /\ \A y \in M : MinUs(Pooled) <= y
      <4>1. MinUs(L(t)) = MinUs(Pooled)
        BY <3>3, <3>4
      <4> QED
        BY <2>4, <3>1, <3>3, <4>1
    <3> HIDE DEF M
    <3>6. Min(M) = MinUs(Pooled)
      BY <3>1, <3>5, MinIs
    <3> QED
      BY <3>6 DEF M
  <2>6. Max({MaxUs(L(t)) : t \in Recorder}) = MaxUs(Pooled)
    <3> DEFINE M == {MaxUs(L(t)) : t \in Recorder}
    <3>1. M \in SUBSET Recorded(Pooled) /\ M \in SUBSET Nat
      BY <1>1, <2>2, <2>4
    <3>2. PICK t \in Recorder : MaxUs(Pooled) \in Recorded(L(t))
      BY <1>1, <2>4
    <3>3. MaxUs(L(t)) <= MaxUs(Pooled) /\ MaxUs(Pooled) <= MaxUs(L(t)) /\ MaxUs(L(t)) \in M
      BY <2>2, <2>4, <3>1, <3>2
    <3>4. MaxUs(L(t)) \in Nat /\ MaxUs(Pooled) \in Nat
      BY <2>4, <3>1, <3>3
    <3>5. MaxUs(Pooled) \in M /\ \A y \in M : y <= MaxUs(Pooled)
      <4>1. MaxUs(L(t)) = MaxUs(Pooled)
        BY <3>3, <3>4
      <4> QED
        BY <2>4, <3>1, <3>3, <4>1
    <3> HIDE DEF M
    <3>6. Max(M) = MaxUs(Pooled)
      BY <3>1, <3>5, MaxIs
    <3> QED
      BY <3>6 DEF M
  <2> QED
    BY <2>1, <2>5, <2>6, MergedIs DEF L
<1>6. ASSUME total > 0, NEW p \in Percent
      PROVE  /\ MinUs(Pooled) * total <= merged.percentile[p]
             /\ merged.percentile[p] <= MaxUs(Pooled) * total
             /\ \A q \in Percent : p <= q => merged.percentile[p] <= merged.percentile[q]
  <2> DEFINE min == MinUs(Pooled)
             max == MaxUs(Pooled)
             n == [t \in Recorder |-> Count(L(t))]
             w(r) == [t \in Recorder |-> Count(L(t)) * Percentile(L(t), r)]
             least == [t \in Recorder |-> Count(L(t)) * min]
             most == [t \in Recorder |-> Count(L(t)) * max]
  <2>1. /\ Recorded(Pooled) \in SUBSET Nat /\ min \in Nat /\ max \in Nat
        /\ \A v \in Recorded(Pooled) : min <= v /\ v <= max
    BY <1>1, <1>6, Extremes
  <2>2. ASSUME NEW t \in Recorder, NEW r \in Percent
        PROVE  /\ Percentile(L(t), r) \in Nat
               /\ Count(L(t)) # 0 => min <= Percentile(L(t), r) /\ Percentile(L(t), r) <= max
               /\ \A q \in Percent : r <= q => Percentile(L(t), r) <= Percentile(L(t), q)
    <3>1. CASE Count(L(t)) = 0
      BY <3>1 DEF Percentile
    <3>2. CASE Count(L(t)) # 0
      <4>1. Percentile(L(t), r) \in Recorded(Pooled)
        <5>1. Percentile(L(t), r) \in Recorded(L(t))
          BY <1>2, <3>2, PercentileIs
        <5> QED
          BY <1>1, <5>1
      <4>2. \A q \in Percent : r <= q => Percentile(L(t), r) <= Percentile(L(t), q)
        BY <1>2, <3>2, PercentileOrder
      <4> QED
        BY <2>1, <4>1, <4>2
    <3> QED
      BY <3>1, <3>2
  <2> HIDE DEF total, min, max, L
  <2>3. ASSUME NEW t \in Recorder, NEW r \in Percent
        PROVE  /\ w(r)[t] \in Nat /\ least[t] \in Nat /\ most[t] \in Nat
               /\ least[t] <= w(r)[t] /\ w(r)[t] <= most[t]
    <3>1. CASE Count(L(t)) = 0
      BY <2>1, <2>2, <3>1
    <3>2. CASE Count(L(t)) # 0
      <4>1. /\ min <= Percentile(L(t), r) /\ Percentile(L(t), r) <= max
            /\ min \in Nat /\ max \in Nat /\ Percentile(L(t), r) \in Nat /\ Count(L(t)) \in Nat
        BY <1>4, <2>1, <2>2, <3>2
      <4>2. Count(L(t)) * min \in Nat /\ Count(L(t)) * min <= Count(L(t)) * Percentile(L(t), r)
        BY <4>1, ProductOrder
      <4>3. /\ Count(L(t)) * Percentile(L(t), r) \in Nat
            /\ Count(L(t)) * Percentile(L(t), r) <= Count(L(t)) * max
        BY <4>1, ProductOrder
      <4>4. Count(L(t)) * max \in Nat
        BY <4>1
      <4> QED
        BY <4>2, <4>3, <4>4
    <3> QED
      BY <3>1, <3>2
  <2>4. ASSUME NEW t \in Recorder, NEW q \in Percent, p <= q
        PROVE  w(p)[t] <= w(q)[t]
    <3>1. /\ Percentile(L(t), p) <= Percentile(L(t), q) /\ Count(L(t)) \in Nat
          /\ Percentile(L(t), p) \in Nat /\ Percentile(L(t), q) \in Nat
      BY <1>4, <2>2, <2>4
    <3>2. Count(L(t)) * Percentile(L(t), p) <= Count(L(t)) * Percentile(L(t), q)
      BY <3>1, ProductOrder
    <3> QED
      BY <3>2
  <2>5. \A t \in Recorder : n[t] \in Nat /\ least[t] = min * n[t] /\ most[t] = max * n[t]
    BY <1>4, <2>1
  <2>6. total = SumFunctionOnSet(n, Recorder)
    BY <1>1
  <2>7. \A r \in Percent : merged.percentile[r] = SumFunctionOnSet(w(r), Recorder)
    BY MergedIs DEF SumFunction, L
  <2> HIDE DEF n, w, least, most
  <2>8. /\ SumFunctionOnSet(least, Recorder) = min * total
        /\ SumFunctionOnSet(most, Recorder) = max * total
    BY <1>3, <2>1, <2>5, <2>6, SumScale
  <2>9. /\ SumFunctionOnSet(least, Recorder) <= SumFunctionOnSet(w(p), Recorder)
        /\ SumFunctionOnSet(w(p), Recorder) <= SumFunctionOnSet(most, Recorder)
    BY <1>3, <2>3, SumMonotonic
  <2>10. ASSUME NEW q \in Percent, p <= q
         PROVE  SumFunctionOnSet(w(p), Recorder) <= SumFunctionOnSet(w(q), Recorder)
    BY <1>3, <2>3, <2>4, <2>10, SumMonotonic
  <2> QED
    BY <2>7, <2>8, <2>9, <2>10 DEF min, max
<1> QED
  BY <1>5, <1>6 DEF MergedStatsAreOfAll

\* What is merged is about all operations: the count and the extremes are
\* theirs as long as every recorder has one, and a percentile lies between the
\* extremes and below the higher percentiles, whatever the recorders hold.
THEOREM MergedIsOfAll == RecordersSpec => []MergedStatsAreOfAll
BY MergedOfAll, RecordersTypeInv, PTL

-----------------------------------------------------------------------------
(* Sequences *)

\* Induction over sequences, of the set of those that have a property.
LEMMA SeqSetInduction ==
  ASSUME NEW S, NEW F, <<>> \in F,
         \A s \in Seq(S), e \in S : s \in F => Append(s, e) \in F
  PROVE  Seq(S) \subseteq F
<1> DEFINE P == {k \in Nat : \A s \in Seq(S) : Len(s) = k => s \in F}
<1>1. 0 \in P
  <2>1. \A s \in Seq(S) : Len(s) = 0 => s = <<>>
    BY EmptySeq
  <2> QED
    BY <2>1
<1>2. ASSUME NEW k \in Nat, k \in P PROVE k + 1 \in P
  <2> SUFFICES ASSUME NEW s \in Seq(S), Len(s) = k + 1 PROVE s \in F
    OBVIOUS
  <2>1. s # <<>>
    OBVIOUS
  <2>2. PICK r \in Seq(S), e \in S : s = Append(r, e)
    BY <2>1, SequenceEmptyOrAppend
  <2>3. Len(r) = k
    BY <2>2
  <2>4. r \in F
    BY <1>2, <2>3
  <2> QED
    BY <2>2, <2>4
<1> HIDE DEF P
<1>3. Nat \subseteq P
  BY <1>1, <1>2, NatSetInduction
<1>4. \A s \in Seq(S) : Len(s) \in Nat
  OBVIOUS
<1> QED
  BY <1>3, <1>4 DEF P

-----------------------------------------------------------------------------
(* FlattenSeq *)

\* The recursive function of which FlattenSeq takes the last value.
Flattens(f, seqs, n) ==
  f = [i \in 1 .. n |-> IF i = 1 THEN seqs[i] ELSE f[i-1] \o seqs[i]]

LEMMA FlattensAt ==
  ASSUME NEW f, NEW seqs, NEW n, Flattens(f, seqs, n)
  PROVE  \A i \in 1 .. n : f[i] = IF i = 1 THEN seqs[i] ELSE f[i-1] \o seqs[i]
<1> DEFINE F == [i \in 1 .. n |-> IF i = 1 THEN seqs[i] ELSE f[i-1] \o seqs[i]]
<1>1. f = F
  BY DEF Flattens
<1>2. \A i \in 1 .. n : F[i] = IF i = 1 THEN seqs[i] ELSE f[i-1] \o seqs[i]
  OBVIOUS
<1> HIDE DEF F
<1> QED
  BY <1>1, <1>2

\* There is such a function, and only one.
LEMMA FlattenExists ==
  ASSUME NEW seqs, NEW n \in Nat
  PROVE  \E f : Flattens(f, seqs, n)
<1> DEFINE P == {k \in Nat : \E f : Flattens(f, seqs, k)}
<1>1. 0 \in P
  <2>1. Flattens([i \in 1 .. 0 |-> i], seqs, 0)
    BY DEF Flattens
  <2> QED
    BY <2>1
<1>2. ASSUME NEW k \in Nat, k \in P PROVE k + 1 \in P
  <2>1. PICK f : Flattens(f, seqs, k)
    BY <1>2
  <2> DEFINE g == [i \in 1 .. k + 1 |->
                     IF i = k + 1 THEN IF i = 1 THEN seqs[i] ELSE f[k] \o seqs[i] ELSE f[i]]
  <2>2. ASSUME NEW i \in 1 .. k + 1 PROVE g[i] = IF i = 1 THEN seqs[i] ELSE g[i-1] \o seqs[i]
    <3>1. CASE i = k + 1
      BY <3>1
    <3>2. CASE i # k + 1
      <4>1. i \in 1 .. k /\ (i # 1 => i - 1 \in 1 .. k)
        BY <3>2
      <4>2. f[i] = IF i = 1 THEN seqs[i] ELSE f[i-1] \o seqs[i]
        BY <2>1, <4>1 DEF Flattens
      <4>3. g[i] = f[i] /\ (i # 1 => g[i-1] = f[i-1])
        BY <3>2, <4>1
      <4> QED
        BY <4>2, <4>3
    <3> QED
      BY <3>1, <3>2
  <2>3. g = [i \in 1 .. k + 1 |-> g[i]]
    OBVIOUS
  <2> HIDE DEF g
  <2>4. Flattens(g, seqs, k + 1)
    BY <2>2, <2>3 DEF Flattens
  <2> QED
    BY <2>4
<1> HIDE DEF P
<1>3. n \in P
  BY <1>1, <1>2, NatSetInduction
<1> QED
  BY <1>3 DEF P

LEMMA FlattenUnique ==
  ASSUME NEW seqs, NEW more, NEW n, NEW m, NEW f, NEW g,
         Flattens(f, seqs, n), Flattens(g, more, m),
         n \in Nat, m \in Nat, n <= m,
         \A i \in 1 .. n : seqs[i] = more[i]
  PROVE  \A i \in 1 .. n : f[i] = g[i]
<1> DEFINE P == {k \in Nat : k \in 1 .. n => f[k] = g[k]}
<1>1. 0 \in P
  OBVIOUS
<1>2. ASSUME NEW k \in Nat, k \in P PROVE k + 1 \in P
  <2> SUFFICES ASSUME k + 1 \in 1 .. n PROVE f[k + 1] = g[k + 1]
    OBVIOUS
  <2>1. /\ f[k + 1] = IF k + 1 = 1 THEN seqs[k + 1] ELSE f[k + 1 - 1] \o seqs[k + 1]
        /\ g[k + 1] = IF k + 1 = 1 THEN more[k + 1] ELSE g[k + 1 - 1] \o more[k + 1]
    <3>1. k + 1 \in 1 .. n /\ k + 1 \in 1 .. m
      OBVIOUS
    <3> QED
      BY <3>1, FlattensAt
  <2>2. seqs[k + 1] = more[k + 1] /\ k + 1 - 1 = k
    OBVIOUS
  <2>3. CASE k = 0
    BY <2>1, <2>2, <2>3
  <2>4. CASE k # 0
    <3>1. f[k] = g[k] /\ k + 1 # 1
      BY <1>2, <2>4
    <3> QED
      BY <2>1, <2>2, <3>1
  <2> QED
    BY <2>3, <2>4
<1> HIDE DEF P
<1>3. Nat \subseteq P
  BY <1>1, <1>2, NatSetInduction
<1> QED
  BY <1>3 DEF P

LEMMA FlattenIs ==
  ASSUME NEW S, NEW seqs \in Seq(Seq(S)), seqs # <<>>
  PROVE  \E f : Flattens(f, seqs, Len(seqs)) /\ FlattenSeq(seqs) = f[Len(seqs)]
<1> DEFINE f == CHOOSE f : f = [i \in 1 .. Len(seqs) |-> IF i = 1 THEN seqs[i] ELSE f[i-1] \o seqs[i]]
<1>1. Len(seqs) \in Nat /\ Len(seqs) # 0
  BY EmptySeq
<1>2. Flattens(f, seqs, Len(seqs))
  BY <1>1, FlattenExists DEF Flattens
<1>3. FlattenSeq(seqs) = f[Len(seqs)]
  BY <1>1 DEF FlattenSeq
<1> QED
  BY <1>2, <1>3

\* Flattening one sequence more.
LEMMA FlattenAppend ==
  ASSUME NEW S, NEW seqs \in Seq(Seq(S)), NEW s \in Seq(S)
  PROVE  /\ FlattenSeq(<<>>) = <<>>
         /\ FlattenSeq(Append(seqs, s)) = FlattenSeq(seqs) \o s
<1> DEFINE n == Len(seqs)
           more == Append(seqs, s)
<1>1. FlattenSeq(<<>>) = <<>>
  BY DEF FlattenSeq
<1>2. /\ n \in Nat /\ more \in Seq(Seq(S)) /\ more # <<>> /\ Len(more) = n + 1
      /\ more[n + 1] = s /\ \A i \in 1 .. n : seqs[i] = more[i]
  <2>1. n \in Nat
    OBVIOUS
  <2> QED
    BY <2>1, AppendProperties
<1> HIDE DEF more
<1>3. PICK g : Flattens(g, more, n + 1) /\ FlattenSeq(more) = g[n + 1]
  <2>1. \E g : Flattens(g, more, Len(more)) /\ FlattenSeq(more) = g[Len(more)]
    BY <1>2, FlattenIs
  <2> QED
    BY <1>2, <2>1
<1>4. g[n + 1] = IF n + 1 = 1 THEN s ELSE g[n + 1 - 1] \o s
  <2>1. n + 1 \in 1 .. n + 1
    BY <1>2
  <2> QED
    BY <1>2, <1>3, <2>1, FlattensAt
<1>5. CASE n = 0
  <2>1. seqs = <<>>
    BY <1>5, EmptySeq
  <2>2. FlattenSeq(more) = s
    BY <1>3, <1>4, <1>5
  <2>3. FlattenSeq(seqs) \o s = s
    BY <1>1, <2>1, ConcatEmptySeq
  <2> QED
    BY <1>1, <2>2, <2>3 DEF more
<1>6. CASE n # 0
  <2>1. seqs # <<>>
    BY <1>6
  <2>2. PICK f : Flattens(f, seqs, n) /\ FlattenSeq(seqs) = f[n]
    BY <2>1, FlattenIs
  <2> HIDE DEF n
  <2>3. f[n] = g[n]
    <3> DEFINE m == n + 1
    <3>1. n \in 1 .. n /\ n <= m /\ m \in Nat /\ n \in Nat
      BY <1>2, <1>6
    <3>2. Flattens(g, more, m)
      BY <1>3
    <3> HIDE DEF m
    <3>3. \A i \in 1 .. n : f[i] = g[i]
      <4>1. (\A i \in 1 .. n : seqs[i] = more[i]) /\ Flattens(f, seqs, n)
        BY <1>2, <2>2
      <4> QED
        BY <3>1, <3>2, <4>1, FlattenUnique
    <3> QED
      BY <3>1, <3>3
  <2>4. n + 1 - 1 = n /\ n + 1 # 1
    BY <1>2, <1>6
  <2>5. FlattenSeq(more) = FlattenSeq(seqs) \o s
    BY <1>3, <1>4, <2>2, <2>3, <2>4
  <2> QED
    BY <1>1, <2>5 DEF more
<1> QED
  BY <1>5, <1>6

-----------------------------------------------------------------------------
(* The reader, one character after another *)

\* A set of five characters that has fewer names would have fewer elements.
LEMMA FewCharacters ==
  ASSUME NEW a, NEW b, NEW c, NEW d
  PROVE  Cardinality({a, b, c, d}) <= 4
<1>1. ASSUME NEW S, IsFiniteSet(S), NEW x
      PROVE  IsFiniteSet(S \cup {x}) /\ Cardinality(S \cup {x}) <= Cardinality(S) + 1
  <2>1. Cardinality(S) \in Nat
    BY <1>1, FS_CardinalityType
  <2> QED
    BY <1>1, <2>1, FS_AddElement
<1>2. IsFiniteSet({}) /\ Cardinality({}) = 0
  BY FS_EmptySet
<1>3. IsFiniteSet({a}) /\ Cardinality({a}) <= 1
  BY FS_Singleton
<1>4. IsFiniteSet({a, b}) /\ Cardinality({a, b}) <= Cardinality({a}) + 1
  <2>1. {a, b} = {a} \cup {b}
    OBVIOUS
  <2> QED
    BY <1>1, <1>3, <2>1, Zenon
<1>5. IsFiniteSet({a, b, c}) /\ Cardinality({a, b, c}) <= Cardinality({a, b}) + 1
  <2>1. {a, b, c} = {a, b} \cup {c}
    OBVIOUS
  <2> QED
    BY <1>1, <1>4, <2>1, Zenon
<1>6. IsFiniteSet({a, b, c, d}) /\ Cardinality({a, b, c, d}) <= Cardinality({a, b, c}) + 1
  <2>1. {a, b, c, d} = {a, b, c} \cup {d}
    OBVIOUS
  <2> QED
    BY <1>1, <1>5, <2>1, Zenon
<1>7. /\ Cardinality({a}) \in Nat /\ Cardinality({a, b}) \in Nat
      /\ Cardinality({a, b, c}) \in Nat /\ Cardinality({a, b, c, d}) \in Nat
  BY <1>3, <1>4, <1>5, <1>6, FS_CardinalityType
<1> QED
  BY <1>3, <1>4, <1>5, <1>6, <1>7

\* The characters that matter are different ones.
LEMMA Distinct ==
  Quote # Comma /\ Quote # NewLine /\ Quote # Return /\ Comma # NewLine /\ Comma # Return
<1>1. \A a, b, c, d : Char # {a, b, c, d}
  <2> SUFFICES ASSUME NEW a, NEW b, NEW c, NEW d, Char = {a, b, c, d} PROVE FALSE
    OBVIOUS
  <2>1. Cardinality({a, b, c, d}) = 5
    BY CSVFieldsAssumption
  <2>2. Cardinality({a, b, c, d}) <= 4
    BY FewCharacters
  <2> QED
    BY <2>1, <2>2
<1>2. ASSUME Quote = Comma \/ Quote = NewLine \/ Quote = Return PROVE FALSE
  <2>1. Char = {Comma, NewLine, Return, Other}
    BY <1>2 DEF Char
  <2> QED
    BY <1>1, <2>1
<1>3. ASSUME Comma = NewLine \/ Comma = Return PROVE FALSE
  <2>1. Char = {Quote, NewLine, Return, Other}
    BY <1>3 DEF Char
  <2> QED
    BY <1>1, <2>1
<1> QED
  BY <1>2, <1>3

Field == Seq(Char)

\* A state of the reader: the rows it has ended, the fields it has ended of the
\* present row, the present field, and where it is.
Reading(rows, fields, field, at) == [rows |-> rows, row |-> Append(fields, field), at |-> at]

ReaderState ==
  [rows : Seq(Seq(Field)), row : Seq(Field) \ {<<>>}, at : {"outside", "inside", "behind"}]

\* Every state of the reader has that form.
LEMMA StateIsReading ==
  ASSUME NEW r \in ReaderState
  PROVE  \E fields \in Seq(Field), field \in Field : r = Reading(r.rows, fields, field, r.at)
<1>1. r.row \in Seq(Field) /\ r.row # <<>>
  BY DEF ReaderState
<1>2. PICK fields \in Seq(Field), field \in Field : r.row = Append(fields, field)
  BY <1>1, SequenceEmptyOrAppend
<1>3. r = [rows |-> r.rows, row |-> r.row, at |-> r.at]
  BY DEF ReaderState
<1> QED
  BY <1>2, <1>3 DEF Reading

\* A character is added to the present field.
LEMMA AddReading ==
  ASSUME NEW rows, NEW fields \in Seq(Field), NEW field \in Field, NEW at, NEW c \in Char
  PROVE  Add(Reading(rows, fields, field, at), c) = Reading(rows, fields, Append(field, c), at)
<1> DEFINE row == Append(fields, field)
           more == Append(fields, Append(field, c))
           added == [row EXCEPT ![Len(row)] = Append(@, c)]
<1>1. Append(field, c) \in Field
  BY DEF Field
<1>2. row \in Seq(Field) /\ Len(row) = Len(fields) + 1 /\ row[Len(row)] = field
  BY AppendProperties
<1>3. added = more
  <2>1. /\ added \in Seq(Field) /\ Len(added) = Len(row)
        /\ \A j \in 1 .. Len(row) : added[j] = IF j = Len(row) THEN Append(field, c) ELSE row[j]
    <3>1. Len(row) \in 1 .. Len(row)
      BY <1>2
    <3>2. added = [row EXCEPT ![Len(row)] = Append(field, c)]
      BY <1>2
    <3> HIDE DEF row
    <3> QED
      BY <1>1, <1>2, <3>1, <3>2, ExceptSeq
  <2>2. /\ more \in Seq(Field) /\ Len(more) = Len(row)
        /\ \A j \in 1 .. Len(row) : more[j] = IF j = Len(row) THEN Append(field, c) ELSE row[j]
    BY <1>1, AppendProperties
  <2> HIDE DEF added, more, row
  <2> QED
    BY <2>1, <2>2, SeqEqual
<1>4. Add(Reading(rows, fields, field, at), c) = [rows |-> rows, row |-> added, at |-> at]
  <2> DEFINE r == Reading(rows, fields, field, at)
  <2>1. r = [rows |-> rows, row |-> row, at |-> at] /\ r.row = row
    BY DEF Reading
  <2>2. Add(r, c) = [r EXCEPT !.row = [r.row EXCEPT ![Len(r.row)] = Append(r.row[Len(r.row)], c)]]
    BY DEF Add
  <2>3. [r.row EXCEPT ![Len(r.row)] = Append(r.row[Len(r.row)], c)] = added
    BY <2>1
  <2>4. Add(r, c) = [rows |-> rows, row |-> added, at |-> at]
    <3> HIDE DEF r, added, row
    <3> QED
      BY <2>1, <2>2, <2>3
  <2> QED
    BY <2>4
<1> QED
  BY <1>3, <1>4 DEF Reading

\* What the reader makes of a character.
LEMMA ReadCharIs ==
  ASSUME NEW rows, NEW fields \in Seq(Field), NEW field \in Field, NEW c \in Char
  PROVE  /\ c # Quote => ReadChar(Reading(rows, fields, field, "inside"), c)
                           = Reading(rows, fields, Append(field, c), "inside")
         /\ ReadChar(Reading(rows, fields, field, "inside"), Quote) = Reading(rows, fields, field, "behind")
         /\ ReadChar(Reading(rows, fields, field, "behind"), Quote)
              = Reading(rows, fields, Append(field, Quote), "inside")
         /\ ReadChar(Reading(rows, fields, field, "outside"), Quote) = Reading(rows, fields, field, "inside")
         /\ \A at \in {"outside", "behind"} :
              /\ ReadChar(Reading(rows, fields, field, at), Comma)
                   = Reading(rows, Append(fields, field), <<>>, "outside")
              /\ c \in {NewLine, Return} =>
                   ReadChar(Reading(rows, fields, field, at), c)
                     = Reading(Append(rows, Append(fields, field)), <<>>, <<>>, "outside")
              /\ c \notin {Quote, Comma, NewLine, Return} =>
                   ReadChar(Reading(rows, fields, field, at), c) = Reading(rows, fields, Append(field, c), at)
<1>1. \A at : Reading(rows, fields, field, at).at = at
  BY DEF Reading
<1>2. \A f, at, after : [Reading(rows, fields, f, at) EXCEPT !.at = after] = Reading(rows, fields, f, after)
  BY DEF Reading
<1>3. \A f \in Field : \A d \in Char :
        \A at : Add(Reading(rows, fields, f, at), d) = Reading(rows, fields, Append(f, d), at)
  BY AddReading
<1>4. c # Quote => ReadChar(Reading(rows, fields, field, "inside"), c)
                           = Reading(rows, fields, Append(field, c), "inside")
  BY <1>1, <1>3 DEF ReadChar
<1>5. ReadChar(Reading(rows, fields, field, "inside"), Quote) = Reading(rows, fields, field, "behind")
  BY <1>1, <1>2 DEF ReadChar
<1>6. ReadChar(Reading(rows, fields, field, "behind"), Quote)
              = Reading(rows, fields, Append(field, Quote), "inside")
  <2> DEFINE r == Reading(rows, fields, field, "behind")
  <2>1. r.at = "behind" /\ r.at # "inside" /\ Add(r, Quote) = Reading(rows, fields, Append(field, Quote), "behind")
    BY <1>1, <1>3 DEF Char
  <2> HIDE DEF r
  <2>2. ReadChar(r, Quote) = [Add(r, Quote) EXCEPT !.at = "inside"]
    BY <2>1, Distinct DEF ReadChar
  <2>3. ReadChar(r, Quote) = [Reading(rows, fields, Append(field, Quote), "behind") EXCEPT !.at = "inside"]
    BY <2>1, <2>2
  <2> QED
    BY <1>2, <2>3 DEF r
<1>7. ReadChar(Reading(rows, fields, field, "outside"), Quote) = Reading(rows, fields, field, "inside")
  <2> DEFINE r == Reading(rows, fields, field, "outside")
  <2>1. r.at = "outside" /\ r.at # "inside" /\ r.at # "behind"
    BY <1>1
  <2> HIDE DEF r
  <2>2. ReadChar(r, Quote) = [r EXCEPT !.at = "inside"]
    BY <2>1, Distinct DEF ReadChar
  <2> QED
    BY <1>2, <2>2 DEF r
<1>8. ASSUME NEW at \in {"outside", "behind"}
      PROVE  /\ ReadChar(Reading(rows, fields, field, at), Comma)
                  = Reading(rows, Append(fields, field), <<>>, "outside")
             /\ c \in {NewLine, Return} =>
                  ReadChar(Reading(rows, fields, field, at), c)
                    = Reading(Append(rows, Append(fields, field)), <<>>, <<>>, "outside")
             /\ c \notin {Quote, Comma, NewLine, Return} =>
                  ReadChar(Reading(rows, fields, field, at), c)
                    = Reading(rows, fields, Append(field, c), at)
  <2> DEFINE r == Reading(rows, fields, field, at)
  <2>1. r.at = at /\ at # "inside"
    BY <1>1
  <2>2. EndField(r) = Reading(rows, Append(fields, field), <<>>, "outside")
    <3> DEFINE more == Append(Append(fields, field), <<>>)
    <3>1. r.row = Append(fields, field)
      BY DEF Reading
    <3>2. r = [rows |-> rows, row |-> Append(fields, field), at |-> at]
      BY DEF Reading
    <3> HIDE DEF r, more
    <3>3. EndField(r) = [r EXCEPT !.row = Append(r.row, <<>>), !.at = "outside"]
      BY DEF EndField
    <3>4. Append(r.row, <<>>) = more
      BY <3>1 DEF more
    <3>5. EndField(r) = [rows |-> rows, row |-> more, at |-> "outside"]
      BY <3>2, <3>3, <3>4
    <3> QED
      BY <3>5 DEF Reading, more
  <2>3. EndRow(r) = Reading(Append(rows, Append(fields, field)), <<>>, <<>>, "outside")
    <3>1. << <<>> >> = Append(<<>>, <<>>)
      OBVIOUS
    <3> QED
      BY <3>1 DEF EndRow, Reading
  <2>4. Add(r, c) = Reading(rows, fields, Append(field, c), at)
    BY <1>3
  <2> HIDE DEF r
  <2>5. ReadChar(r, Comma) = EndField(r)
    BY <2>1, Distinct DEF ReadChar
  <2>6. c \in {NewLine, Return} => ReadChar(r, c) = EndRow(r)
    BY <2>1, Distinct DEF ReadChar
  <2>7. c \notin {Quote, Comma, NewLine, Return} => ReadChar(r, c) = Add(r, c)
    BY <2>1 DEF ReadChar
  <2> QED
    BY <2>2, <2>3, <2>4, <2>5, <2>6, <2>7 DEF r
<1> QED
  BY <1>4, <1>5, <1>6, <1>7, <1>8

\* The type of the states of the reader.
LEMMA ReadingType ==
  ASSUME NEW rows \in Seq(Seq(Field)), NEW fields \in Seq(Field), NEW field \in Field,
         NEW at \in {"outside", "inside", "behind"}
  PROVE  Reading(rows, fields, field, at) \in ReaderState
<1>1. Append(fields, field) \in Seq(Field) /\ Append(fields, field) # <<>>
  BY AppendProperties
<1> QED
  BY <1>1 DEF Reading, ReaderState

LEMMA ReadCharType ==
  ASSUME NEW r \in ReaderState, NEW c \in Char
  PROVE  ReadChar(r, c) \in ReaderState
<1>1. PICK fields \in Seq(Field), field \in Field : r = Reading(r.rows, fields, field, r.at)
  BY StateIsReading
<1>2. r.rows \in Seq(Seq(Field)) /\ r.at \in {"outside", "inside", "behind"}
  BY DEF ReaderState
<1>3. /\ \A d \in Char : Append(field, d) \in Field
      /\ Append(fields, field) \in Seq(Field) /\ <<>> \in Field /\ <<>> \in Seq(Field)
      /\ Append(r.rows, Append(fields, field)) \in Seq(Seq(Field))
  <2>1. Append(fields, field) \in Seq(Field)
    OBVIOUS
  <2>2. Append(r.rows, Append(fields, field)) \in Seq(Seq(Field))
    BY <1>2, <2>1
  <2> QED
    BY <2>1, <2>2 DEF Field
<1>4. Quote \in Char /\ Comma \in Char
  BY DEF Char
<1> DEFINE R(f, g, at) == Reading(r.rows, f, g, at)
<1>5. CASE r.at = "inside" /\ c # Quote
  <2>1. ReadChar(r, c) = R(fields, Append(field, c), "inside")
    BY <1>1, <1>5, ReadCharIs
  <2> QED
    BY <1>2, <1>3, <2>1, ReadingType
<1>6. CASE r.at = "inside" /\ c = Quote
  <2>1. ReadChar(r, c) = R(fields, field, "behind")
    BY <1>1, <1>6, ReadCharIs
  <2> QED
    BY <1>2, <1>3, <2>1, ReadingType
<1>7. CASE r.at = "behind" /\ c = Quote
  <2>1. ReadChar(r, c) = R(fields, Append(field, c), "inside")
    BY <1>1, <1>7, ReadCharIs
  <2> QED
    BY <1>2, <1>3, <2>1, ReadingType
<1>8. CASE r.at = "outside" /\ c = Quote
  <2>1. ReadChar(r, c) = R(fields, field, "inside")
    BY <1>1, <1>8, ReadCharIs
  <2> QED
    BY <1>2, <1>3, <2>1, ReadingType
<1>9. CASE r.at \in {"outside", "behind"} /\ c = Comma
  <2>1. ReadChar(r, c) = R(Append(fields, field), <<>>, "outside")
    BY <1>1, <1>9, ReadCharIs
  <2> QED
    BY <1>2, <1>3, <2>1, ReadingType
<1>10. CASE r.at \in {"outside", "behind"} /\ c \in {NewLine, Return}
  <2>1. ReadChar(r, c) = Reading(Append(r.rows, Append(fields, field)), <<>>, <<>>, "outside")
    BY <1>1, <1>10, ReadCharIs
  <2> QED
    BY <1>2, <1>3, <2>1, ReadingType
<1>11. CASE r.at \in {"outside", "behind"} /\ c \notin {Quote, Comma, NewLine, Return}
  <2>1. ReadChar(r, c) = R(fields, Append(field, c), r.at)
    BY <1>1, <1>11, ReadCharIs
  <2> QED
    BY <1>2, <1>3, <2>1, ReadingType
<1> QED
  BY <1>2, <1>5, <1>6, <1>7, <1>8, <1>9, <1>10, <1>11

LEMMA ReaderType == Reader \in ReaderState /\ Reader = Reading(<<>>, <<>>, <<>>, "outside")
<1>1. Reader = Reading(<<>>, <<>>, <<>>, "outside")
  <2>1. << <<>> >> = Append(<<>>, <<>>)
    OBVIOUS
  <2> QED
    BY <2>1 DEF Reader, Reading
<1>2. <<>> \in Field /\ <<>> \in Seq(Field) /\ <<>> \in Seq(Seq(Field))
  BY DEF Field
<1> QED
  BY <1>1, <1>2, ReadingType

-----------------------------------------------------------------------------
(* Reading a text, one character after the other *)

ReadStep == [r \in ReaderState |-> [c \in Char |-> ReadChar(r, c)]]

LEMMA ReadIsStep == IsStep(ReaderState, Char, Reader, ReadStep)
<1>1. \A r \in ReaderState : \A c \in Char : ReadChar(r, c) \in ReaderState
  BY ReadCharType
<1>2. Reader \in ReaderState
  BY ReaderType
<1> QED
  BY <1>1, <1>2 DEF IsStep, ReadStep

\* Read folds the steps of the reader over the text.
LEMMA ReadIsLeft ==
  ASSUME NEW text \in Seq(Char)
  PROVE  Read(text) = Left(ReaderState, Reader, ReadStep, text)
<1> DEFINE D == 1 .. Len(text)
           value(f, s) == IF s = {} THEN Reader ELSE ReadChar(f[s \ {Max(s)}], text[Max(s)])
           fold == CHOOSE fold : fold = [s \in SUBSET DOMAIN text |-> value(fold, s)]
<1>1. DOMAIN text = D /\ Len(text) \in Nat /\ \A i \in D : text[i] \in Char
  OBVIOUS
<1>2. \A s \in (SUBSET D) \ {{}} : Max(s) \in s
  BY <1>1, LatestIs
<1>3. PICK f \in [SUBSET D -> ReaderState] : LeftFold(f, Reader, ReadStep, text)
  BY ReadIsStep, LeftFoldExists
<1>4. ASSUME NEW s \in SUBSET D, s # {}, NEW r \in ReaderState
      PROVE  ReadStep[r][text[Max(s)]] = ReadChar(r, text[Max(s)])
  <2>1. text[Max(s)] \in Char
    BY <1>1, <1>2, <1>4
  <2> QED
    BY <2>1 DEF ReadStep
<1>5. f = [s \in SUBSET D |-> value(f, s)]
  <2>1. ASSUME NEW s \in SUBSET D PROVE f[s] = value(f, s)
    <3>1. CASE s = {}
      BY <1>3, <3>1 DEF LeftFold
    <3>2. CASE s # {}
      <4>1. f[s] = ReadStep[f[s \ {Max(s)}]][text[Max(s)]] /\ f[s \ {Max(s)}] \in ReaderState
        BY <1>3, <3>2 DEF LeftFold
      <4> QED
        BY <1>4, <3>2, <4>1
    <3> QED
      BY <3>1, <3>2
  <2> HIDE DEF value
  <2> QED
    BY <2>1
<1>6. Read(text) = fold[DOMAIN text]
  BY DEF Read, FoldLeft, MapThenFoldSet
<1>7. fold = [s \in SUBSET D |-> value(fold, s)]
  <2>1. \E g : g = [s \in SUBSET DOMAIN text |-> value(g, s)]
    BY <1>1, <1>5
  <2>2. fold = [s \in SUBSET DOMAIN text |-> value(fold, s)]
    BY <2>1
  <2> HIDE DEF fold
  <2> QED
    BY <1>1, <2>2
<1> HIDE DEF fold
<1>8. LeftFoldWithin(fold, ReaderState, Reader, ReadStep, text)
  <2>1. \A s \in SUBSET D : fold[s] = value(fold, s)
    BY <1>7
  <2> QED
    BY <1>4, <2>1 DEF LeftFoldWithin
<1> QED
  BY <1>1, <1>6, <1>8, ReadIsStep, LeftIs

LEMMA ReadEmpty == Read(<<>>) = Reader
<1>1. <<>> \in Seq(Char)
  OBVIOUS
<1> QED
  BY <1>1, ReadIsLeft, ReadIsStep, LeftEmpty

LEMMA ReadType ==
  ASSUME NEW text \in Seq(Char)
  PROVE  Read(text) \in ReaderState
  BY ReadIsLeft, ReadIsStep, LeftType

\* Reading one character more.
LEMMA ReadAppend ==
  ASSUME NEW text \in Seq(Char), NEW c \in Char
  PROVE  Read(Append(text, c)) = ReadChar(Read(text), c)
<1>1. Append(text, c) \in Seq(Char)
  OBVIOUS
<1>2. Left(ReaderState, Reader, ReadStep, Append(text, c))
        = ReadStep[Left(ReaderState, Reader, ReadStep, text)][c]
  BY ReadIsStep, LeftAppend
<1>3. Read(Append(text, c)) = ReadStep[Read(text)][c]
  BY <1>1, <1>2, ReadIsLeft
<1> QED
  BY <1>3, ReadType DEF ReadStep

-----------------------------------------------------------------------------
(* The text that is written *)

\* Appending to the second of two sequences.
LEMMA ConcatAppend ==
  ASSUME NEW S, NEW s \in Seq(S), NEW t \in Seq(S), NEW e \in S
  PROVE  /\ s \o t \in Seq(S)
         /\ s \o Append(t, e) = Append(s \o t, e)
         /\ s \o (t \o <<e>>) = Append(s \o t, e)
<1>1. <<e>> \in Seq(S) /\ s \o t \in Seq(S)
  OBVIOUS
<1>2. Append(t, e) = t \o <<e>> /\ Append(s \o t, e) = (s \o t) \o <<e>>
  BY <1>1, AppendIsConcat
<1>3. (s \o t) \o <<e>> = s \o (t \o <<e>>)
  BY <1>1, ConcatAssociative
<1> QED
  BY <1>1, <1>2, <1>3

Piece(c) == IF c = Quote THEN <<Quote, Quote>> ELSE <<c>>

\* Doubling the quotes, one character after the other.
LEMMA DoubledIs ==
  ASSUME NEW field \in Field
  PROVE  /\ Doubled(<<>>) = <<>>
         /\ \A c \in Char : Doubled(Append(field, c)) = Doubled(field) \o Piece(c)
<1> DEFINE pieces(f) == [k \in 1 .. Len(f) |-> Piece(f[k])]
<1>1. \A f : Doubled(f) = FlattenSeq(pieces(f))
  BY DEF Doubled, Piece
<1>2. \A c \in Char : Piece(c) \in Seq(Char)
  <2>1. Quote \in Char
    BY DEF Char
  <2> QED
    BY <2>1 DEF Piece
<1>3. \A f \in Field : pieces(f) \in Seq(Seq(Char)) /\ Len(pieces(f)) = Len(f)
  <2> SUFFICES ASSUME NEW f \in Field PROVE pieces(f) \in Seq(Seq(Char)) /\ Len(pieces(f)) = Len(f)
    OBVIOUS
  <2>1. Len(f) \in Nat /\ \A k \in 1 .. Len(f) : Piece(f[k]) \in Seq(Char)
    BY <1>2 DEF Field
  <2> QED
    BY <2>1
<1>4. Doubled(<<>>) = <<>>
  <2>1. pieces(<<>>) = <<>>
    OBVIOUS
  <2>2. <<>> \in Seq(Seq(Char)) /\ <<>> \in Seq(Char)
    OBVIOUS
  <2> QED
    BY <1>1, <2>1, <2>2, FlattenAppend
<1>5. ASSUME NEW c \in Char PROVE Doubled(Append(field, c)) = Doubled(field) \o Piece(c)
  <2> DEFINE more == Append(field, c)
  <2>1. /\ more \in Field /\ Len(more) = Len(field) + 1 /\ Len(field) \in Nat
        /\ more[Len(field) + 1] = c /\ \A k \in 1 .. Len(field) : more[k] = field[k]
    BY AppendProperties DEF Field
  <2>2. /\ Append(pieces(field), Piece(c)) \in Seq(Seq(Char))
        /\ Len(Append(pieces(field), Piece(c))) = Len(field) + 1
        /\ Append(pieces(field), Piece(c))[Len(field) + 1] = Piece(c)
        /\ \A k \in 1 .. Len(field) : Append(pieces(field), Piece(c))[k] = Piece(field[k])
    <3>1. \A k \in 1 .. Len(field) : pieces(field)[k] = Piece(field[k])
      OBVIOUS
    <3> HIDE DEF pieces
    <3> QED
      BY <1>2, <1>3, <3>1, AppendProperties
  <2>3. \A k \in 1 .. Len(field) + 1 : pieces(more)[k] = Piece(more[k])
    BY <2>1
  <2>4. pieces(more) \in Seq(Seq(Char)) /\ Len(pieces(more)) = Len(field) + 1
    BY <1>3, <2>1
  <2> HIDE DEF more, pieces
  <2>5. pieces(more) = Append(pieces(field), Piece(c))
    <3>1. \A k \in 1 .. Len(field) + 1 :
            pieces(more)[k] = Append(pieces(field), Piece(c))[k]
      BY <2>1, <2>2, <2>3
    <3> QED
      BY <2>2, <2>4, <3>1, SeqEqual
  <2>6. FlattenSeq(Append(pieces(field), Piece(c))) = FlattenSeq(pieces(field)) \o Piece(c)
    BY <1>2, <1>3, FlattenAppend
  <2> QED
    BY <1>1, <2>5, <2>6 DEF more
<1> QED
  BY <1>4, <1>5

LEMMA DoubledType ==
  ASSUME NEW field \in Field
  PROVE  Doubled(field) \in Field
<1> DEFINE F == {f \in Field : Doubled(f) \in Field}
<1>1. <<>> \in F
  <2>1. Doubled(<<>>) = <<>>
    BY DoubledIs
  <2>2. <<>> \in Field
    BY DEF Field
  <2> QED
    BY <2>1, <2>2
<1>2. ASSUME NEW f \in Seq(Char), NEW c \in Char, f \in F PROVE Append(f, c) \in F
  <2>1. Piece(c) \in Seq(Char)
    <3>1. Quote \in Char
      BY DEF Char
    <3> QED
      BY <3>1 DEF Piece
  <2>2. Doubled(f) \o Piece(c) \in Field
    BY <1>2, <2>1 DEF Field
  <2>3. Append(f, c) \in Field
    BY DEF Field
  <2> QED
    BY <1>2, <2>2, <2>3, DoubledIs DEF Field
<1> HIDE DEF F
<1>3. Seq(Char) \subseteq F
  BY <1>1, <1>2, SeqSetInduction
<1> QED
  BY <1>3 DEF F, Field

LEMMA EscapeType ==
  ASSUME NEW field \in Field
  PROVE  Escape(field) \in Seq(Char)
<1>1. Doubled(field) \in Seq(Char) /\ <<Quote>> \in Seq(Char)
  BY DoubledType DEF Field, Char
<1> QED
  BY <1>1 DEF Escape, Field

\* The fields of a row but the last, each with its comma.
Separated(fields) == FlattenSeq([k \in 1 .. Len(fields) |-> Escape(fields[k]) \o <<Comma>>])

\* A line, one field after the other.
LEMMA LineIs ==
  ASSUME NEW fields \in Seq(Field), NEW field \in Field
  PROVE  /\ Separated(<<>>) = <<>>
         /\ Separated(Append(fields, field)) = Separated(fields) \o (Escape(field) \o <<Comma>>)
         /\ Line(Append(fields, field)) = Separated(fields) \o (Escape(field) \o <<NewLine>>)
<1> DEFINE row == Append(fields, field)
           n == Len(fields)
           comma(f) == Escape(f) \o <<Comma>>
           newline(f) == Escape(f) \o <<NewLine>>
           piece(k) == IF k < n + 1 THEN comma(row[k]) ELSE newline(row[k])
           pieces(r) == [k \in 1 .. Len(r) |-> comma(r[k])]
           last == [k \in 1 .. n + 1 |-> piece(k)]
<1>1. \A f \in Field : comma(f) \in Seq(Char) /\ newline(f) \in Seq(Char)
  <2>1. <<Comma>> \in Seq(Char) /\ <<NewLine>> \in Seq(Char)
    BY DEF Char
  <2> QED
    BY <2>1, EscapeType
<1>2. /\ row \in Seq(Field) /\ Len(row) = n + 1 /\ n \in Nat
      /\ row[n + 1] = field /\ \A k \in 1 .. n : row[k] = fields[k] /\ fields[k] \in Field
  BY AppendProperties
<1>3. /\ Separated(fields) = FlattenSeq(pieces(fields))
      /\ Separated(row) = FlattenSeq(pieces(row))
      /\ Line(row) = FlattenSeq(last)
  <2>1. ASSUME NEW k \in 1 .. n + 1
        PROVE  piece(k) = Escape(row[k]) \o IF k < n + 1 THEN <<Comma>> ELSE <<NewLine>>
    OBVIOUS
  <2>2. Line(row) = FlattenSeq([k \in 1 .. n + 1 |->
                                  Escape(row[k]) \o IF k < n + 1 THEN <<Comma>> ELSE <<NewLine>>])
    BY <1>2 DEF Line
  <2>3. last = [k \in 1 .. n + 1 |->
                  Escape(row[k]) \o IF k < n + 1 THEN <<Comma>> ELSE <<NewLine>>]
    BY <2>1
  <2> QED
    BY <2>2, <2>3 DEF Separated
<1> HIDE DEF comma, newline, row, n
<1>4. /\ \A k \in 1 .. n : piece(k) = comma(fields[k])
      /\ piece(n + 1) = newline(field)
  BY <1>2
<1> HIDE DEF piece
<1>5. /\ Len(pieces(fields)) = n /\ \A k \in 1 .. n : pieces(fields)[k] = comma(fields[k])
      /\ pieces(fields) \in Seq(Seq(Char))
  <2>1. \A k \in 1 .. n : comma(fields[k]) \in Seq(Char)
    BY <1>1, <1>2
  <2>2. pieces(fields) = [k \in 1 .. n |-> comma(fields[k])]
    BY DEF n
  <2> QED
    BY <1>2, <2>1, <2>2
<1>6. /\ Len(pieces(row)) = n + 1 /\ \A k \in 1 .. n : pieces(row)[k] = comma(fields[k])
      /\ pieces(row)[n + 1] = comma(field)
      /\ pieces(row) \in Seq(Seq(Char))
  <2>1. \A k \in 1 .. n + 1 : comma(row[k]) \in Seq(Char)
    <3>1. \A k \in 1 .. n + 1 : row[k] \in Field
      BY <1>2
    <3> QED
      BY <1>1, <3>1
  <2>2. pieces(row) = [k \in 1 .. n + 1 |-> comma(row[k])]
    BY <1>2
  <2>3. Len(pieces(row)) = n + 1 /\ pieces(row) \in Seq(Seq(Char))
    BY <1>2, <2>1, <2>2
  <2>4. \A k \in 1 .. n + 1 : pieces(row)[k] = comma(row[k])
    BY <2>2
  <2> HIDE DEF pieces
  <2>5. n + 1 \in 1 .. n + 1 /\ \A k \in 1 .. n : k \in 1 .. n + 1
    BY <1>2
  <2>6. pieces(row)[n + 1] = comma(field)
    BY <1>2, <2>4, <2>5
  <2>7. \A k \in 1 .. n : pieces(row)[k] = comma(fields[k])
    BY <1>2, <2>4, <2>5
  <2> QED
    BY <2>3, <2>6, <2>7
<1>7. /\ Len(last) = n + 1 /\ \A k \in 1 .. n : last[k] = comma(fields[k])
      /\ last[n + 1] = newline(field)
      /\ last \in Seq(Seq(Char))
  <2>1. \A k \in 1 .. n + 1 : piece(k) \in Seq(Char)
    <3> SUFFICES ASSUME NEW k \in 1 .. n + 1 PROVE piece(k) \in Seq(Char)
      OBVIOUS
    <3>1. k \in 1 .. n \/ k = n + 1
      BY <1>2
    <3> QED
      BY <1>1, <1>2, <1>4, <3>1
  <2> QED
    BY <1>2, <1>4, <2>1
<1> HIDE DEF pieces, last
<1>8. /\ pieces(row) = Append(pieces(fields), comma(field))
      /\ last = Append(pieces(fields), newline(field))
  <2>1. ASSUME NEW s \in Seq(Seq(Char)), NEW e \in Seq(Char), Len(s) = n + 1, s[n + 1] = e,
               \A k \in 1 .. n : s[k] = pieces(fields)[k]
        PROVE  s = Append(pieces(fields), e)
    <3> DEFINE more == Append(pieces(fields), e)
    <3>1. /\ more \in Seq(Seq(Char)) /\ Len(more) = n + 1 /\ more[n + 1] = e
          /\ \A k \in 1 .. n : more[k] = pieces(fields)[k]
      BY <1>2, <1>5, AppendProperties
    <3> HIDE DEF more
    <3>2. \A k \in 1 .. n + 1 : s[k] = more[k]
      <4> SUFFICES ASSUME NEW k \in 1 .. n + 1 PROVE s[k] = more[k]
        OBVIOUS
      <4>1. k \in 1 .. n \/ k = n + 1
        BY <1>2
      <4> QED
        BY <2>1, <3>1, <4>1
    <3>3. s = more
      BY <2>1, <3>1, <3>2, SeqEqual
    <3> QED
      BY <3>3 DEF more
  <2> QED
    BY <1>1, <1>5, <1>6, <1>7, <2>1
<1>9. /\ FlattenSeq(Append(pieces(fields), comma(field))) = FlattenSeq(pieces(fields)) \o comma(field)
      /\ FlattenSeq(Append(pieces(fields), newline(field))) = FlattenSeq(pieces(fields)) \o newline(field)
  BY <1>1, <1>5, FlattenAppend
<1>10. Separated(<<>>) = <<>>
  <2>1. Separated(<<>>) = FlattenSeq(<<>>)
    BY DEF Separated
  <2>2. <<>> \in Seq(Seq(Char)) /\ <<>> \in Seq(Char)
    OBVIOUS
  <2> QED
    BY <2>1, <2>2, FlattenAppend
<1> QED
  BY <1>3, <1>8, <1>9, <1>10 DEF comma, newline, row

LEMMA SeparatedType ==
  ASSUME NEW fields \in Seq(Field)
  PROVE  Separated(fields) \in Seq(Char)
<1> DEFINE F == {r \in Seq(Field) : Separated(r) \in Seq(Char)}
<1>1. <<>> \in F
  <2>1. <<>> \in Field /\ <<>> \in Seq(Field) /\ <<>> \in Seq(Char)
    BY DEF Field
  <2>2. Separated(<<>>) = <<>>
    BY <2>1, LineIs
  <2> QED
    BY <2>1, <2>2
<1>2. ASSUME NEW r \in Seq(Field), NEW f \in Field, r \in F PROVE Append(r, f) \in F
  <2>1. Escape(f) \in Seq(Char) /\ <<Comma>> \in Seq(Char)
    BY EscapeType DEF Char
  <2>2. Separated(r) \o (Escape(f) \o <<Comma>>) \in Seq(Char)
    BY <1>2, <2>1
  <2>3. Separated(Append(r, f)) = Separated(r) \o (Escape(f) \o <<Comma>>)
    BY LineIs
  <2>4. Append(r, f) \in Seq(Field)
    OBVIOUS
  <2> QED
    BY <2>2, <2>3, <2>4
<1> HIDE DEF F
<1>3. Seq(Field) \subseteq F
  BY <1>1, <1>2, SeqSetInduction
<1> QED
  BY <1>3 DEF F

-----------------------------------------------------------------------------
(* What is read of what is written *)

\* A field that needs no quotes is read as it is.
LEMMA PlainRead ==
  ASSUME NEW text \in Seq(Char), NEW rows \in Seq(Seq(Field)), NEW fields \in Seq(Field),
         Read(text) = Reading(rows, fields, <<>>, "outside"),
         NEW field \in Field, ~NeedsQuoting(field)
  PROVE  Read(text \o field) = Reading(rows, fields, field, "outside")
<1> DEFINE F == {f \in Field : NeedsQuoting(f) \/ Read(text \o f) = Reading(rows, fields, f, "outside")}
<1>1. <<>> \in F
  <2>1. text \o <<>> = text /\ <<>> \in Field
    BY ConcatEmptySeq DEF Field
  <2> QED
    BY <2>1
<1>2. ASSUME NEW f \in Seq(Char), NEW c \in Char, f \in F, ~NeedsQuoting(Append(f, c))
      PROVE  Read(text \o Append(f, c)) = Reading(rows, fields, Append(f, c), "outside")
  <2>1. /\ Len(Append(f, c)) = Len(f) + 1 /\ Len(f) \in Nat /\ Append(f, c)[Len(f) + 1] = c
        /\ \A k \in 1 .. Len(f) : Append(f, c)[k] = f[k]
    BY AppendProperties
  <2>2. c \notin {Quote, Comma, NewLine, Return} /\ ~NeedsQuoting(f)
    BY <1>2, <2>1 DEF NeedsQuoting
  <2>3. Read(text \o f) = Reading(rows, fields, f, "outside") /\ f \in Field
    BY <1>2, <2>2
  <2>4. text \o f \in Seq(Char) /\ text \o Append(f, c) = Append(text \o f, c)
    BY ConcatAppend
  <2>5. Read(text \o Append(f, c)) = ReadChar(Reading(rows, fields, f, "outside"), c)
    BY <2>3, <2>4, ReadAppend
  <2> QED
    BY <2>2, <2>3, <2>5, ReadCharIs
<1>3. ASSUME NEW f \in Seq(Char), NEW c \in Char, f \in F PROVE Append(f, c) \in F
  <2>1. Append(f, c) \in Field
    BY DEF Field
  <2> QED
    BY <1>2, <1>3, <2>1
<1> HIDE DEF F
<1>4. Seq(Char) \subseteq F
  BY <1>1, <1>3, SeqSetInduction
<1> QED
  BY <1>4 DEF F, Field

\* Inside of quotes, doubled quotes are read as the field.
LEMMA QuotedRead ==
  ASSUME NEW text \in Seq(Char), NEW rows \in Seq(Seq(Field)), NEW fields \in Seq(Field),
         Read(text) = Reading(rows, fields, <<>>, "inside"),
         NEW field \in Field
  PROVE  Read(text \o Doubled(field)) = Reading(rows, fields, field, "inside")
<1> DEFINE F == {f \in Field : Read(text \o Doubled(f)) = Reading(rows, fields, f, "inside")}
<1>1. <<>> \in F
  <2>1. text \o <<>> = text /\ <<>> \in Field
    BY ConcatEmptySeq DEF Field
  <2>2. Doubled(<<>>) = <<>>
    BY DoubledIs
  <2> QED
    BY <2>1, <2>2
<1>2. ASSUME NEW f \in Seq(Char), NEW c \in Char, f \in F PROVE Append(f, c) \in F
  <2> DEFINE before == text \o Doubled(f)
  <2>1. f \in Field /\ Append(f, c) \in Field /\ Doubled(f) \in Seq(Char) /\ Quote \in Char
    BY DoubledType DEF Field, Char
  <2>2. before \in Seq(Char) /\ Read(before) = Reading(rows, fields, f, "inside")
    BY <1>2, <2>1
  <2>3. Doubled(Append(f, c)) = Doubled(f) \o Piece(c)
    BY <2>1, DoubledIs
  <2>4. CASE c # Quote
    <3>1. text \o Doubled(Append(f, c)) = Append(before, c)
      BY <2>1, <2>3, <2>4, ConcatAppend DEF Piece
    <3> HIDE DEF before
    <3>2. Read(Append(before, c)) = ReadChar(Reading(rows, fields, f, "inside"), c)
      BY <2>2, ReadAppend
    <3>3. Read(Append(before, c)) = Reading(rows, fields, Append(f, c), "inside")
      BY <2>1, <2>4, <3>2, ReadCharIs
    <3> QED
      BY <2>1, <3>1, <3>3
  <2>5. CASE c = Quote
    <3>1. text \o Doubled(Append(f, c)) = Append(Append(before, Quote), Quote)
      <4>1. <<Quote, Quote>> = Append(<<Quote>>, Quote) /\ <<Quote>> \in Seq(Char)
        BY <2>1
      <4>2. Doubled(f) \o <<Quote, Quote>> = Append(Append(Doubled(f), Quote), Quote)
        <5>1. Doubled(f) \o Append(<<Quote>>, Quote) = Append(Doubled(f) \o <<Quote>>, Quote)
          BY <2>1, <4>1, ConcatAppend
        <5>2. Doubled(f) \o <<Quote>> = Append(Doubled(f), Quote)
          BY <2>1, AppendIsConcat
        <5> QED
          BY <4>1, <5>1, <5>2
      <4>3. text \o Append(Doubled(f), Quote) = Append(before, Quote)
        BY <2>1, ConcatAppend
      <4>4. text \o Append(Append(Doubled(f), Quote), Quote) = Append(text \o Append(Doubled(f), Quote), Quote)
        <5>1. Append(Doubled(f), Quote) \in Seq(Char)
          BY <2>1
        <5> QED
          BY <2>1, <5>1, ConcatAppend
      <4> QED
        BY <2>3, <2>5, <4>2, <4>3, <4>4 DEF Piece
    <3> HIDE DEF before
    <3>2. Read(Append(before, Quote)) = Reading(rows, fields, f, "behind")
      BY <2>1, <2>2, ReadAppend, ReadCharIs
    <3>3. Append(before, Quote) \in Seq(Char)
      BY <2>1, <2>2
    <3>4. Read(Append(Append(before, Quote), Quote)) = ReadChar(Reading(rows, fields, f, "behind"), Quote)
      BY <2>1, <3>2, <3>3, ReadAppend
    <3>5. ReadChar(Reading(rows, fields, f, "behind"), Quote) = Reading(rows, fields, Append(f, Quote), "inside")
      BY <2>1, ReadCharIs
    <3> QED
      BY <2>1, <2>5, <3>1, <3>4, <3>5
  <2> QED
    BY <2>4, <2>5
<1> HIDE DEF F
<1>3. Seq(Char) \subseteq F
  BY <1>1, <1>2, SeqSetInduction
<1> QED
  BY <1>3 DEF F, Field

\* What escape() makes of a field is read as the field.
LEMMA EscapeRead ==
  ASSUME NEW text \in Seq(Char), NEW rows \in Seq(Seq(Field)), NEW fields \in Seq(Field),
         Read(text) = Reading(rows, fields, <<>>, "outside"),
         NEW field \in Field
  PROVE  \E at \in {"outside", "behind"} :
           Read(text \o Escape(field)) = Reading(rows, fields, field, at)
<1>1. Quote \in Char /\ <<>> \in Field /\ Doubled(field) \in Seq(Char)
  <2>1. Doubled(field) \in Seq(Char)
    BY DoubledType DEF Field
  <2>2. Quote \in Char /\ <<>> \in Field
    BY DEF Char, Field
  <2> QED
    BY <2>1, <2>2
<1>2. CASE ~NeedsQuoting(field)
  BY <1>2, PlainRead DEF Escape
<1>3. CASE NeedsQuoting(field)
  <2> DEFINE opened == Append(text, Quote)
             written == opened \o Doubled(field)
  <2>1. opened \in Seq(Char) /\ Read(opened) = Reading(rows, fields, <<>>, "inside")
    BY <1>1, ReadAppend, ReadCharIs
  <2>2. text \o Escape(field) = Append(written, Quote)
    <3>1. Escape(field) = (<<Quote>> \o Doubled(field)) \o <<Quote>>
      BY <1>1, <1>3, ConcatAssociative DEF Escape
    <3>2. <<Quote>> \o Doubled(field) \in Seq(Char) /\ <<Quote>> \in Seq(Char)
      BY <1>1
    <3>3. text \o Escape(field) = Append(text \o (<<Quote>> \o Doubled(field)), Quote)
      BY <1>1, <3>1, <3>2, ConcatAppend
    <3>4. text \o (<<Quote>> \o Doubled(field)) = (text \o <<Quote>>) \o Doubled(field)
      BY <1>1, <3>2, ConcatAssociative
    <3>5. opened = text \o <<Quote>>
      BY <1>1, AppendIsConcat
    <3> QED
      BY <3>3, <3>4, <3>5
  <2> HIDE DEF opened
  <2>3. written \in Seq(Char) /\ Read(written) = Reading(rows, fields, field, "inside")
    BY <1>1, <2>1, QuotedRead
  <2> HIDE DEF written
  <2>4. Read(Append(written, Quote)) = ReadChar(Reading(rows, fields, field, "inside"), Quote)
    BY <1>1, <2>3, ReadAppend
  <2>5. ReadChar(Reading(rows, fields, field, "inside"), Quote) = Reading(rows, fields, field, "behind")
    BY <1>1, ReadCharIs
  <2> QED
    BY <2>2, <2>4, <2>5
<1> QED
  BY <1>2, <1>3

\* A field and the comma or the line break behind it.
LEMMA PieceRead ==
  ASSUME NEW text \in Seq(Char), NEW rows \in Seq(Seq(Field)), NEW fields \in Seq(Field),
         Read(text) = Reading(rows, fields, <<>>, "outside"),
         NEW field \in Field
  PROVE  /\ Read(text \o (Escape(field) \o <<Comma>>))
              = Reading(rows, Append(fields, field), <<>>, "outside")
         /\ Read(text \o (Escape(field) \o <<NewLine>>))
              = Reading(Append(rows, Append(fields, field)), <<>>, <<>>, "outside")
<1> DEFINE written == text \o Escape(field)
<1>1. PICK at \in {"outside", "behind"} : Read(written) = Reading(rows, fields, field, at)
  BY EscapeRead
<1>2. Escape(field) \in Seq(Char) /\ Comma \in Char /\ NewLine \in Char
  BY EscapeType DEF Char
<1>3. /\ written \in Seq(Char)
      /\ text \o (Escape(field) \o <<Comma>>) = Append(written, Comma)
      /\ text \o (Escape(field) \o <<NewLine>>) = Append(written, NewLine)
  BY <1>2, ConcatAppend
<1> HIDE DEF written
<1>4. /\ Read(Append(written, Comma)) = ReadChar(Reading(rows, fields, field, at), Comma)
      /\ Read(Append(written, NewLine)) = ReadChar(Reading(rows, fields, field, at), NewLine)
  BY <1>1, <1>2, <1>3, ReadAppend
<1>5. /\ ReadChar(Reading(rows, fields, field, at), Comma)
           = Reading(rows, Append(fields, field), <<>>, "outside")
      /\ ReadChar(Reading(rows, fields, field, at), NewLine)
           = Reading(Append(rows, Append(fields, field)), <<>>, <<>>, "outside")
  BY <1>2, ReadCharIs
<1> QED
  BY <1>3, <1>4, <1>5

LEMMA TextConcat == \A s, t, u \in Seq(Char) : (s \o t) \o u = s \o (t \o u)
  BY ConcatAssociative

\* Fields, each with a comma behind it, are read as the fields.
LEMMA SeparatedRead ==
  ASSUME NEW text \in Seq(Char), NEW rows \in Seq(Seq(Field)),
         Read(text) = Reading(rows, <<>>, <<>>, "outside"),
         NEW fields \in Seq(Field)
  PROVE  Read(text \o Separated(fields)) = Reading(rows, fields, <<>>, "outside")
<1> DEFINE F == {r \in Seq(Field) : Read(text \o Separated(r)) = Reading(rows, r, <<>>, "outside")}
<1>1. <<>> \in F
  <2>1. <<>> \in Field /\ <<>> \in Seq(Field) /\ text \o <<>> = text
    BY ConcatEmptySeq DEF Field
  <2>2. Separated(<<>>) = <<>>
    BY <2>1, LineIs
  <2> QED
    BY <2>1, <2>2
<1>2. ASSUME NEW r \in Seq(Field), NEW f \in Field, r \in F PROVE Append(r, f) \in F
  <2> DEFINE before == text \o Separated(r)
             piece == Escape(f) \o <<Comma>>
  <2>1. Separated(r) \in Seq(Char) /\ piece \in Seq(Char) /\ Append(r, f) \in Seq(Field)
    <3>1. Escape(f) \in Seq(Char) /\ <<Comma>> \in Seq(Char)
      BY EscapeType DEF Char
    <3> QED
      BY <3>1, SeparatedType
  <2>2. before \in Seq(Char) /\ Read(before) = Reading(rows, r, <<>>, "outside")
    BY <1>2, <2>1
  <2>3. Separated(Append(r, f)) = Separated(r) \o piece
    BY LineIs
  <2> HIDE DEF piece
  <2>4. text \o Separated(Append(r, f)) = before \o piece
    <3>1. text \in Seq(Char) /\ Separated(r) \in Seq(Char) /\ piece \in Seq(Char)
      BY <2>1
    <3>2. (text \o Separated(r)) \o piece = text \o (Separated(r) \o piece)
      BY <3>1, TextConcat
    <3> QED
      BY <2>3, <3>2
  <2> HIDE DEF before
  <2>5. Read(before \o piece) = Reading(rows, Append(r, f), <<>>, "outside")
    BY <1>2, <2>2, PieceRead DEF piece
  <2> QED
    BY <2>1, <2>4, <2>5
<1> HIDE DEF F
<1>3. Seq(Field) \subseteq F
  BY <1>1, <1>2, SeqSetInduction
<1> QED
  BY <1>3 DEF F

\* A line that is written behind the lines that are there is read as its row,
\* whatever characters its fields have.
LEMMA LineRead ==
  ASSUME NEW text \in Seq(Char), NEW rows \in Seq(Seq(Field)),
         Read(text) = Reading(rows, <<>>, <<>>, "outside"),
         NEW row \in Seq(Field), row # <<>>
  PROVE  /\ Line(row) \in Seq(Char)
         /\ Read(text \o Line(row)) = Reading(Append(rows, row), <<>>, <<>>, "outside")
<1>1. PICK fields \in Seq(Field), field \in Field : row = Append(fields, field)
  BY SequenceEmptyOrAppend
<1> DEFINE before == text \o Separated(fields)
           piece == Escape(field) \o <<NewLine>>
<1>2. Separated(fields) \in Seq(Char) /\ piece \in Seq(Char)
  <2>1. Escape(field) \in Seq(Char) /\ <<NewLine>> \in Seq(Char)
    BY EscapeType DEF Char
  <2> QED
    BY <2>1, SeparatedType
<1>3. Line(row) = Separated(fields) \o piece
  BY <1>1, LineIs
<1> HIDE DEF piece
<1>4. Line(row) \in Seq(Char) /\ text \o Line(row) = before \o piece
  <2>1. text \in Seq(Char) /\ Separated(fields) \in Seq(Char) /\ piece \in Seq(Char)
    BY <1>2
  <2>2. (text \o Separated(fields)) \o piece = text \o (Separated(fields) \o piece)
    BY <2>1, TextConcat
  <2>3. Line(row) \in Seq(Char)
    BY <1>2, <1>3
  <2> QED
    BY <1>3, <2>2, <2>3
<1>5. before \in Seq(Char) /\ Read(before) = Reading(rows, fields, <<>>, "outside")
  BY <1>2, SeparatedRead
<1> HIDE DEF before
<1>6. Read(before \o piece) = Reading(Append(rows, Append(fields, field)), <<>>, <<>>, "outside")
  BY <1>5, PieceRead DEF piece
<1>7. Append(rows, Append(fields, field)) = Append(rows, row)
  BY <1>1
<1> QED
  BY <1>4, <1>6, <1>7

-----------------------------------------------------------------------------
(* The result file *)

\* What there is to read in a file that nothing has cut.
Written == (IF HasHeader THEN <<Header>> ELSE <<>>) \o returned

\* A file whose header is still to be written is empty, and there is a file
\* once there is an object, a result or a process that left no header.
FileInv ==
  /\ TypeOK
  /\ pc \in {"header", "ready"} => exists
  /\ pc = "header" => file = <<>> /\ returned = <<>> /\ ~headless
  /\ ~exists => returned = <<>> /\ ~headless
  /\ FileReadsBack

\* Every row that is written has a field, and a line.
LEMMA LineType ==
  ASSUME NEW row \in BenchmarkResult \cup {Header}
  PROVE  Line(row) \in Seq(Char) /\ row \in Seq(Field) /\ row # <<>>
<1>1. row \in Seq(Field) /\ row # <<>>
  BY CSVWriterAssumption DEF Field
<1>2. <<>> \in Seq(Char) /\ <<>> \in Seq(Seq(Field))
  OBVIOUS
<1>3. Read(<<>>) = Reading(<<>>, <<>>, <<>>, "outside")
  BY ReadEmpty, ReaderType
<1> QED
  BY <1>1, <1>2, <1>3, LineRead

\* The reader at the start of a line, some rows read.
LEMMA ReaderOf == \A rows : [Reader EXCEPT !.rows = rows] = Reading(rows, <<>>, <<>>, "outside")
<1>1. Append(<<>>, <<>>) = << <<>> >>
  OBVIOUS
<1> QED
  BY <1>1 DEF Reader, Reading

\* A row that CSVWriter writes is read as that row, whatever characters its
\* fields have: escape() quotes and doubles all that the format asks for.
THEOREM RowIsReadBack ==
  ASSUME NEW row \in Seq(Field), row # <<>>
  PROVE  Read(Line(row)) = [Reader EXCEPT !.rows = <<row>>]
<1>1. Read(<<>>) = Reading(<<>>, <<>>, <<>>, "outside")
  BY ReadEmpty, ReaderType
<1>2. <<>> \in Seq(Char) /\ <<>> \in Seq(Seq(Field)) /\ Append(<<>>, row) = <<row>>
  OBVIOUS
<1>3. /\ Line(row) \in Seq(Char)
      /\ Read(<<>> \o Line(row)) = Reading(Append(<<>>, row), <<>>, <<>>, "outside")
  BY <1>1, <1>2, LineRead
<1>4. <<>> \o Line(row) = Line(row)
  BY <1>3, ConcatEmptySeq
<1> QED
  BY <1>2, <1>3, <1>4, ReaderOf

\* What the file is read as, of what is written.
LEMMA ReadsBackIs ==
  FileReadsBack <=> (~cut => Read(file) = Reading(Written, <<>>, <<>>, "outside"))
  BY ReaderOf DEF FileReadsBack, Written

LEMMA WrittenType ==
  ASSUME TypeOK
  PROVE  Written \in Seq(Seq(Field))
<1>1. returned \in Seq(Seq(Field)) /\ Header \in Seq(Field)
  BY CSVWriterAssumption, LineType DEF TypeOK
<1> QED
  BY <1>1 DEF Written

\* Of a line that is written a stream writes a beginning.
LEMMA AppendType ==
  ASSUME file \in Seq(Char), exists \in BOOLEAN,
         NEW row \in BenchmarkResult \cup {Header},
         AppendWhole(row) \/ AppendCut(row)
  PROVE  /\ \E written \in Seq(Char) : file' = file \o written
         /\ file' \in Seq(Char)
         /\ cut' \in {cut, TRUE}
         /\ UNCHANGED exists
<1>1. Line(row) \in Seq(Char)
  BY LineType
<1>2. \A k \in 0 .. Len(Line(row)) - 1 : SubSeq(Line(row), 1, k) \in Seq(Char)
  <2>1. \A text \in Seq(Char) : \A k \in 0 .. Len(text) - 1 : SubSeq(text, 1, k) \in Seq(Char)
    OBVIOUS
  <2> QED
    BY <1>1, <2>1
<1>3. CASE AppendWhole(row)
  BY <1>1, <1>3 DEF AppendWhole
<1>4. CASE AppendCut(row)
  <2>1. PICK written \in Seq(Char) : file' = file \o written
    BY <1>2, <1>4 DEF AppendCut
  <2>2. file \o written \in Seq(Char)
    OBVIOUS
  <2> QED
    BY <1>4, <2>1, <2>2 DEF AppendCut
<1> QED
  BY <1>3, <1>4

LEMMA BatchType == \A batch \in Batch : batch \in Seq(BenchmarkResult)
<1>1. \A k \in Nat : \A batch \in [1 .. k -> BenchmarkResult] : batch \in Seq(BenchmarkResult)
  BY SeqDef
<1>2. \A k \in 1 .. 2 : k \in Nat
  OBVIOUS
<1> QED
  BY <1>1, <1>2 DEF Batch

LEMMA FirstResult ==
  ASSUME TypeOK, Writing
  PROVE  /\ Head(results) \in BenchmarkResult
         /\ Tail(results) \in Seq(BenchmarkResult)
  BY DEF TypeOK, Writing

\* The state has its type.
LEMMA FileTypeStep == TypeOK /\ FileInv /\ [Next]_vars => TypeOK'
<1> SUFFICES ASSUME TypeOK, FileInv, [Next]_vars PROVE TypeOK'
  OBVIOUS
<1>1. CASE FindFile
  BY <1>1 DEF TypeOK, FindFile, disk, history
<1>2. CASE CreateFile
  BY <1>2 DEF TypeOK, CreateFile, history
<1>3. CASE CreateThrows
  BY <1>3 DEF TypeOK, CreateThrows, disk, history
<1>4. CASE WriteHeader \/ WriteHeaderCut
  <2>1. /\ file' \in Seq(Char) /\ UNCHANGED exists
        /\ cut' \in {cut, TRUE}
    BY <1>4, AppendType DEF WriteHeader, WriteHeaderCut, TypeOK
  <2>2. exists /\ pc' = "ready" /\ UNCHANGED <<results, processes, returned, headless>>
    BY <1>4 DEF WriteHeader, WriteHeaderCut, FileInv
  <2> QED
    BY <2>1, <2>2 DEF TypeOK
<1>5. CASE WriteAll
  BY <1>5, BatchType DEF TypeOK, WriteAll, disk, history
<1>6. CASE Write \/ WriteCut
  <2>1. Writing /\ Returned
    BY <1>6 DEF Write, WriteCut
  <2>2. /\ file' \in Seq(Char) /\ UNCHANGED exists
        /\ cut' \in {cut, TRUE}
    BY <1>6, <2>1, FirstResult, AppendType DEF Write, WriteCut, TypeOK
  <2>3. exists /\ UNCHANGED <<pc, processes, headless>>
    BY <2>1 DEF Returned, Writing, FileInv
  <2>4. returned' \in Seq(BenchmarkResult) /\ results' \in Seq(BenchmarkResult)
    BY <2>1, FirstResult DEF Returned, TypeOK
  <2> QED
    BY <2>2, <2>3, <2>4 DEF TypeOK
<1>7. CASE WriteThrows
  BY <1>7 DEF TypeOK, WriteThrows, disk, history
<1>8. CASE Exit
  BY <1>8 DEF TypeOK, Exit, disk
<1>9. CASE NewProcess
  BY <1>9, CSVWriterAssumption DEF TypeOK, NewProcess, disk, history
<1>10. CASE UNCHANGED vars
  BY <1>10 DEF TypeOK, vars, disk, history
<1> QED
  BY <1>1, <1>2, <1>3, <1>4, <1>5, <1>6, <1>7, <1>8, <1>9, <1>10 DEF Next

\* There is a file, and what is in it before the header.
LEMMA FileStep ==
  ASSUME FileInv, [Next]_vars
  PROVE  /\ pc' \in {"header", "ready"} => exists'
         /\ pc' = "header" => file' = <<>> /\ returned' = <<>> /\ ~headless'
         /\ ~exists' => returned' = <<>> /\ ~headless'
<1>1. CASE FindFile
  BY <1>1 DEF FileInv, FindFile, disk, history
<1>2. CASE CreateFile
  BY <1>2 DEF FileInv, CreateFile, history
<1>3. CASE CreateThrows
  BY <1>3 DEF FileInv, CreateThrows, disk, history
<1>4. CASE WriteHeader \/ WriteHeaderCut
  BY <1>4 DEF FileInv, WriteHeader, WriteHeaderCut, AppendWhole, AppendCut
<1>5. CASE WriteAll
  BY <1>5 DEF FileInv, WriteAll, disk, history
<1>6. CASE Write \/ WriteCut
  BY <1>6 DEF FileInv, Write, WriteCut, Writing, Returned, AppendWhole, AppendCut
<1>7. CASE WriteThrows
  BY <1>7 DEF FileInv, WriteThrows, disk, history
<1>8. CASE Exit
  BY <1>8 DEF FileInv, Exit, disk
<1>9. CASE NewProcess
  BY <1>9 DEF FileInv, NewProcess, disk, history
<1>10. CASE UNCHANGED vars
  BY <1>10 DEF FileInv, vars, disk, history
<1> QED
  BY <1>1, <1>2, <1>3, <1>4, <1>5, <1>6, <1>7, <1>8, <1>9, <1>10 DEF Next

\* A step that writes nothing leaves what is to be read as it is.
LEMMA NothingWritten ==
  ASSUME FileInv, UNCHANGED <<file, cut, HasHeader, returned>>
  PROVE  FileReadsBack'
<1>1. Written' = Written
  BY DEF Written
<1>2. FileReadsBack' <=> (~cut' => Read(file') = Reading(Written', <<>>, <<>>, "outside"))
  BY ReaderOf DEF FileReadsBack, Written
<1>3. ~cut => Read(file) = Reading(Written, <<>>, <<>>, "outside")
  BY ReadsBackIs DEF FileInv
<1> QED
  BY <1>1, <1>2, <1>3

\* A step that writes the whole of a line is read as one more row.
LEMMA RowWritten ==
  ASSUME FileInv,
         NEW row \in BenchmarkResult \cup {Header},
         AppendWhole(row), Written' = Append(Written, row)
  PROVE  FileReadsBack'
<1>1. FileReadsBack' <=> (~cut' => Read(file') = Reading(Written', <<>>, <<>>, "outside"))
  BY ReaderOf DEF FileReadsBack, Written
<1>2. file' = file \o Line(row) /\ cut' = cut
  BY DEF AppendWhole
<1>3. file \in Seq(Char) /\ Written \in Seq(Seq(Field)) /\ row \in Seq(Field) /\ row # <<>>
  BY WrittenType, LineType DEF FileInv, TypeOK
<1>4. SUFFICES ASSUME ~cut
               PROVE  Read(file \o Line(row)) = Reading(Append(Written, row), <<>>, <<>>, "outside")
  BY <1>1, <1>2
<1>5. Read(file) = Reading(Written, <<>>, <<>>, "outside")
  BY <1>4, ReadsBackIs DEF FileInv
<1> QED
  BY <1>3, <1>5, LineRead

\* Every step of the writer keeps what is written readable.
LEMMA ReadsBackStep ==
  ASSUME FileInv, [Next]_vars
  PROVE  FileReadsBack'
<1>1. CASE FindFile
  <2>1. UNCHANGED <<file, cut, HasHeader, returned>>
    BY <1>1 DEF FindFile, HasHeader, disk, history
  <2> QED
    BY <2>1, NothingWritten
<1>2. CASE CreateFile
  <2>1. UNCHANGED <<file, cut, HasHeader, returned>>
    BY <1>2 DEF FileInv, TypeOK, CreateFile, HasHeader, history
  <2> QED
    BY <2>1, NothingWritten
<1>3. CASE CreateThrows \/ WriteAll \/ WriteThrows \/ NewProcess \/ UNCHANGED vars
  <2>1. UNCHANGED <<file, cut, HasHeader, returned>>
    BY <1>3 DEF CreateThrows, WriteAll, WriteThrows, NewProcess, vars, HasHeader, disk, history
  <2> QED
    BY <2>1, NothingWritten
<1>4. CASE WriteHeader
  <2>1. ~HasHeader /\ HasHeader' /\ returned = <<>> /\ returned' = <<>>
    BY <1>4 DEF FileInv, TypeOK, WriteHeader, AppendWhole, HasHeader
  <2>2. Written' = Append(Written, Header)
    BY <2>1 DEF Written
  <2>3. AppendWhole(Header)
    BY <1>4 DEF WriteHeader
  <2> QED
    BY <2>2, <2>3, RowWritten
<1>5. CASE WriteHeaderCut \/ WriteCut
  <2>1. cut'
    BY <1>5 DEF WriteHeaderCut, WriteCut, AppendCut
  <2> QED
    BY <2>1 DEF FileReadsBack
<1>6. CASE Write
  <2> DEFINE row == Head(results)
  <2>1. row \in BenchmarkResult /\ AppendWhole(row)
    BY <1>6, FirstResult DEF FileInv, Write
  <2>2. HasHeader' = HasHeader /\ returned' = Append(returned, row)
    BY <1>6 DEF Write, Writing, Returned, AppendWhole, HasHeader
  <2> HIDE DEF row
  <2>3. Written' = Append(Written, row)
    <3> DEFINE start == IF HasHeader THEN <<Header>> ELSE <<>>
    <3>1. Written = start \o returned /\ Written' = start \o Append(returned, row)
      BY <2>2 DEF Written
    <3>2. start \in Seq(BenchmarkResult \cup {Header})
          /\ returned \in Seq(BenchmarkResult \cup {Header})
      <4>1. returned \in Seq(BenchmarkResult)
        BY DEF FileInv, TypeOK
      <4>2. Seq(BenchmarkResult) \subseteq Seq(BenchmarkResult \cup {Header})
        OBVIOUS
      <4>3. <<Header>> \in Seq(BenchmarkResult \cup {Header})
            /\ <<>> \in Seq(BenchmarkResult \cup {Header})
        OBVIOUS
      <4> QED
        BY <4>1, <4>2, <4>3
    <3> HIDE DEF start
    <3> QED
      BY <2>1, <3>1, <3>2, ConcatAppend
  <2> QED
    BY <2>1, <2>3, RowWritten
<1>7. CASE Exit
  <2>1. UNCHANGED <<file, cut, returned>>
    BY <1>7 DEF Exit, disk
  <2>2. HasHeader' = HasHeader
    BY <1>7 DEF FileInv, TypeOK, Exit, HasHeader, disk
  <2> QED
    BY <2>1, <2>2, NothingWritten
<1> QED
  BY <1>1, <1>2, <1>3, <1>4, <1>5, <1>6, <1>7 DEF Next

\* FileInv is an invariant, and inductive.
LEMMA FileInvariant == Spec => []FileInv
<1>1. Init => FileInv
  <2> SUFFICES ASSUME Init PROVE FileInv
    OBVIOUS
  <2>1. TypeOK
    <3>1. <<>> \in Seq(Char) /\ <<>> \in Seq(BenchmarkResult)
      OBVIOUS
    <3>2. 1 \in 1 .. MaxProcesses
      BY CSVWriterAssumption
    <3> QED
      BY <3>1, <3>2 DEF Init, TypeOK
  <2>2. FileReadsBack
    BY ReadEmpty DEF Init, FileReadsBack, HasHeader, Reader
  <2> QED
    BY <2>1, <2>2 DEF Init, FileInv
<1>2. FileInv /\ [Next]_vars => FileInv'
  <2> SUFFICES ASSUME FileInv, [Next]_vars PROVE FileInv'
    OBVIOUS
  <2>1. TypeOK'
    BY FileTypeStep DEF FileInv
  <2> QED
    BY <2>1, FileStep, ReadsBackStep DEF FileInv
<1> QED
  BY <1>1, <1>2, PTL DEF Spec

\* The result file and its writers keep their types: what is in the file is text,
\* and a file that does not exist is empty.
THEOREM FileTypeCorrect == Spec => []TypeOK
<1>1. FileInv => TypeOK
  BY DEF FileInv
<1> QED
  BY <1>1, FileInvariant, PTL

\* As long as no full disk has cut a line, a reader of the result file gets the
\* header once, if a process has written it, and then every result for which
\* write() has returned, in order and field by field: for any number of rows and
\* processes, and whatever characters the fields have.
THEOREM FileIsReadBack == Spec => []FileReadsBack
<1>1. FileInv => FileReadsBack
  BY DEF FileInv
<1> QED
  BY <1>1, FileInvariant, PTL

\* What there was of a text is a beginning of what there is.
LEMMA PrefixOfConcat ==
  ASSUME NEW text \in Seq(Char), NEW written \in Seq(Char)
  PROVE  IsPrefix(text, text \o written)
<1>1. Len(text) <= Len(text \o written)
  OBVIOUS
<1>2. SubSeq(text, 1, Len(text)) = SubSeq(text \o written, 1, Len(text))
  OBVIOUS
<1> QED
  BY <1>1, <1>2 DEF IsPrefix

\* No step takes anything from the file.
LEMMA GrowsStep == FileInv /\ [Next]_vars => [IsPrefix(file, file')]_vars
<1> SUFFICES ASSUME FileInv, [Next]_vars PROVE IsPrefix(file, file') \/ UNCHANGED vars
  OBVIOUS
<1>1. ASSUME NEW row \in BenchmarkResult \cup {Header}, AppendWhole(row) \/ AppendCut(row)
      PROVE  IsPrefix(file, file')
  BY <1>1, AppendType, PrefixOfConcat DEF FileInv, TypeOK
<1>2. ASSUME UNCHANGED file PROVE IsPrefix(file, file')
  BY <1>2 DEF IsPrefix
<1>3. CASE FindFile \/ CreateThrows \/ WriteAll \/ WriteThrows \/ Exit \/ NewProcess
  <2>1. UNCHANGED file
    BY <1>3 DEF FindFile, CreateThrows, WriteAll, WriteThrows, Exit, NewProcess, disk
  <2> QED
    BY <1>2, <2>1
<1>4. CASE CreateFile
  <2>1. UNCHANGED file
    BY <1>4 DEF CreateFile, FileInv, TypeOK
  <2> QED
    BY <1>2, <2>1
<1>5. CASE WriteHeader \/ WriteHeaderCut
  BY <1>1, <1>5 DEF WriteHeader, WriteHeaderCut
<1>6. CASE Write \/ WriteCut
  <2>1. Head(results) \in BenchmarkResult
    BY <1>6, FirstResult DEF FileInv, Write, WriteCut
  <2> QED
    BY <1>1, <1>6, <2>1 DEF Write, WriteCut
<1> QED
  BY <1>3, <1>4, <1>5, <1>6 DEF Next

\* No constructor, write() or exit of a process changes what is already in the
\* result file: each only adds to its end.
THEOREM FileGrows == Spec => FileOnlyGrows
  BY FileInvariant, GrowsStep, PTL DEF Spec, FileOnlyGrows

-----------------------------------------------------------------------------
(* The final summary *)

\* The names of some results.
NamesOf(R) == {r.experiment_name : r \in R}

NameStep(R) ==
  [names \in Seq(NamesOf(R)) |-> [r \in R |->
     IF Contains(names, r.experiment_name) THEN names ELSE Append(names, r.experiment_name)]]

LineStep(R, name) ==
  [lines \in Seq(R) |-> [r \in R |->
     IF r.experiment_name # name THEN lines ELSE Append(lines, r)]]

LEMMA NameIsStep ==
  ASSUME NEW R
  PROVE  IsStep(Seq(NamesOf(R)), R, <<>>, NameStep(R))
<1>1. ASSUME NEW names \in Seq(NamesOf(R)), NEW r \in R
      PROVE  Append(names, r.experiment_name) \in Seq(NamesOf(R))
  BY DEF NamesOf
<1> QED
  BY <1>1 DEF IsStep, NameStep

LEMMA LineIsStep ==
  ASSUME NEW R, NEW name
  PROVE  IsStep(Seq(R), R, <<>>, LineStep(R, name))
<1>1. ASSUME NEW lines \in Seq(R), NEW r \in R PROVE Append(lines, r) \in Seq(R)
  OBVIOUS
<1> QED
  BY <1>1 DEF IsStep, LineStep

\* The loops of print_final_summary fold their steps over the results.
LEMMA NamesAreLeft ==
  ASSUME NEW R, NEW all \in Seq(R)
  PROVE  ExpNames(all) = Left(Seq(NamesOf(R)), <<>>, NameStep(R), all)
<1> DEFINE D == 1 .. Len(all)
           next(names, r) == IF Contains(names, r.experiment_name) THEN names
                             ELSE Append(names, r.experiment_name)
           value(f, s) == IF s = {} THEN <<>> ELSE next(f[s \ {Max(s)}], all[Max(s)])
           fold == CHOOSE fold : fold = [s \in SUBSET DOMAIN all |-> value(fold, s)]
<1>1. DOMAIN all = D /\ Len(all) \in Nat /\ \A i \in D : all[i] \in R
  OBVIOUS
<1>2. \A s \in (SUBSET D) \ {{}} : Max(s) \in s
  BY <1>1, LatestIs
<1>3. PICK f \in [SUBSET D -> Seq(NamesOf(R))] : LeftFold(f, <<>>, NameStep(R), all)
  BY NameIsStep, LeftFoldExists
<1>4. ASSUME NEW s \in SUBSET D, s # {}, NEW names \in Seq(NamesOf(R))
      PROVE  NameStep(R)[names][all[Max(s)]] = next(names, all[Max(s)])
  <2>1. all[Max(s)] \in R
    BY <1>1, <1>2, <1>4
  <2> QED
    BY <2>1 DEF NameStep
<1> HIDE DEF next
<1>5. f = [s \in SUBSET D |-> value(f, s)]
  <2>1. ASSUME NEW s \in SUBSET D PROVE f[s] = value(f, s)
    <3>1. CASE s = {}
      BY <1>3, <3>1 DEF LeftFold
    <3>2. CASE s # {}
      <4>1. /\ f[s] = NameStep(R)[f[s \ {Max(s)}]][all[Max(s)]]
            /\ f[s \ {Max(s)}] \in Seq(NamesOf(R))
        BY <1>3, <3>2 DEF LeftFold
      <4> QED
        BY <1>4, <3>2, <4>1
    <3> QED
      BY <3>1, <3>2
  <2> HIDE DEF value
  <2> QED
    BY <2>1
<1>6. ExpNames(all) = fold[DOMAIN all]
  BY DEF ExpNames, FoldLeft, MapThenFoldSet, next
<1>7. fold = [s \in SUBSET D |-> value(fold, s)]
  <2>1. \E g : g = [s \in SUBSET DOMAIN all |-> value(g, s)]
    BY <1>1, <1>5
  <2>2. fold = [s \in SUBSET DOMAIN all |-> value(fold, s)]
    BY <2>1
  <2> HIDE DEF fold
  <2> QED
    BY <1>1, <2>2
<1> HIDE DEF fold
<1>8. LeftFoldWithin(fold, Seq(NamesOf(R)), <<>>, NameStep(R), all)
  <2>1. \A s \in SUBSET D : fold[s] = value(fold, s)
    BY <1>7
  <2> QED
    BY <1>4, <2>1 DEF LeftFoldWithin
<1> QED
  BY <1>1, <1>6, <1>8, NameIsStep, LeftIs

LEMMA LinesAreLeft ==
  ASSUME NEW R, NEW all \in Seq(R), NEW name
  PROVE  TableLines(all, name) = Left(Seq(R), <<>>, LineStep(R, name), all)
<1> DEFINE D == 1 .. Len(all)
           next(lines, r) == IF r.experiment_name # name THEN lines ELSE Append(lines, r)
           value(f, s) == IF s = {} THEN <<>> ELSE next(f[s \ {Max(s)}], all[Max(s)])
           fold == CHOOSE fold : fold = [s \in SUBSET DOMAIN all |-> value(fold, s)]
<1>1. DOMAIN all = D /\ Len(all) \in Nat /\ \A i \in D : all[i] \in R
  OBVIOUS
<1>2. \A s \in (SUBSET D) \ {{}} : Max(s) \in s
  BY <1>1, LatestIs
<1>3. PICK f \in [SUBSET D -> Seq(R)] : LeftFold(f, <<>>, LineStep(R, name), all)
  BY LineIsStep, LeftFoldExists
<1>4. ASSUME NEW s \in SUBSET D, s # {}, NEW lines \in Seq(R)
      PROVE  LineStep(R, name)[lines][all[Max(s)]] = next(lines, all[Max(s)])
  <2>1. all[Max(s)] \in R
    BY <1>1, <1>2, <1>4
  <2> QED
    BY <2>1 DEF LineStep
<1> HIDE DEF next
<1>5. f = [s \in SUBSET D |-> value(f, s)]
  <2>1. ASSUME NEW s \in SUBSET D PROVE f[s] = value(f, s)
    <3>1. CASE s = {}
      BY <1>3, <3>1 DEF LeftFold
    <3>2. CASE s # {}
      <4>1. /\ f[s] = LineStep(R, name)[f[s \ {Max(s)}]][all[Max(s)]]
            /\ f[s \ {Max(s)}] \in Seq(R)
        BY <1>3, <3>2 DEF LeftFold
      <4> QED
        BY <1>4, <3>2, <4>1
    <3> QED
      BY <3>1, <3>2
  <2> HIDE DEF value
  <2> QED
    BY <2>1
<1>6. TableLines(all, name) = fold[DOMAIN all]
  BY DEF TableLines, FoldLeft, MapThenFoldSet, next
<1>7. fold = [s \in SUBSET D |-> value(fold, s)]
  <2>1. \E g : g = [s \in SUBSET DOMAIN all |-> value(g, s)]
    BY <1>1, <1>5
  <2>2. fold = [s \in SUBSET DOMAIN all |-> value(fold, s)]
    BY <2>1
  <2> HIDE DEF fold
  <2> QED
    BY <1>1, <2>2
<1> HIDE DEF fold
<1>8. LeftFoldWithin(fold, Seq(R), <<>>, LineStep(R, name), all)
  <2>1. \A s \in SUBSET D : fold[s] = value(fold, s)
    BY <1>7
  <2> QED
    BY <1>4, <2>1 DEF LeftFoldWithin
<1> QED
  BY <1>1, <1>6, <1>8, LineIsStep, LeftIs

\* One result more.
LEMMA NamesAppend ==
  ASSUME NEW R, NEW all \in Seq(R), NEW r \in R
  PROVE  /\ ExpNames(<<>>) = <<>>
         /\ ExpNames(all) \in Seq(NamesOf(R))
         /\ ExpNames(Append(all, r)) =
              IF Contains(ExpNames(all), r.experiment_name) THEN ExpNames(all)
              ELSE Append(ExpNames(all), r.experiment_name)
<1> DEFINE N == Seq(NamesOf(R))
<1>1. Append(all, r) \in Seq(R) /\ <<>> \in Seq(R)
  OBVIOUS
<1>2. ExpNames(<<>>) = <<>>
  <2>1. ExpNames(<<>>) = Left(N, <<>>, NameStep(R), <<>>)
    BY <1>1, NamesAreLeft
  <2> QED
    BY <2>1, NameIsStep, LeftEmpty
<1>3. ExpNames(all) \in N
  <2>1. Left(N, <<>>, NameStep(R), all) \in N
    BY NameIsStep, LeftType
  <2> QED
    BY <2>1, NamesAreLeft
<1>4. Left(N, <<>>, NameStep(R), Append(all, r))
        = NameStep(R)[Left(N, <<>>, NameStep(R), all)][r]
  BY NameIsStep, LeftAppend
<1>5. ExpNames(Append(all, r)) = NameStep(R)[ExpNames(all)][r]
  BY <1>1, <1>4, NamesAreLeft
<1> QED
  BY <1>2, <1>3, <1>5 DEF NameStep

LEMMA LinesAppend ==
  ASSUME NEW R, NEW all \in Seq(R), NEW r \in R, NEW name
  PROVE  /\ TableLines(<<>>, name) = <<>>
         /\ TableLines(all, name) \in Seq(R)
         /\ TableLines(Append(all, r), name) =
              IF r.experiment_name # name THEN TableLines(all, name)
              ELSE Append(TableLines(all, name), r)
<1>1. Append(all, r) \in Seq(R) /\ <<>> \in Seq(R)
  OBVIOUS
<1>2. TableLines(<<>>, name) = <<>>
  <2>1. TableLines(<<>>, name) = Left(Seq(R), <<>>, LineStep(R, name), <<>>)
    BY <1>1, LinesAreLeft
  <2> QED
    BY <2>1, LineIsStep, LeftEmpty
<1>3. TableLines(all, name) \in Seq(R)
  <2>1. Left(Seq(R), <<>>, LineStep(R, name), all) \in Seq(R)
    BY LineIsStep, LeftType
  <2> QED
    BY <2>1, LinesAreLeft
<1>4. Left(Seq(R), <<>>, LineStep(R, name), Append(all, r))
        = LineStep(R, name)[Left(Seq(R), <<>>, LineStep(R, name), all)][r]
  BY LineIsStep, LeftAppend
<1>5. TableLines(Append(all, r), name) = LineStep(R, name)[TableLines(all, name)][r]
  BY <1>1, <1>4, LinesAreLeft
<1> QED
  BY <1>2, <1>3, <1>5 DEF LineStep

\* How many elements of a sequence are in a set.
CountIn(s, P) == Cardinality({i \in DOMAIN s : s[i] \in P})

LEMMA CountType ==
  ASSUME NEW R, NEW s \in Seq(R), NEW P
  PROVE  CountIn(<<>>, P) = 0 /\ CountIn(s, P) \in Nat
<1>1. CountIn(<<>>, P) = 0
  <2>1. {i \in DOMAIN <<>> : <<>>[i] \in P} = {}
    OBVIOUS
  <2> QED
    BY <2>1, FS_EmptySet DEF CountIn
<1>2. CountIn(s, P) \in Nat
  <2>1. {i \in DOMAIN s : s[i] \in P} \subseteq 1 .. Len(s) /\ Len(s) \in Nat
    OBVIOUS
  <2> DEFINE there == {i \in DOMAIN s : s[i] \in P}
             D == 1 .. Len(s)
  <2>2. IsFiniteSet(D) /\ there \subseteq D
    BY <2>1, FS_Interval
  <2> HIDE DEF there, D
  <2>3. Cardinality(there) \in Nat
    BY <2>2, FS_Subset, FS_CardinalityType
  <2> QED
    BY <2>3 DEF CountIn, there
<1> QED
  BY <1>1, <1>2

\* One element more.
LEMMA CountAppend ==
  ASSUME NEW R, NEW s \in Seq(R), NEW e \in R, NEW P
  PROVE  CountIn(Append(s, e), P) = CountIn(s, P) + (IF e \in P THEN 1 ELSE 0)
<1> DEFINE n == Len(s)
           before == {i \in 1 .. n : s[i] \in P}
           after == {i \in 1 .. n + 1 : Append(s, e)[i] \in P}
<1>1. n \in Nat /\ DOMAIN s = 1 .. n /\ DOMAIN Append(s, e) = 1 .. n + 1
  OBVIOUS
<1>2. IsFiniteSet(1 .. n) /\ before \subseteq 1 .. n
  BY <1>1, FS_Interval
<1>3. IsFiniteSet(before) /\ Cardinality(before) \in Nat
  BY <1>2, FS_Subset, FS_CardinalityType
<1>4. after = IF e \in P THEN before \cup {n + 1} ELSE before
  <2>1. \A i \in 1 .. n : Append(s, e)[i] = s[i] /\ i # n + 1
    BY <1>1
  <2>2. Append(s, e)[n + 1] = e /\ 1 .. n + 1 = (1 .. n) \cup {n + 1}
    BY <1>1
  <2> QED
    BY <2>1, <2>2
<1>5. n + 1 \notin before
  BY <1>1
<1>6. CountIn(s, P) = Cardinality(before) /\ CountIn(Append(s, e), P) = Cardinality(after)
  BY <1>1 DEF CountIn
<1> HIDE DEF before, after
<1>7. Cardinality(before \cup {n + 1}) = Cardinality(before) + 1
  BY <1>3, <1>5, FS_AddElement
<1> QED
  BY <1>3, <1>4, <1>6, <1>7

\* What is in one of two sequences.
LEMMA CountConcat ==
  ASSUME NEW R, NEW s \in Seq(R), NEW t \in Seq(R), NEW P
  PROVE  CountIn(s \o t, P) = CountIn(s, P) + CountIn(t, P)
<1> DEFINE F == {u \in Seq(R) : CountIn(s \o u, P) = CountIn(s, P) + CountIn(u, P)}
<1>1. <<>> \in F
  <2>1. s \o <<>> = s /\ <<>> \in Seq(R)
    OBVIOUS
  <2>2. CountIn(<<>>, P) = 0 /\ CountIn(s, P) \in Nat
    BY CountType
  <2> QED
    BY <2>1, <2>2
<1>2. ASSUME NEW u \in Seq(R), NEW e \in R, u \in F PROVE Append(u, e) \in F
  <2> DEFINE w == s \o u
             one == IF e \in P THEN 1 ELSE 0
  <2>1. w \in Seq(R) /\ Append(u, e) \in Seq(R) /\ s \o Append(u, e) = Append(w, e)
    OBVIOUS
  <2>2. CountIn(w, P) = CountIn(s, P) + CountIn(u, P)
    BY <1>2
  <2> HIDE DEF w
  <2>3. CountIn(Append(u, e), P) = CountIn(u, P) + one
    BY CountAppend
  <2>4. CountIn(Append(w, e), P) = CountIn(w, P) + one
    BY <2>1, CountAppend
  <2>5. CountIn(u, P) \in Nat /\ CountIn(s, P) \in Nat /\ one \in Nat
    BY CountType
  <2> HIDE DEF one
  <2>6. CountIn(Append(w, e), P) = CountIn(s, P) + CountIn(Append(u, e), P)
    BY <2>2, <2>3, <2>4, <2>5
  <2> QED
    BY <2>1, <2>6
<1> HIDE DEF F
<1>3. Seq(R) \subseteq F
  BY <1>1, <1>2, SeqSetInduction
<1> QED
  BY <1>3 DEF F

\* What is in one of two sets.
LEMMA CountUnion ==
  ASSUME NEW R, NEW s \in Seq(R), NEW P, NEW Q, P \cap Q = {}
  PROVE  CountIn(s, P \cup Q) = CountIn(s, P) + CountIn(s, Q)
<1> DEFINE n == Len(s)
           inP == {i \in 1 .. n : s[i] \in P}
           inQ == {i \in 1 .. n : s[i] \in Q}
<1>1. n \in Nat /\ DOMAIN s = 1 .. n
  OBVIOUS
<1>2. IsFiniteSet(1 .. n) /\ inP \subseteq 1 .. n /\ inQ \subseteq 1 .. n
  BY <1>1, FS_Interval
<1>3. inP \cap inQ = {} /\ {i \in 1 .. n : s[i] \in P \cup Q} = inP \cup inQ
  OBVIOUS
<1>4. /\ CountIn(s, P) = Cardinality(inP) /\ CountIn(s, Q) = Cardinality(inQ)
      /\ CountIn(s, P \cup Q) = Cardinality(inP \cup inQ)
  BY <1>1, <1>3 DEF CountIn
<1> HIDE DEF inP, inQ
<1>5. IsFiniteSet(inP) /\ IsFiniteSet(inQ)
  BY <1>2, FS_Subset
<1>6. inP \cap inQ = {}
  BY <1>3
<1>7. Cardinality(inP \cup inQ) = Cardinality(inP) + Cardinality(inQ)
  <2>1. Cardinality(inP \cap inQ) = 0
    BY <1>6, FS_EmptySet
  <2> QED
    <3>1. Cardinality(inP \cup inQ)
            = Cardinality(inP) + Cardinality(inQ) - Cardinality(inP \cap inQ)
      BY <1>5, FS_Union
    <3>2. Cardinality(inP) \in Nat /\ Cardinality(inQ) \in Nat
      BY <1>5, FS_CardinalityType
    <3> QED
      BY <2>1, <3>1, <3>2
<1> QED
  BY <1>4, <1>7

LEMMA CountSame ==
  ASSUME NEW R, NEW s \in Seq(R), NEW P, NEW Q, \A e \in R : e \in P <=> e \in Q
  PROVE  CountIn(s, P) = CountIn(s, Q)
<1>1. \A i \in DOMAIN s : s[i] \in R
  OBVIOUS
<1>2. {i \in DOMAIN s : s[i] \in P} = {i \in DOMAIN s : s[i] \in Q}
  BY <1>1
<1> QED
  BY <1>2, Zenon DEF CountIn

LEMMA CountAll ==
  ASSUME NEW R, NEW s \in Seq(R)
  PROVE  CountIn(s, R) = Len(s)
<1>1. {i \in DOMAIN s : s[i] \in R} = 1 .. Len(s) /\ Len(s) \in Nat
  OBVIOUS
<1>2. \A n \in Nat : Cardinality(1 .. n) = n
  BY FS_Interval
<1> QED
  BY <1>1, <1>2 DEF CountIn

\* The results of one experiment.
OfName(P, name) == {r \in P : r.experiment_name = name}

\* The table of a name has the results of that name.
LEMMA LinesCount ==
  ASSUME NEW R, NEW all \in Seq(R), NEW name, NEW P
  PROVE  /\ TableLines(all, name) \in Seq(R)
         /\ CountIn(TableLines(all, name), P) = CountIn(all, OfName(P, name))
         /\ \A i \in DOMAIN TableLines(all, name) :
              TableLines(all, name)[i].experiment_name = name
<1> DEFINE lines(s) == TableLines(s, name)
           Right(s) == /\ lines(s) \in Seq(R)
                       /\ CountIn(lines(s), P) = CountIn(s, OfName(P, name))
                       /\ \A i \in DOMAIN lines(s) : lines(s)[i].experiment_name = name
           F == {s \in Seq(R) : Right(s)}
<1>1. <<>> \in F
  <2>1. <<>> \in Seq(R) /\ DOMAIN <<>> = {}
    OBVIOUS
  <2>2. lines(<<>>) = <<>>
    <3>1. lines(<<>>) = Left(Seq(R), <<>>, LineStep(R, name), <<>>)
      BY <2>1, LinesAreLeft
    <3> QED
      BY <3>1, LineIsStep, LeftEmpty
  <2>3. CountIn(<<>>, P) = 0 /\ CountIn(<<>>, OfName(P, name)) = 0
    BY <2>1, CountType
  <2> QED
    BY <2>1, <2>2, <2>3
<1>2. ASSUME NEW s \in Seq(R), NEW r \in R, s \in F PROVE Append(s, r) \in F
  <2>1. Append(s, r) \in Seq(R)
    OBVIOUS
  <2>2. Right(s)
    BY <1>2
  <2>3. lines(Append(s, r)) = IF r.experiment_name # name THEN lines(s) ELSE Append(lines(s), r)
    BY LinesAppend
  <2>4. CountIn(Append(s, r), OfName(P, name))
          = CountIn(s, OfName(P, name)) + (IF r \in OfName(P, name) THEN 1 ELSE 0)
    BY CountAppend
  <2>5. CountIn(s, OfName(P, name)) \in Nat
    BY CountType
  <2> HIDE DEF lines
  <2>6. CASE r.experiment_name # name
    <3>1. r \notin OfName(P, name)
      BY <2>6 DEF OfName
    <3>2. CountIn(Append(s, r), OfName(P, name)) = CountIn(s, OfName(P, name))
      BY <2>4, <2>5, <3>1
    <3>3. lines(Append(s, r)) = lines(s)
      BY <2>3, <2>6
    <3>4. Right(Append(s, r))
      BY <2>2, <3>2, <3>3
    <3> QED
      BY <2>1, <3>4
  <2>7. CASE r.experiment_name = name
    <3>1. r \in OfName(P, name) <=> r \in P
      BY <2>7 DEF OfName
    <3>2. lines(Append(s, r)) = Append(lines(s), r) /\ Append(lines(s), r) \in Seq(R)
      BY <2>2, <2>3, <2>7
    <3>3. CountIn(Append(lines(s), r), P) = CountIn(lines(s), P) + (IF r \in P THEN 1 ELSE 0)
      BY <2>2, CountAppend
    <3>4. \A i \in DOMAIN Append(lines(s), r) : Append(lines(s), r)[i].experiment_name = name
      BY <2>2, <2>7
    <3>5. CountIn(Append(lines(s), r), P) = CountIn(Append(s, r), OfName(P, name))
      BY <2>2, <2>4, <3>1, <3>3
    <3>6. Right(Append(s, r))
      BY <3>2, <3>4, <3>5
    <3> QED
      BY <2>1, <3>6
  <2> QED
    BY <2>6, <2>7
<1> HIDE DEF F
<1>3. Seq(R) \subseteq F
  BY <1>1, <1>2, SeqSetInduction
<1> QED
  BY <1>3 DEF F

\* The names are those of the results, in the order in which they come first.
NamesInOrder(names, s) ==
  /\ \A k \in DOMAIN s : \E i \in DOMAIN names : names[i] = s[k].experiment_name
  /\ \A i \in DOMAIN names : \E k \in DOMAIN s : s[k].experiment_name = names[i]
  /\ \A i, j \in DOMAIN names : i < j =>
       \E k \in DOMAIN s :
         /\ s[k].experiment_name = names[i]
         /\ \A l \in DOMAIN s : s[l].experiment_name = names[j] => k < l

\* exp_names has the names in their order.
LEMMA NamesAre ==
  ASSUME NEW R, NEW all \in Seq(R)
  PROVE  /\ ExpNames(all) \in Seq(NamesOf(R))
         /\ NamesInOrder(ExpNames(all), all)
<1> DEFINE F == {s \in Seq(R) : ExpNames(s) \in Seq(NamesOf(R)) /\ NamesInOrder(ExpNames(s), s)}
<1>1. <<>> \in F
  <2>1. <<>> \in Seq(R) /\ DOMAIN <<>> = {} /\ <<>> \in Seq(NamesOf(R))
    OBVIOUS
  <2>2. ExpNames(<<>>) = <<>>
    <3>1. ExpNames(<<>>) = Left(Seq(NamesOf(R)), <<>>, NameStep(R), <<>>)
      BY <2>1, NamesAreLeft
    <3> QED
      BY <3>1, NameIsStep, LeftEmpty
  <2>3. NamesInOrder(<<>>, <<>>)
    BY <2>1 DEF NamesInOrder
  <2> QED
    BY <2>1, <2>2, <2>3
<1>2. ASSUME NEW s \in Seq(R), NEW r \in R, s \in F PROVE Append(s, r) \in F
  <2> DEFINE e == ExpNames(s)
             t == Append(s, r)
             n == Len(s)
             name == r.experiment_name
  <2>1. e \in Seq(NamesOf(R)) /\ NamesInOrder(e, s)
    BY <1>2
  <2>2. ExpNames(t) = IF Contains(e, name) THEN e ELSE Append(e, name)
    BY NamesAppend
  <2>3. /\ n \in Nat /\ DOMAIN s = 1 .. n /\ DOMAIN t = 1 .. n + 1
        /\ t \in Seq(R) /\ t[n + 1] = r /\ \A k \in 1 .. n : t[k] = s[k]
    OBVIOUS
  <2>4. DOMAIN e = 1 .. Len(e) /\ Len(e) \in Nat /\ name \in NamesOf(R)
    BY <2>1 DEF NamesOf
  <2>5. 1 .. n + 1 = (1 .. n) \cup {n + 1} /\ \A k \in 1 .. n : k < n + 1
    BY <2>3
  <2> HIDE DEF e, t, n
  <2>6. CASE Contains(e, name)
    <3>1. \A k \in DOMAIN t : \E i \in DOMAIN e : e[i] = t[k].experiment_name
      <4>1. \E i \in DOMAIN e : e[i] = name
        BY <2>4, <2>6 DEF Contains
      <4> QED
        BY <2>1, <2>3, <2>5, <4>1 DEF NamesInOrder
    <3>2. \A i \in DOMAIN e : \E k \in DOMAIN t : t[k].experiment_name = e[i]
      BY <2>1, <2>3, <2>5 DEF NamesInOrder
    <3>3. ASSUME NEW i \in DOMAIN e, NEW j \in DOMAIN e, i < j
          PROVE  \E k \in DOMAIN t :
                   /\ t[k].experiment_name = e[i]
                   /\ \A l \in DOMAIN t : t[l].experiment_name = e[j] => k < l
      <4>1. PICK k \in DOMAIN s :
                   /\ s[k].experiment_name = e[i]
                   /\ \A l \in DOMAIN s : s[l].experiment_name = e[j] => k < l
        BY <2>1, <3>3 DEF NamesInOrder
      <4>2. k \in DOMAIN t /\ t[k].experiment_name = e[i]
        BY <2>3, <2>5, <4>1
      <4>3. \A l \in DOMAIN t : t[l].experiment_name = e[j] => k < l
        BY <2>3, <2>5, <4>1
      <4> QED
        BY <4>2, <4>3
    <3>4. NamesInOrder(e, t)
      BY <3>1, <3>2, <3>3 DEF NamesInOrder
    <3> QED
      BY <2>1, <2>2, <2>3, <2>6, <3>4 DEF t
  <2>7. CASE ~Contains(e, name)
    <3> DEFINE more == Append(e, name)
               m == Len(e)
    <3>1. /\ more \in Seq(NamesOf(R)) /\ DOMAIN more = (1 .. m) \cup {m + 1} /\ DOMAIN e = 1 .. m
          /\ more[m + 1] = name /\ \A i \in 1 .. m : more[i] = e[i] /\ i < m + 1
          /\ \A i \in (1 .. m) \cup {m + 1} : ~ (m + 1 < i)
      BY <2>1, <2>4
    <3>2. \A k \in DOMAIN s : s[k].experiment_name # name
      <4>1. \A i \in DOMAIN e : e[i] # name
        BY <2>4, <2>7 DEF Contains
      <4> QED
        BY <2>1, <4>1 DEF NamesInOrder
    <3> HIDE DEF more, m
    <3>3. ASSUME NEW k \in DOMAIN t
          PROVE  \E i \in DOMAIN more : more[i] = t[k].experiment_name
      <4>1. CASE k = n + 1
        <5>1. m + 1 \in DOMAIN more /\ more[m + 1] = t[k].experiment_name
          BY <2>3, <3>1, <4>1
        <5> QED
          BY <5>1
      <4>2. CASE k \in DOMAIN s
        <5>1. PICK i \in DOMAIN e : e[i] = s[k].experiment_name
          BY <2>1, <4>2 DEF NamesInOrder
        <5> QED
          BY <2>3, <3>1, <4>2, <5>1
      <4> QED
        BY <2>3, <2>5, <4>1, <4>2
    <3>4. ASSUME NEW i \in DOMAIN more
          PROVE  \E k \in DOMAIN t : t[k].experiment_name = more[i]
      <4>1. CASE i = m + 1
        <5>1. n + 1 \in DOMAIN t /\ t[n + 1].experiment_name = more[i]
          BY <2>3, <2>5, <3>1, <4>1
        <5> QED
          BY <5>1
      <4>2. CASE i \in 1 .. m
        <5>1. PICK k \in DOMAIN s : s[k].experiment_name = e[i]
          BY <2>1, <3>1, <4>2 DEF NamesInOrder
        <5> QED
          BY <2>3, <2>5, <3>1, <4>2, <5>1
      <4> QED
        BY <3>1, <4>1, <4>2
    <3>5. ASSUME NEW i \in DOMAIN more, NEW j \in DOMAIN more, i < j
          PROVE  \E k \in DOMAIN t :
                   /\ t[k].experiment_name = more[i]
                   /\ \A l \in DOMAIN t : t[l].experiment_name = more[j] => k < l
      <4>1. i \in 1 .. m /\ more[i] = e[i]
        <5>1. i # m + 1
          BY <3>1, <3>5
        <5> QED
          BY <3>1, <5>1
      <4>2. CASE j \in 1 .. m
        <5>1. PICK k \in DOMAIN s :
                     /\ s[k].experiment_name = e[i]
                     /\ \A l \in DOMAIN s : s[l].experiment_name = e[j] => k < l
          BY <2>1, <3>1, <3>5, <4>1, <4>2 DEF NamesInOrder
        <5>2. k \in DOMAIN t /\ t[k].experiment_name = more[i]
          BY <2>3, <2>5, <4>1, <5>1
        <5>3. \A l \in DOMAIN t : t[l].experiment_name = more[j] => k < l
          BY <2>3, <2>5, <3>1, <4>2, <5>1
        <5> QED
          BY <5>2, <5>3
      <4>3. CASE j = m + 1
        <5>1. PICK k \in DOMAIN s : s[k].experiment_name = e[i]
          BY <2>1, <3>1, <4>1 DEF NamesInOrder
        <5>2. k \in DOMAIN t /\ t[k].experiment_name = more[i]
          BY <2>3, <2>5, <4>1, <5>1
        <5>3. \A l \in DOMAIN t : t[l].experiment_name = more[j] => k < l
          BY <2>3, <2>5, <3>1, <3>2, <4>3, <5>1
        <5> QED
          BY <5>2, <5>3
      <4> QED
        BY <3>1, <4>2, <4>3
    <3>6. NamesInOrder(more, t)
      BY <3>3, <3>4, <3>5 DEF NamesInOrder
    <3> QED
      BY <2>2, <2>3, <2>7, <3>1, <3>6 DEF t, more
  <2> QED
    BY <2>6, <2>7
<1> HIDE DEF F
<1>3. Seq(R) \subseteq F
  BY <1>1, <1>2, SeqSetInduction
<1> QED
  BY <1>3 DEF F

\* The lines of the tables of some names, one table after the other.
LinesOf(names, s) == FlattenSeq([i \in DOMAIN names |-> TableLines(s, names[i])])

NoRepeat(names) == \A i, j \in DOMAIN names : names[i] = names[j] => i = j

OfNames(P, names) == {r \in P : \E i \in DOMAIN names : names[i] = r.experiment_name}

\* The tables of different names have the results of these names, each once.
LEMMA LinesOfCount ==
  ASSUME NEW R, NEW all \in Seq(R), NEW N, NEW names \in Seq(N), NoRepeat(names), NEW P
  PROVE  /\ LinesOf(names, all) \in Seq(R)
         /\ CountIn(LinesOf(names, all), P) = CountIn(all, OfNames(P, names))
<1> DEFINE table(name) == TableLines(all, name)
           tables(e) == [i \in DOMAIN e |-> table(e[i])]
           Right(e) == /\ LinesOf(e, all) \in Seq(R)
                       /\ CountIn(LinesOf(e, all), P) = CountIn(all, OfNames(P, e))
           F == {e \in Seq(N) : NoRepeat(e) => Right(e)}
<1>1. \A name : table(name) \in Seq(R)
  BY LinesCount
<1> HIDE DEF table
<1>2. \A e : LinesOf(e, all) = FlattenSeq(tables(e))
  BY DEF LinesOf, table
<1>3. <<>> \in F
  <2>1. <<>> \in Seq(N) /\ <<>> \in Seq(R) /\ <<>> \in Seq(Seq(R)) /\ tables(<<>>) = <<>>
    OBVIOUS
  <2>2. LinesOf(<<>>, all) = <<>>
    BY <1>2, <2>1, FlattenAppend
  <2>3. OfNames(P, <<>>) = {}
    BY DEF OfNames
  <2>4. CountIn(<<>>, P) = 0
    BY <2>1, CountType
  <2>5. CountIn(all, {}) = 0
    <3>1. {i \in DOMAIN all : all[i] \in {}} = {}
      OBVIOUS
    <3> QED
      BY <3>1, FS_EmptySet DEF CountIn
  <2> QED
    BY <2>1, <2>2, <2>3, <2>4, <2>5
<1>4. ASSUME NEW e \in Seq(N), NEW name \in N, e \in F PROVE Append(e, name) \in F
  <2> DEFINE more == Append(e, name)
             n == Len(e)
  <2>1. /\ n \in Nat /\ more \in Seq(N) /\ DOMAIN e = 1 .. n /\ DOMAIN more = (1 .. n) \cup {n + 1}
        /\ more[n + 1] = name /\ \A i \in 1 .. n : more[i] = e[i] /\ i # n + 1
    OBVIOUS
  <2> SUFFICES ASSUME NoRepeat(more) PROVE Right(more)
    BY <2>1
  <2>2. tables(e) \in Seq(Seq(R))
    <3>1. tables(e) \in [1 .. n -> Seq(R)]
      BY <1>1, <2>1
    <3> QED
      BY <2>1, <3>1, SeqDef
  <2>3. tables(more) = Append(tables(e), table(name))
    <3>1. Len(tables(e)) = n
      BY <2>1
    <3> QED
      OBVIOUS
  <2>4. LinesOf(more, all) = LinesOf(e, all) \o table(name)
    <3>1. FlattenSeq(Append(tables(e), table(name))) = FlattenSeq(tables(e)) \o table(name)
      BY <1>1, <2>2, FlattenAppend
    <3> QED
      BY <1>2, <2>3, <3>1
  <2> HIDE DEF more, n, tables
  <2>5. NoRepeat(e) /\ \A i \in DOMAIN e : e[i] # name
    BY <2>1 DEF NoRepeat
  <2>6. Right(e)
    BY <1>4, <2>5
  <2>7. OfNames(P, more) = OfNames(P, e) \cup OfName(P, name)
    BY <2>1 DEF OfNames, OfName
  <2>8. OfNames(P, e) \cap OfName(P, name) = {}
    BY <2>5 DEF OfNames, OfName
  <2>9. CountIn(all, OfNames(P, more))
          = CountIn(all, OfNames(P, e)) + CountIn(all, OfName(P, name))
    BY <2>7, <2>8, CountUnion
  <2>10. CountIn(table(name), P) = CountIn(all, OfName(P, name))
    BY LinesCount DEF table
  <2> DEFINE lines == LinesOf(e, all)
  <2>11. lines \in Seq(R) /\ CountIn(lines, P) = CountIn(all, OfNames(P, e))
    BY <2>6
  <2> HIDE DEF lines
  <2>12. /\ lines \o table(name) \in Seq(R)
         /\ CountIn(lines \o table(name), P) = CountIn(lines, P) + CountIn(table(name), P)
    BY <1>1, <2>11, CountConcat
  <2> QED
    BY <2>4, <2>9, <2>10, <2>11, <2>12 DEF lines
<1> HIDE DEF F
<1>5. Seq(N) \subseteq F
  BY <1>3, <1>4, SeqSetInduction
<1> QED
  BY <1>5 DEF F

\* The property of the summary, of any results.
LEMMA SummaryShows == SummaryShowsAll
<1> DEFINE R == SummaryResult
<1>1. ASSUME NEW all \in BoundedSeq(R, MaxResults) PROVE all \in Seq(R)
  <2>1. PICK m \in 0 .. MaxResults : all \in [1 .. m -> R]
    BY <1>1 DEF BoundedSeq, SeqOf
  <2>2. m \in Nat
    BY SummaryPrinterAssumption
  <2>3. \A n \in Nat : \A s \in [1 .. n -> R] : s \in Seq(R)
    BY SeqDef
  <2> HIDE DEF R
  <2> QED
    BY <2>1, <2>2, <2>3
<1> SUFFICES ASSUME NEW all \in Seq(R)
             PROVE  LET tables == FinalSummary(all)
                        lines == FlattenSeq([i \in DOMAIN tables |-> tables[i].lines])
                        First(name) ==
                          Min({k \in DOMAIN all : all[k].experiment_name = name})
                    IN  /\ Len(lines) = Len(all)
                        /\ \A r \in Range(all) : Times(lines, r) = Times(all, r)
                        /\ \A i \in DOMAIN tables :
                             \A r \in Range(tables[i].lines) : r.experiment_name = tables[i].name
                        /\ \A i, j \in DOMAIN tables :
                             i < j => First(tables[i].name) < First(tables[j].name)
  BY <1>1 DEF SummaryShowsAll
<1> HIDE DEF R
<1> DEFINE names == ExpNames(all)
           tables == FinalSummary(all)
           lines == FlattenSeq([i \in DOMAIN tables |-> tables[i].lines])
           places(name) == {k \in DOMAIN all : all[k].experiment_name = name}
<1>2. /\ DOMAIN tables = DOMAIN names
      /\ \A i \in DOMAIN names :
           tables[i].name = names[i] /\ tables[i].lines = TableLines(all, names[i])
  BY DEF FinalSummary
<1>3. lines = LinesOf(names, all)
  BY DEF LinesOf, FinalSummary
<1>4. names \in Seq(NamesOf(R)) /\ NamesInOrder(names, all)
  BY NamesAre
<1>5. DOMAIN names = 1 .. Len(names) /\ DOMAIN all \subseteq Nat
  BY <1>4
<1> HIDE DEF names, tables, lines
<1>6. NoRepeat(names)
  <2> SUFFICES ASSUME NEW i \in DOMAIN names, NEW j \in DOMAIN names,
                      names[i] = names[j], i < j
               PROVE  FALSE
    BY <1>5 DEF NoRepeat
  <2>1. PICK k \in DOMAIN all :
               /\ all[k].experiment_name = names[i]
               /\ \A l \in DOMAIN all : all[l].experiment_name = names[j] => k < l
    BY <1>4 DEF NamesInOrder
  <2>2. k < k /\ k \in Nat
    BY <1>5, <2>1
  <2> QED
    BY <2>2
<1>7. ASSUME NEW P
      PROVE  lines \in Seq(R) /\ CountIn(lines, P) = CountIn(all, P)
  <2>1. lines \in Seq(R) /\ CountIn(lines, P) = CountIn(all, OfNames(P, names))
    BY <1>3, <1>4, <1>6, LinesOfCount
  <2>2. \A k \in DOMAIN all : all[k] \in OfNames(P, names) <=> all[k] \in P
    BY <1>4 DEF NamesInOrder, OfNames
  <2>3. {k \in DOMAIN all : all[k] \in OfNames(P, names)}
          = {k \in DOMAIN all : all[k] \in P}
    BY <2>2
  <2>4. CountIn(all, OfNames(P, names)) = CountIn(all, P)
    BY <2>3, Zenon DEF CountIn
  <2> QED
    BY <2>1, <2>4
<1>8. Len(lines) = Len(all)
  <2>1. CountIn(lines, R) = Len(lines) /\ CountIn(all, R) = Len(all)
    BY <1>7, CountAll
  <2> QED
    BY <1>7, <2>1
<1>9. \A r : Times(lines, r) = Times(all, r)
  <2>1. \A s : \A r : Times(s, r) = CountIn(s, {r})
    <3> SUFFICES ASSUME NEW s, NEW r PROVE Times(s, r) = CountIn(s, {r})
      OBVIOUS
    <3>1. {i \in DOMAIN s : s[i] = r} = {i \in DOMAIN s : s[i] \in {r}}
      OBVIOUS
    <3> QED
      BY <3>1, Zenon DEF Times, CountIn
  <2> QED
    BY <1>7, <2>1
<1>10. ASSUME NEW i \in DOMAIN tables, NEW r \in Range(tables[i].lines)
       PROVE  r.experiment_name = tables[i].name
  <2>1. \A k \in DOMAIN TableLines(all, names[i]) :
          TableLines(all, names[i])[k].experiment_name = names[i]
    BY LinesCount
  <2> QED
    BY <1>2, <2>1 DEF Range
<1>11. ASSUME NEW i \in DOMAIN tables, NEW j \in DOMAIN tables, i < j
       PROVE  Min(places(tables[i].name)) < Min(places(tables[j].name))
  <2>1. PICK k \in DOMAIN all :
               /\ all[k].experiment_name = names[i]
               /\ \A l \in DOMAIN all : all[l].experiment_name = names[j] => k < l
    BY <1>2, <1>4, <1>11 DEF NamesInOrder
  <2>2. PICK l \in DOMAIN all : all[l].experiment_name = names[j]
    BY <1>2, <1>4 DEF NamesInOrder
  <2> DEFINE S == places(names[i])
             T == places(names[j])
  <2>3. k \in S /\ l \in T /\ S \in SUBSET Nat /\ T \in SUBSET Nat /\ \A m \in T : k < m
    BY <1>5, <2>1, <2>2
  <2> HIDE DEF S, T
  <2>4. Min(S) <= k /\ Min(S) \in S /\ Min(T) \in T
    BY <2>3, MinOf
  <2>5. Min(S) < Min(T)
    BY <2>3, <2>4
  <2> QED
    BY <1>2, <2>5 DEF S, T
<1> QED
  BY <1>8, <1>9, <1>10, <1>11 DEF lines, tables

\* print_final_summary prints every result once, in the one table of its
\* experiment, and the tables in the order in which the experiments first come,
\* however many results there are and however they are mixed.
THEOREM SummaryIsComplete == RecordersSpec => []SummaryShowsAll
  BY SummaryShows, PTL
=============================================================================
