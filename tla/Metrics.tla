------------------------------- MODULE Metrics -------------------------------
(***************************************************************************)
(* LatencyRecorder and MetricsCollector::merge_thread_results.             *)
(*                                                                         *)
(* compute_stats sorts the latencies, so a recorder is the bag of what it  *)
(* has recorded: how often each latency.  Means and percentages are exact  *)
(* here; the doubles nearest to 0.95 and 0.99 are below them and by less   *)
(* than any two ranks differ, so std::ceil rounds to the same rank.        *)
(***************************************************************************)
EXTENDS Integers, FiniteSets, FiniteSetsExt, Functions

CONSTANTS Recorder,   \* the recorders, one per thread
          Latency,    \* the latencies, in microseconds
          MaxCount    \* bound: how often each recorder records each latency

ASSUME MetricsAssumption ==
  /\ IsFiniteSet(Recorder) /\ Recorder # {}
  /\ IsFiniteSet(Latency) /\ Latency \subseteq Nat /\ Latency # {}
  /\ MaxCount \in [Recorder -> [Latency -> Nat]]

VARIABLE latencies_us   \* of each recorder: how often each latency

Percent == {50, 95, 99}

-----------------------------------------------------------------------------
(* compute_stats, of a bag of latencies *)

Count(bag) == SumFunction(bag)

UpTo(bag, v) == SumFunctionOnSet(bag, {w \in Latency : w <= v})

\* sorted[index]: so many elements of the sorted vector come before it.
At(bag, index) ==
  CHOOSE v \in Latency : bag[v] > 0 /\ UpTo(bag, v) - bag[v] <= index /\ index < UpTo(bag, v)

\* Mutant: the rank is rounded down.
PercentileFloor(bag, p) ==
  IF Count(bag) = 0 THEN 0
  ELSE At(bag, LET rank == (p * Count(bag)) \div 100
               IN  IF rank = 0 THEN 0 ELSE rank - 1)

Percentile(bag, p) ==
  IF Count(bag) = 0 THEN 0
  ELSE LET index == ((p * Count(bag) + 99) \div 100) - 1
       IN  At(bag, IF index < Count(bag) - 1 THEN index ELSE Count(bag) - 1)

Recorded(bag) == {v \in Latency : bag[v] > 0}

\* What compute_stats leaves at zero for an empty recorder.
MinUs(bag) == IF Count(bag) = 0 THEN 0 ELSE Min(Recorded(bag))

MaxUs(bag) == IF Count(bag) = 0 THEN 0 ELSE Max(Recorded(bag))

Stats(bag) ==
  [total_ops |-> Count(bag), min_us |-> MinUs(bag), max_us |-> MaxUs(bag),
   percentile |-> [p \in Percent |-> Percentile(bag, p)]]

-----------------------------------------------------------------------------
(* merge_thread_results, up to the return statement it lacks *)

\* Mutant: every thread weighs the same.
WeightUnweighted(s) == 1

\* The weight of a thread, times the total.
Weight(s) == s.total_ops

\* A percentile is the weighted mean of those of the threads, times the total.
MergeThreadResults(thread_stats) ==
  [total_ops |-> SumFunction([t \in Recorder |-> thread_stats[t].total_ops]),
   min_us |-> Min({thread_stats[t].min_us : t \in Recorder}),
   max_us |-> Max({thread_stats[t].max_us : t \in Recorder}),
   percentile |-> [p \in Percent |->
      SumFunction([t \in Recorder |-> Weight(thread_stats[t]) * thread_stats[t].percentile[p]])]]

merged == MergeThreadResults([t \in Recorder |-> Stats(latencies_us[t])])

-----------------------------------------------------------------------------
Empty == [v \in Latency |-> 0]

RecordersInit == latencies_us = [t \in Recorder |-> Empty]

Record(t, v) ==
  /\ latencies_us[t][v] < MaxCount[t][v]
  /\ latencies_us' = [latencies_us EXCEPT ![t][v] = @ + 1]

Reset(t) == latencies_us' = [latencies_us EXCEPT ![t] = Empty]

RecordersNext == \E t \in Recorder : Reset(t) \/ \E v \in Latency : Record(t, v)

RecordersSpec == RecordersInit /\ [][RecordersNext]_latencies_us

-----------------------------------------------------------------------------
(* Properties *)

\* A percentile is the nearest rank's: the least recorded latency that at
\* least p percent of the operations did not exceed.
PercentileIsNearestRank ==
  \A t \in Recorder, p \in Percent :
     LET bag == latencies_us[t]
         reached == {v \in Recorded(bag) : 100 * UpTo(bag, v) >= p * Count(bag)}
     IN  Count(bag) # 0 => Percentile(bag, p) = Min(reached)

\* Of all threads together.
Pooled == [v \in Latency |-> SumFunction([t \in Recorder |-> latencies_us[t][v]])]

\* As long as every thread had a row to insert, the extremes that are merged
\* are those of all operations and the count is theirs: a thread without any
\* counts as a latency of zero.  A merged percentile is an average, not that of
\* all operations; still it is between their extremes, and a higher percentile
\* is not merged to less.
MergedStatsAreOfAll ==
  LET result == merged
      all == Pooled
      total == Count(all)
  IN  /\ (\A t \in Recorder : Count(latencies_us[t]) > 0) =>
            /\ result.total_ops = total
            /\ result.min_us = MinUs(all)
            /\ result.max_us = MaxUs(all)
      /\ total > 0 => \A p, q \in Percent :
            /\ MinUs(all) * total <= result.percentile[p]
            /\ result.percentile[p] <= MaxUs(all) * total
            /\ p <= q => result.percentile[p] <= result.percentile[q]
=============================================================================
