--------------------------- MODULE SummaryPrinter ---------------------------
(***************************************************************************)
(* print_final_summary: the results of all experiments, as a table for     *)
(* each experiment in the order in which they first appear.  Of what a     *)
(* line of a table shows, a result keeps a latency; how numbers are        *)
(* written and columns padded is left out.                                 *)
(***************************************************************************)
EXTENDS Metrics, SequencesExt

CONSTANTS ExperimentName,   \* result.experiment_name
          MaxResults        \* bound: results

ASSUME SummaryPrinterAssumption == MaxResults \in Nat

\* Results of the recorders as they are: of two with the same name and the same
\* p99 the table makes no difference.
SummaryResult ==
  [experiment_name : ExperimentName,
   p99_us : {Percentile(latencies_us[t], 99) : t \in Recorder}]

\* Mutant: only a run of equal names is taken for one.
ExpNamesAdjacent(results) ==
  FoldLeft(LAMBDA exp_names, r :
             IF exp_names # <<>> /\ Last(exp_names) = r.experiment_name
             THEN exp_names ELSE Append(exp_names, r.experiment_name),
           <<>>, results)

ExpNames(results) ==
  FoldLeft(LAMBDA exp_names, r :
             IF Contains(exp_names, r.experiment_name)
             THEN exp_names ELSE Append(exp_names, r.experiment_name),
           <<>>, results)

TableLines(results, exp_name) ==
  FoldLeft(LAMBDA lines, r : IF r.experiment_name # exp_name THEN lines ELSE Append(lines, r),
           <<>>, results)

\* One table for each name, of all the results that have it.
FinalSummary(results) ==
  LET exp_names == ExpNames(results)
  IN  [i \in DOMAIN exp_names |->
         [name |-> exp_names[i],
          lines |-> TableLines(results, exp_names[i])]]

-----------------------------------------------------------------------------
(* Properties *)

Times(s, x) == Cardinality({i \in DOMAIN s : s[i] = x})

\* However the results of the experiments and databases are mixed, every result
\* is printed as often as it was obtained, in the table of its experiment, and
\* no experiment has two tables: they come as the experiments first appear.
SummaryShowsAll ==
  \A results \in BoundedSeq(SummaryResult, MaxResults) :
     LET tables == FinalSummary(results)
         lines == FlattenSeq([i \in DOMAIN tables |-> tables[i].lines])
         First(name) == Min({k \in DOMAIN results : results[k].experiment_name = name})
     IN  /\ Len(lines) = Len(results)
         /\ \A r \in Range(results) : Times(lines, r) = Times(results, r)
         /\ \A i \in DOMAIN tables :
              \A r \in Range(tables[i].lines) : r.experiment_name = tables[i].name
         /\ \A i, j \in DOMAIN tables : i < j => First(tables[i].name) < First(tables[j].name)
=============================================================================
