# A verification project for db-benchmark

db-benchmark measures Postgres, MongoDB and Cassandra with seven experiments over
one generated data set of orders. This directory holds TLA+ models of it, TLC
configurations that check them on small instances, and proofs, checked by TLAPS,
for every number of threads, rows, runs and calls: of the concurrent experiment, of
the write and read experiment, of the five sequential ones, of the three clients
and the Cassandra client's objects, of start-up, and of the way of the results from
the recorders to the file and the summary.

The program is unfinished, and the models follow its source as it stands:
`CMakeLists.txt` builds experiment 1 only; `main.cpp` loads, connects and
generates but runs no experiment; `main.cpp:64`, `ConfigLoader.cpp:53` and
`Experiment1.cpp:18` name a field `totalrows` that `BenchmarkConfig` calls
`total_rows`; `Experiment7::execute` is declared and never defined;
`LatencyRecorder::start_timer` has no definition; the base class's `recorder_`
stays empty in experiments 4 to 7, which have recorders of their own. Where the
source cannot be built as written, a model follows the evident reading (one field
`total_rows`; experiment 7 under `ExperimentBase::execute`), and says so here.
Paths below are relative to the repository's `src/` unless they start with
another directory.

## 1. Inventory

| Component | State | Operations | Talks to |
|---|---|---|---|
| Experiment 2 (`experiment/Experiment2.*`) | `thread_connections_`, `result_`; per worker a range, an index and a recorder | `execute` = `setup`, `run`, `teardown` | the connection factory, one client per thread or the shared Cassandra client, `MetricsCollector` |
| Experiment 7 (`experiment/Experiment7.*`) | `written_order_ids_`, `run_results_`, the averages | `setup`, `run` with `write_phase`, `flush_cache`, `read_phase`, `compute_averages` | one client, a flush script, recorders |
| Experiments 1, 3, 4, 5, 6 and `ExperimentBase` | `sample_ids_`, one to three recorders each, `result_` | `execute`, `setup`, `run`, `teardown` | one client, flush and compaction scripts |
| Clients (`db/*Client.*`), behind `DBInterface` | a connection; for Cassandra raw pointers to driver objects | `connect`, `disconnect`, `insert_one`, `insert_batch`, the lookups, `delete_by_primary_key`, `clear_table`, the two index operations | the servers |
| The servers (`docker/`) | tables, indexes, caches | statements, restart | none |
| `LatencyRecorder`, `MetricsCollector` (`metrics/`) | a vector of latencies | `record`, `reset`, `compute_stats`, `merge_thread_results` | the experiments |
| `CSVWriter` (`results/`) | a path; the file | constructor, `write`, `write_all` | the file system |
| `SummaryPrinter` (`results/`) | none | `print_final_summary` groups results by experiment; the others print what they are given | none |
| `DataGenerator` (`data/`) | a random engine, a pool of user ids | `generate_one`, `generate_n`, samples of ids | none |
| `ConfigLoader`, `main` | the configuration, the client, the data set | `load`; start-up | `PostgresClient`, `DataGenerator` |

What is hard in it:

- **Concurrency** is confined to experiment 2: its workers insert into the same
  tables, and on Cassandra through the same client, where one `insert_one` is two
  statements. Everything else runs on the main thread.
- **Failure** is everywhere: every client call and every script may throw.
  `ExperimentBase::execute` has no `try`, so an exception skips `teardown()`; in a
  worker of experiment 2 it ends the process, between any two statements of any
  thread.
- **State that outlives an execution**: tables, indexes and caches of the
  servers, and members that no `setup()` resets (`sample_ids_`, the recorders,
  `run_results_`, `thread_connections_`), so that what a call does depends on how
  the ones before it ended.
- **Caches**: "cold" experiments rely on a restart at the right moment and on not
  asking for one row twice.
- **Restarts**: all three servers acknowledge writes before they are on disk, and
  the flush restarts them.
- **Arithmetic**: the partition of the data set, a 64-bit total kept in 32 bits,
  divisions by a configured zero, the rank of a percentile.
- **Positions and keys**: two Cassandra tables with different keys and columns in
  different places, written by two statements and read by one conversion.

What makes each component correct:

- Experiment 2: each requested row is inserted exactly once; the two Cassandra
  tables stay together; connections are released once, and only those it owns;
  the call ends.
- Experiment 7: the read phase finds every row of the write phase and finds it
  cold; results of different executions are not mixed.
- The other experiments: inserts are timed without a secondary index, secondary
  reads with one; ids that are read are in the table; cold reads are cold; the
  results are computed from the latencies they are said to be of.
- Clients: whatever fails, the tables and the answers are those of a set of orders,
  and where they are not, it is known for which orders.
- Cassandra client: no pointer to a freed object, and no null pointer once it is
  open; a `connect()` that returns leaves a session with its own statements; nothing
  leaks on the regular path.
- Metrics: a percentile is the nearest rank; merged results are within the limits of
  the threads' results.
- CSV: a reader gets back the rows for which `write()` has returned.
- Summary: every result is in one table, that of its experiment.
- Start-up: nothing is connected before the configuration is known to be good, and
  the process closes what it has opened, however it ends.

`PROJECT.json` lists the hazards, each at its line with the properties that watch it,
or a note on why none does; section 6 gathers the latter.

## 2. Modules

| Module | Models | Composed of |
|---|---|---|
| `Tables` | the tables of each database, statement by statement | |
| `Engine` | a server seen by one client: client calls, warm rows, restarts | `Tables` |
| `BulkLoad` | abstract: what an insert phase promises | |
| `Experiment2` | experiment 2 with its threads; implements `BulkLoad` | `Tables` |
| `Experiment2Proofs` | the theorems about it | `Experiment2` |
| `Experiment7` | experiment 7; its write phases implement `BulkLoad` | `Engine` |
| `Experiment7Proofs` | the theorems about it | `Experiment7` |
| `Experiments` | experiments 1, 3, 4, 5 and 6, in any sequence on one server | `Engine` |
| `ExperimentsProofs` | the theorems about their indexes, rows and caches, and what their results count | `Experiments` |
| `DBInterface` | abstract: what a caller may rely on, whichever client it has | |
| `Clients` | every operation of the three clients on their tables; implements `DBInterface` | `DBInterface` |
| `ClientsProofs` | the theorems about them | `Clients` |
| `CassandraClient` | the lifetime of the driver objects | |
| `CassandraClientProofs` | the theorems about it | `CassandraClient` |
| `Startup` | `main`, `ConfigLoader::load`, the Postgres connection, the data set | |
| `StartupProofs` | the theorems about it | `Startup` |
| `Metrics` | `compute_stats` and `merge_thread_results` | |
| `SummaryPrinter` | `print_final_summary` | `Metrics` |
| `ResultsProofs` | the theorems about recorders, file and summary | `Metrics`, `SummaryPrinter`, `CSVWriter` |
| `FoldLemmas` | no code: induction, folds and sums, for the proofs | |
| `CSVFields` | `escape`, the text of a row, a reader of RFC 4180 | |
| `CSVWriter` | the result file through processes, failures and full disks | `CSVFields` |
| `MC...` | values of the constants for TLC | |

How state and actions correspond to the code:

**Tables.** A row is the index of an `Order` in the data set (the generated ids are
random UUIDs, so rows and ids are one to one). `orders` is the table `orders`,
for Cassandra `orders_by_id`; `by_user` is `orders_by_user`, a function on its
primary key `(user_id, created_at)`, which two orders may share (`KeyOf`). Postgres
and Mongo reject a duplicate id (`Accepts`), a CQL `INSERT` overwrites. A
statement whose call throws may or may not have taken place (`...InDoubt`): the
answer can have been lost.

**Experiment2.** `phase` and `idx` are the main thread's position, `pc`, `next` and
`count` a worker's. A worker's step is one statement, so that threads interleave
between the two of a Cassandra insert. `slot` is `thread_connections_`: null, a
connection of its own, or the shared `db_`; `leaked` counts connections that
nothing points to any more. `Teardown` deletes what the slots in `Owned`, those past
the guard `conn && conn != db_`, point to: with any other guard it loses a connection,
or closes the shared one (`db_open`). A throw of the main thread ends in `"threw"`, without
`teardown()`, and the caller may execute again (`Reexecute`); a throw of a worker,
destroying joinable threads, or a trap ends in `"terminated"`, and a new process
may start on the same tables (`NewProcess`). Two undefined behaviours are choices:
dividing by a `thread_count` of zero (it traps, or yields a value nobody uses),
and `merge_thread_results`, which has no `return` statement (the process dies, or
the fields copied from the result are garbage).

**Engine, Experiment7, Experiments.** One thread, so one step is one client call.
`warm` is the set of rows asked for since the caches were last dropped. A restart
empties it and, unless it is clean, may lose any rows: nothing in the repository
says whether the missing `scripts/` stop or kill the server, so both are modelled.
In `Experiment7`, `left` holds the positions of the shuffled copy not read yet, and
`results` the entries of `run_results_` with the execution that stored them. In
`Experiments`, one object of each class is executed in any order; `pass` tells the
loops of `run()` apart, `samples` how many samples an object's `sample_ids_` has
accumulated, `drawn` the sample, the same each time as the generator is seeded
anew for each (`ExperimentBase.cpp:63`), `index` the fields Mongo has an index on
(its `clear_table` drops the collection and its indexes with it). `recorded` counts
the latencies in each recorder, `before` and `after` name the execution in which
experiment 6 has counted the SSTables it reports. A compaction rewrites the files of
its table and deletes the old ones: any of what was in memory may be gone after it,
and any row it has rewritten may be there (`Rewrite`). Three variables are not in the
code: `cut`, the objects an execution of which has thrown, `loaded` and `failed`.

**Clients.** One client at a time, chosen by `db`. An order is a model value with its
user and second; `by_user` is again a function on the key. `todo` is what an insert
has still to send: on Postgres one transaction (`Commit`), on Mongo a document at a
time in the order of the batch (`InsertDocument`), on Cassandra two statements for
each order. A statement that throws may have been executed, and the process may die
with it: a new one finds the same tables, so no action of its own is needed. What
`row_to_order` yields is described by the column each field was read from (`holds`):
`SelectByUser` lists the columns of `orders_by_user` as its `SELECT` does, and the
conversion takes the n-th for the n-th field of `orders_by_id`, with a getter
(`Getter`) that is not always that of the type in `init.cql` (`TypeOf`). What the
getter then yields is the driver's matter, and an assumption: one of a number leaves
its variable uninitialized, one of a string gives the bytes of any column. `DBInterface` is a
set of orders and the part of it (`apart`) on which lookups by user may differ; the
mapping is in `Clients`: `stored` is `orders`, `apart` the orders on which the two
Cassandra tables disagree.

**CassandraClient.** (Its `Init`, `Next`, `Spec` and `TypeOK` are called `HandlesInit`
and so on, to be composed with those of `Clients`.) An object of the driver is its kind and the call of `connect()`
that made it. `connect()` is a step of its own for each way it can end: it returns,
the connection fails, or one of the five statements cannot be prepared. One variable
is not in the code: `opened`, that a `connect()` has returned and no `disconnect()` has
since; a later `connect()` that throws leaves it as it is.

**Startup.** A file is what `load()` makes of it: which keys and sections are absent,
null, or do not convert (`flaws`), and the two values `main` goes by. `config` says
where each Postgres parameter comes from: the file, the default its caller names, or,
for a section that is absent, the literals in `parse_db_config` (`"default_host"`,
1234), which differ from these defaults. `main` calls `generate_n` outside of every
`try` with the connection open: `Terminate` is an exception there. `generate_one`
calls two functions without a `return`; this undefined behaviour is a choice between
dying and an order of garbage, which may kill the process when it is destroyed
(`Crash`). `disconnect_all` is never called; the destructor of the client closes.

**Metrics.** A recorder is the bag of its latencies (`compute_stats` sorts).
`merged` is what `merge_thread_results` has computed when it falls off its end.
`SummaryPrinter` takes for results those of the recorders as they are, in any
sequence.

**CSVWriter.** The file is its text; `AppendCut` is a stream on a full disk, whose
error state the code does not look at. `Read` is a reader of the format, not of
this program.

## 3. Runs

| Run | Instance | States | Question |
|---|---|---|---|
| `exp2_cassandra` | 7 rows, 3 threads, 2 executions; rows 1, 4, 5 and 6 share a key | 6 616 | Are rows inserted once, are both tables in sync, is the shared client kept, does every execution end? |
| `exp2_postgres` | 9 requested rows in an integer of 5 values, so 4 rows; 3 threads, 2 executions | 1 227 | Are connections released, is the reported number of operations the rows in the table? |
| `exp2_no_thread` | Cassandra, 4 rows, no thread, 12 executions | 173 | Is anything reported without a thread? |
| `exp2_percentiles` | 4 rows, 2 threads | violation | Are percentiles of the threads reported? |
| `exp7` | Cassandra, 4 rows of which 3 requested, 3 runs, 2 executions | 9 473 | Is the read phase cold, complete and symmetric, and the average its own? |
| `experiments_mongo` | 2 rows, sample sizes 0 and 2, 3 executions | 127 322 | Is each loop run with the indexes and rows it needs, and what do its results count? |
| `experiments_cassandra` | 3 rows, sample size 2, 3 executions | 2 599 873 | Which reads does the flush make cold, and do the two sides of the comparison match? |
| `cold_reads` | Mongo, 2 rows, sample size 2, 2 executions | violation | Does every read of experiment 3 hit the disk? |
| `clients` | 4 orders, three of one user, two of these in one second; batches of up to 3. Beside it 3 calls of `connect()`, and a recorder of up to 105 latencies with one of 3, three values; 3 results of 2 experiments | 43 545 | Does every client keep the promises of `DBInterface`? Is any sequence of calls safe for the driver objects? Are percentiles nearest ranks, are merged results those of all operations, does the summary show all? |
| `clients_by_user` | the same tables with batches of 1 | violation | Does the scan of experiment 5 filter by date? |
| `startup` | every file with up to 2 flaws; 0, 2 or 3 rows | 47 524 | Does the process connect as configured, and end with what it opened closed? |
| `csv` | rows of two fields, the second of up to 2 characters; 2 rows, 2 processes | 991 603 | Is the file readable after any mixture of processes and failures? |

`clients` takes three modules that have no variable in common, one at a time, the
others left as they were in the beginning (`ClientNext`): the tables of a client, its
driver objects, and the recorders of its calls with what is made of them.

Why the bounds are enough. With 7 rows and 3 threads the division leaves a
remainder and every thread has two rows to interleave, the last one three; four
rows with 3 threads leave a remainder of one. Two executions suffice for what one
leaves to the next, and executions carry no other history than the variables;
threads run in experiment 2 only, and its properties are proved for any number.
Three executions of the other experiments hold an insert, an execution that fails
and one that depends on both. In particular the second
and third execution of one object show what it accumulates. Three runs are
`NUM_RUNS`. Three calls of
`connect()` give one that returns, one that fails half way, and one to recover
with. Percentages of up to 105 latencies meet every remainder modulo 100, and the
ranks where rounding matters. A CSV field of two characters has each ordered pair
of special characters; a carriage return behaves like a line feed for both sides
and is given one field. A batch of three has a first, a middle and a last order, and
may hold one twice; the four orders have every relation the keys can tell apart: the
same user and second, the same user, the same second, neither. Two flaws in a file
are one in the section that `main` uses beside one in a section it does not, or two
of one section. The bounds are the constants `MaxRuns`, `MaxExecutions`,
`MaxConnects`, `MaxCount`, `MaxRows`, `MaxProcesses`, `MaxBatch`, `MaxFlaws` and
`MaxResults`; each is a guard on
beginning something, never on finishing it. Deadlock is not checked where a
program may stop for good: at the bound on executions, after the destructor, with
the last process. No symmetry is used: rows and threads are numbers.

Fairness. In `Experiment2`, the main thread (`Main`) and each worker
(`Worker(t)`) are weakly fair: the operating system schedules every runnable
thread, and every call to the database returns or throws. The two outcomes of a
call are not alternatives on which progress may rest, so failing carries no
fairness, except `MergeThrows`, the certain result of merging no recorder. In
`Experiment7` and `Experiments` there is one thread; its steps together are weakly
fair for the same reason, that client calls and scripts return. `ExecuteEnds` then
says that no interleaving and no failure leaves an execution waiting. The Cassandra
futures are waited for without a timeout: a server that never answers is outside of
these models. In `Startup` the whole of `Next` is weakly fair, that is, the one
thread runs and the server answers or refuses; `ProcessEnds` needs no more, as
nothing in it is retried. The other models state safety only.

The runs marked as violations are explained in section 5.

Every property of a passing run has a mutant: a plausible bug in the code, as a
changed definition, with which TLC finds the property violated. The mutants stand
beside the definitions they change.

## 4. What is proved

`Experiment2Proofs` proves, for any number of threads (zero included), rows,
executions, any width of the integer and either kind of database:

- `TypeCorrect`, `InsertsAreFresh`, `EveryRowLoaded`, `OpsCounted`,
  `TablesNearlyInSync`, `TablesInSyncWhenDone` and `ConnectionsAccounted`: the safety
  invariants `TypeOK`, `FreshInserts`, `LoadedExactly`, `OpsReported`,
  `OutOfSyncBound`, `UserViewAgrees` and `ConnectionsReleased`;
- `Refinement`: `Experiment2` implements `BulkLoad`.

Assumptions: `TablesAssumption` and `Experiment2Assumption`, which give the
constants their types and no more. TLC evaluates both in the runs.

None of the invariants is inductive. Why a row is absent when a worker comes to it
depends on where all the workers are, so `IInv` conjoins the types with
- `WorkersInRange`: a worker that has been spawned is within its range;
- `OrdersByWorkers`: while the workers run, a row is in the table exactly if some
  worker has passed it (or is between the two statements of its insert); before,
  the table is empty; afterwards, it holds the target;
- `OrphansInHand`: while the workers run, an order without its row by user is the
  one that a worker between its two statements holds: hence at most one per
  thread, also when the process dies at this point; afterwards there is none;
- `NoGhosts`: from the second `TRUNCATE` on, a row by user belongs to an order;
- `SlotsEmpty`: as long as nothing was thrown, slots not assigned yet are null, so
  no assignment loses a connection;
- `CountsByWorkers`: the recorder of a worker holds as many latencies as rows of its
  range are behind it.

The arithmetic is in three lemmas: `RangeBounds` (a range lies within the total),
`RangesDisjoint` and `RangesCover` (the ranges of the threads cover the total,
whatever the division leaves over); `RangesAddUp` makes of the last two that their
lengths sum up to the total, which is how the recorders of all threads together come
to the reported number of operations. Each conjunct of `IInv` has a lemma that a step
preserves it (`TypeStep`, `WorkersStep`, `OrdersStep`, `OrphansStep`,
`GhostsStep`, `SlotsStep`, `CountsStep`), with a step for each action that can disturb it;
`InitIInv`, `StepIInv` and `Invariance` put them together. `BulkStep` maps each
action, from a state of `IInv`, to an action of `BulkLoad` or a stutter.

`Experiment7Proofs` proves, for any data set, number of requested rows, runs and
executions, either kind of database and any behaviour of the restarts:
`TypeCorrect` (`TypeOK`), `EveryReadIsCold` (`ReadsAreCold`), `EveryReadFinds`
(`ReadsFindRows`), `ResultsSymmetric` (`StoredRunsAreSymmetric`), `AverageIsOwn`
(`AveragesOneExecution`) and `Refinement` (`ImplementsBulkLoad`). The argument: the ids written are those of rows 0, 1, 2,
... in order (`WrittenInOrder`), so that no id stands at two positions, and reading
one does not warm another (`ColdUntilRead`); the table holds those rows until a
server is killed (`OrdersByWrites`); the reads counted and the positions left add
up to all of them (`ReadsCounted`), so a result that is stored when none is left
has counted every row; the entries of `run_results_` before the present run are of
the present execution, whatever an earlier one has left in the others
(`EntriesOwn`), so the sums that are averaged are those of equal entries
(`AverageOfRuns`). Assumptions: `TablesAssumption`, `Experiment7Assumption`.

`CassandraClientProofs` proves every property of `CassandraClient`, for any number
of calls: `TypeCorrect`, `PointersValid`, `ConnectRecovers`, `CrashesAccounted`,
`LossesCounted` and `CleanLifeIsClean`. The argument: what a `connect()` makes is new
(`MadeBefore`); cluster and session are made and freed together (`ClusterWithSession`);
while the client is open neither the session nor a statement is null, as `connect()`
replaces them and never resets them (`OpenedIsUsable`); the
sessions and clusters that nothing points to (`Lost`) grow by one with each
`connect()` that finds one open, and with nothing else (`LostCounted`); in a first
life without failures all that is alive is pointed to (`FirstLifeOwned`).
Assumption: `CassandraClientAssumption`.

`ClientsProofs` proves every property of `Clients`, for any finite set of orders, any
users and times, batches of any length and all three clients: `TypeCorrect` and
`Refinement` (`ImplementsDBInterface`). The
argument needs two facts about every reachable state: what is left of a call
belongs to where it stands (`StepInv`: between its two inserts the order in hand is
already in `orders_by_id`, between its two truncations `orders_by_id` is empty), and a
row of `orders_by_user` is stored under its own key (`KeyInv`), so that an insert by
user sets apart at most the rivals of the order it puts back. The step lemma maps
each action to one of `DBInterface` or to a stutter. Assumption: `ClientsAssumption`.

`ExperimentsProofs` proves, for either database, any data set, sample size and number
of executions of the five objects in any order: `IndexMeant` (`IndexedAsMeant`),
`IndexLeaks` (`IndexLeaksOnlyByFailure`), `SampledRows` (`SampledRowsArePresent`),
`ColdFirstReads` (`FirstReadsAreCold`) and `TypeCorrect`. All rest on `Base`: the types, and which experiment can be in which
phase (`ControlInv`). On top of it stand three invariants that do not depend on
each other: `IndexInv` (no index while experiment 1 inserts, whatever was left by a
teardown that was skipped; both from their creation to the end of `run()`), `LoadInv`
(the rows experiment 1 has passed are in the table, and all of them once it has
returned), and `WarmInv` (what is in memory during experiment 3 is what it has read).
Assumptions: `TablesAssumption`, `ExperimentsAssumption`.

About what the results count it proves, from the same assumptions, `RecordersCounted`
(`RecordersCount`) and `ComparisonMatches` (`BeforeAndAfterMatch`). The invariant is
about `Balance`, the sum of what a loop has recorded and what the current execution
has still to record in it: no step changes it (`BalanceKeeps`), be it an iteration, the
end of a loop or the beginning of the next, but sampling and the beginning of
experiment 5. So for an object that has not thrown it is 1 + 2 + ... + k samples for the
loops over ids (`ReadsGrow`), k times the sample size for the loop by user
(`CountInv`). For the counts of SSTables, `TablesCounted` says from where on in
`execute()` they are those of this execution.

`StartupProofs` proves, for any numbers of rows and flaws: `EndsInOrder`
(`ExitsInOrder`) and `AsConfigured` (`ConnectsAsConfigured`). The invariant adds where
the connection stands at each position of `main` and that whoever is past `load()`
has loaded a good file (`Progress`). Assumption: `StartupAssumption`.

`ResultsProofs` proves the properties of the three modules that results pass through.

- `NearestRank` (`PercentileIsNearestRank`) and `MergedIsOfAll`
  (`MergedStatsAreOfAll`), for any finite set of recorders and of latencies, each
  recorded any number of times; assumption `MetricsAssumption`. The position
  `percentile()` computes is the least whole number that is not below p percent of the
  count (`RankRoundsUp`), and the latency at a position of the sorted vector is the
  least one up to which there are as many (`AtIs`). What is merged is a weighted sum:
  it is between the extremes, as each recorder's percentile is between its own
  (`PercentileOrder`, `ProductOrder`), and the weights sum up to the count of all
  (`PooledIsAll`, a sum over recorders and latencies in the other order).
- `RowIsReadBack`: the text of any row that has a field is read as that row. A reader
  is a fold of `ReadChar` over the text, so what it makes of a text and one character
  more is known (`ReadAppend`); `EscapeRead` follows it through a quoted field, where
  a doubled quote is read as one and no comma or line end counts, and through a plain
  one, which has none of them; `LineRead` puts the fields of a row together, behind
  whatever has been read before.
- `FileTypeCorrect`, `FileIsReadBack` (`FileReadsBack`) and `FileGrows`
  (`FileOnlyGrows`), for any results as rows of any characters, and any numbers of
  writes, failures and processes; assumptions `CSVFieldsAssumption` (the five kinds of
  characters are different) and `CSVWriterAssumption`, of which a part is that a row has
  a field: the columns are fixed in `write()`, and a row without any would be an empty
  line that no reader of the format can tell from none. The invariant `FileInv` adds to
  `FileReadsBack` that the constructor comes first: until the header is there no row has
  been written, and a process that writes has a file.
- `SummaryIsComplete` (`SummaryShowsAll`), for any number of results of any
  experiments; assumptions `MetricsAssumption`, `SummaryPrinterAssumption`. The names
  are those of the results, each once and in the order of their first occurrence
  (`NamesAre`, by induction over the results), and the lines of a table are the results
  with its name (`LinesCount`): a result is counted in one table and in no other
  (`LinesOfCount`).

`FoldLemmas` is what these arguments have in common. The library's induction theorems
take an operator as a parameter, which the provers cannot instantiate. Its theorem
that a well-founded relation has minimal elements has no such parameter, and
`LeastElement` follows from it; from this, induction stated of the set of the values
that have a property (`NatSetInduction`, `SubsetInduction`), that a fold over a finite
set exists and is unique (`FoldExists`, `FoldUnique`), and what a left fold over a
sequence makes of one element more (`LeftAppend`). Sums over finite sets are such
folds: `SumAdd`, `SumPlus`, `SumParts`, `SumSwap` and the others are the laws the
proofs use.

With these, every invariant and every action property that a passing run checks is
stated by a theorem. The type invariant of `Experiment7`, that of `Experiments` and that of
`CSVWriter` are theorems that no run needs: TLC would check nothing else in them than
what the other invariants evaluate. Checked by TLC only is liveness, `ExecuteEnds` and
`ProcessEnds`, which TLAPS does not reach.

## 5. What the models say about the code

Three statements of the repository do not hold, and each has a run that shows it:

- `docs/post6.md:66` reports percentiles of experiment 2. `merge_thread_results` does
  not return what it has computed (`metrics/MetricsCollector.cpp:79`), so they are
  undefined (`exp2_percentiles`, `PercentilesReported`).
- `docs/post6.md:92` says of experiment 3 "Every read hits disk." Its sample is drawn
  with replacement (`ExperimentBase.cpp:63`) and added to those of earlier executions,
  and a repeated id is read from memory (`cold_reads`, `EveryReadHitsDisk`). What the
  flush does give is `FirstReadsAreCold`: the first read of each id is cold, whatever
  ran before.
- `Experiment5.cpp:57-59` scans a user's partition "then filter by date client-side".
  `row_to_order` goes by position, by user the columns stand in other positions, and
  the fields of an order are mixed up: what is compared with the dates is the
  description, and the scan keeps nothing (`clients_by_user`, `ScansFilterByDate`).

Others are conditions inside properties that hold:

- Clients. The primary key of `orders_by_user` is `(user_id, created_at)`
  (`docker/cassandra/init.cql`), so of two orders of one user in one second the
  second replaces the first; `delete_by_primary_key` deletes from `orders_by_id` only;
  a call that fails between its two statements leaves one done. These are the three
  ways in which `DBInterface` lets an order be `apart`, and there is no fourth.
- Experiment 2. `LoadedExactly` is about totals below 2^32; `OpsReported` and
  `ImplementsBulkLoad` go by the total as it was reduced.
- Cassandra client. `OneSessionPerOverlap`: `connect()` on a connected client, as
  experiments 3 and 7 do after the restart, loses a session and a cluster each time.
  `CrashesOnlyUnopened`: a call on a client that was never open, or was disconnected,
  goes through a null pointer; a failed `connect()` on an open one does not lead there.
- Experiments. `IndexLeaksOnlyByFailure`: an index stays only after a failed call,
  since `teardown()` is skipped, and no insert is timed with it as `clear_table`
  removes it. `RecordersCount`: nothing resets recorders and samples, so the k-th
  execution of an object reads k samples and reports on all the reads since the
  first. `BeforeAndAfterMatch` fails after an execution that threw between the loops.
- Experiment 7. `ReadsFindRows` needs that the restart did not kill the server, for
  all servers run with relaxed durability.
- CSV. `FileReadsBack`: a process that dies between creating the file and writing the
  header leaves a file that never gets one.
- Metrics. `MergedStatsAreOfAll`: minimum, maximum and count are those of all
  operations, unless a recorder is empty; a merged percentile is a weighted mean of
  the threads', and only stays between the extremes.
- Start-up. `ConnectsAsConfigured`: one value that does not convert ends the process,
  also in a section of a database `main` does not use. The shipped
  `config/benchmark.yaml` has one, `total_rows: 1000'000`: with it, `main` returns 1
  before it connects. It also spells `rng_seed` as `rnd_seed`, which is then absent
  and gets its default.

## 6. What is not modelled, and what no property watches

Some hazards are in the models as outcomes the code allows, and no property forbids
them:

- what experiment 6 finds in memory: nothing restarts the server for either loop, so
  the first may read what earlier experiments have left there, and the second what the
  first has read, as far as the compaction keeps it (`Experiment6.cpp:90`). So the
  SSTables are not "the only variable that changed" (`:85-86`), and the disk reads that
  `docs/post6.md:186-204` counts for its "cold reads" are not certain;
- the total of experiment 2 that 32 bits reduce (`Experiment2.cpp:35`); what is watched
  is that ranges, rows and report go by one number;
- a recorder without latencies, whose minimum of zero is merged, and the quotient 0/0
  if all are empty (`MetricsCollector.cpp:56`, `:66`);
- rows acknowledged and lost when a restart kills the server
  (`docker/postgres/postgresql.conf:12`);
- the future that every failed call of the Cassandra client leaks
  (`CassandraClient.cpp:243`);
- getters that do not fit the types of `init.cql` (`CassandraClient.cpp:267`);
- the result file that never gets its header, and the one that a full disk has cut
  (`CSVWriter.cpp:69`, `:30`);
- the connection that stays open when the generator ends the process (`main.cpp:64`).

What is not modelled:

- `DataGenerator`: random numbers and the sampling functions, whose answers are
  members of a pool or of the data set (`drawn` in `Experiments`); its product is a
  constant elsewhere. `generate_date_range` is a stub, and what experiment 5 makes of
  its empty range is modelled there. In `Startup` it is the constructor, and
  `generate_n` as far as it can fail.
- `SummaryPrinter`: how numbers are rounded and columns padded, and the functions that
  print the results of a single experiment or run, which only write what they get.
- Timers, throughput and means: quotients of clock readings. `start_timer` has no
  definition.
- The codes of the Cassandra bind calls (`CassandraClient.cpp:103`), which nobody
  looks at. What the driver makes of a text bound to a column of another type is a
  matter of the driver; the models take the values to arrive.
- `CassandraClient::find_by_range`, which has no body; `clear_table`, the index
  functions, `delete_by_primary_key` and `row_to_order` of `PostgresClient`, which are
  declared and not defined. The conversion is taken to be right; the others do not
  occur with Postgres.
- The smart pointers of the Mongo client, which own what they point to.
- Pages: a database caches pages, not rows, so a read may warm its neighbours.
  `warm` is a lower bound of what is cached; the properties on cold reads are about
  the same row being asked for again.
- `scripts/`, the flush and compaction scripts, which are not in the repository:
  they are modelled as the code uses them (they succeed, or fail after or before
  having had their effect).
- The images under `docker/`, documents and figures: not code of the program. The
  schemas and the durability settings are read as assumptions of `Tables` and
  `Engine`.

## 7. Plan

Order of the modules: `Tables`, `Experiment2` with `BulkLoad` (the only concurrent
part, and the one where each later experiment starts from), its proofs, `Engine` with
`Experiment7` and its proofs, `Experiments`, `CassandraClient` and its proofs,
`Metrics`, `CSVWriter`; then `DBInterface` with `Clients`, `Startup`, and the proofs
of both and of `Experiments`, with those of the recorders; `SummaryPrinter`;
`FoldLemmas`, with the proofs of the recorders, the file and the summary. These exist.
Next:

1. The experiments on `Clients` in place of `Engine`, which would need the two joined
   into one server model: what a lookup by user returns would then be the rows of
   `orders_by_user`, not any rows of the table.
2. A composition of start-up with the experiments, once `main` runs any, and of the
   experiments with `Metrics`, so that a result carries the latencies of its loop.
3. An abstract specification of the result file (a sequence of rows that grows by the
   one that `write()` was called with, or stays), implemented by `CSVWriter` with what
   `Read` makes of the text as its refinement mapping.
