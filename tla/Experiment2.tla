----------------------------- MODULE Experiment2 -----------------------------
(***************************************************************************)
(* Experiment 2, the concurrent insert: execute() empties the table, opens *)
(* one connection per thread, lets every thread insert its share of the    *)
(* data set, joins them, merges their latency records and releases the     *)
(* connections.  An exception of the main thread leaves execute() without  *)
(* running teardown(); an exception of a worker, or destroying the vector  *)
(* of threads while one is joinable, ends the process.                     *)
(*                                                                         *)
(* One step of a worker is one statement sent to the database, so the      *)
(* threads interleave between the two statements of a Cassandra insert.    *)
(***************************************************************************)
EXTENDS Tables, Functions

CONSTANTS NumThreads,  \* config_.thread_count
          TotalRows,   \* config_.total_rows
          UInt32,      \* 2^32, the values of the variable total_rows
          MaxRuns      \* bound: how many times execute() is called

ASSUME Experiment2Assumption ==
  /\ NumThreads \in Nat
  /\ TotalRows \in Nat
  /\ UInt32 \in Nat \ {0}
  /\ MaxRuns \in Nat \ {0}

-----------------------------------------------------------------------------
(* The partition of the data set *)

Requested == IF DatasetSize < TotalRows THEN DatasetSize ELSE TotalRows

\* The 64-bit minimum is stored in a uint32_t.
Total == Requested % UInt32

Thread == 0 .. NumThreads - 1

\* No thread looks at it when there is none: run() has divided by zero before.
RowsPerThread == IF NumThreads = 0 THEN 0 ELSE Total \div NumThreads

StartIdx(t) == t * RowsPerThread

\* Mutants: the last thread forgets the remainder; it goes one row too far;
\* the others do; it goes by the 64-bit total.
EndIdxNoRemainder(t) == StartIdx(t) + RowsPerThread
EndIdxPastEnd(t) ==
  IF t = NumThreads - 1 THEN Total + 1 ELSE StartIdx(t) + RowsPerThread
EndIdxOverlap(t) ==
  IF t = NumThreads - 1 THEN Total ELSE StartIdx(t) + RowsPerThread + 1
EndIdx(t) ==
  IF t = NumThreads - 1 THEN Total ELSE StartIdx(t) + RowsPerThread

-----------------------------------------------------------------------------
VARIABLES phase,         \* where the main thread is in execute()
          idx,           \* its loop index, over connections, then threads
          slot,          \* thread_connections_: "null", "own" or "db"
          leaked,        \* connections no pointer leads to any more
          db_open,       \* db_ itself is connected
          pc,            \* where each worker is
          next,          \* its loop index i
          count,         \* the size of its recorder
          result_ops,    \* result_.total_ops
          result_stats,  \* what the latency fields of result_ hold
          runs,          \* calls of execute()
          threw          \* one of this process's calls has thrown

main == <<phase, idx>>
connections == <<slot, leaked, db_open>>
workers == <<pc, next, count>>
result == <<result_ops, result_stats>>
history == <<runs, threw>>

vars == <<tables, main, connections, workers, result, history>>

Phases == {"clear", "clear_by_user", "divide", "connect", "spawn", "merge",
           "teardown", "done", "threw", "terminated"}

Running == phase = "spawn"

Ended == phase \in {"done", "threw", "terminated"}

TypeOK ==
  /\ TablesTypeOK
  /\ phase \in Phases
  /\ idx \in 0 .. NumThreads
  /\ slot \in [Thread -> {"null", "own", "db"}]
  /\ leaked \in Nat
  /\ db_open \in BOOLEAN
  /\ pc \in [Thread -> {"idle", "insert", "by_user", "done", "threw"}]
  /\ next \in [Thread -> Nat]
  /\ count \in [Thread -> Nat]
  /\ result_ops \in Nat
  /\ result_stats \in {"initial", "merged", "garbage"}
  /\ runs \in 1 .. MaxRuns
  /\ threw \in BOOLEAN

NoSlots == [t \in Thread |-> "null"]
AllIdle == [t \in Thread |-> "idle"]
AllZero == [t \in Thread |-> 0]

Init ==
  /\ EmptyTables
  /\ phase = "clear" /\ idx = 0
  /\ slot = NoSlots /\ leaked = 0 /\ db_open = TRUE
  /\ pc = AllIdle /\ next = AllZero /\ count = AllZero
  /\ result_ops = 0 /\ result_stats = "initial"
  /\ runs = 1 /\ threw = FALSE

NoWorkers == pc' = AllIdle /\ next' = AllZero /\ count' = AllZero

\* An exception leaves execute(); the caller may catch it.
Throw ==
  /\ phase' = "threw"
  /\ threw' = TRUE
  /\ UNCHANGED <<idx, runs>>

\* std::terminate, or a signal: the process is gone.
Terminate ==
  /\ phase' = "terminated"
  /\ UNCHANGED <<idx, history>>

-----------------------------------------------------------------------------
(* setup(): db_->clear_table() *)

\* Mutant: the two tables are truncated in the other order.
ClearSwapped ==
  /\ phase = "clear"
  /\ IF DualTables THEN TruncateByUser /\ UNCHANGED orders
                   ELSE TruncateOrders /\ UNCHANGED by_user
  /\ phase' = IF DualTables THEN "clear_by_user" ELSE "divide"
  /\ UNCHANGED <<idx, connections, workers, result, history>>

Clear ==
  /\ phase = "clear"
  /\ TruncateOrders
  /\ phase' = IF DualTables THEN "clear_by_user" ELSE "divide"
  /\ UNCHANGED <<by_user, idx, connections, workers, result, history>>

ClearThrows ==
  /\ phase = "clear"
  /\ TruncateOrdersInDoubt
  /\ Throw
  /\ UNCHANGED <<by_user, connections, workers, result>>

ClearByUser ==
  /\ phase = "clear_by_user"
  /\ TruncateByUser
  /\ phase' = "divide"
  /\ UNCHANGED <<orders, idx, connections, workers, result, history>>

ClearByUserThrows ==
  /\ phase = "clear_by_user"
  /\ TruncateByUserInDoubt
  /\ Throw
  /\ UNCHANGED <<orders, connections, workers, result>>

-----------------------------------------------------------------------------
(* run(): the division, the connections, the threads *)

\* Dividing by a thread_count of zero is undefined: it yields zero on some
\* processors and traps on others.
Divide ==
  /\ phase = "divide"
  /\ phase' = "connect"
  /\ idx' = 0
  /\ UNCHANGED <<tables, connections, workers, result, history>>

DivideTraps ==
  /\ phase = "divide"
  /\ NumThreads = 0
  /\ Terminate
  /\ UNCHANGED <<tables, connections, workers, result>>

\* connection_factory_(idx): a connection of its own for each thread, and the
\* shared client db_ for Cassandra.  resize() keeps the slots of an earlier
\* call that threw, and the assignment drops what they pointed to.
Connect ==
  /\ phase = "connect" /\ idx < NumThreads
  /\ slot' = [slot EXCEPT ![idx] = IF DualTables THEN "db" ELSE "own"]
  /\ leaked' = IF slot[idx] = "own" THEN leaked + 1 ELSE leaked
  /\ idx' = idx + 1
  /\ UNCHANGED <<tables, phase, db_open, workers, result, history>>

ConnectThrows ==
  /\ phase = "connect" /\ idx < NumThreads
  /\ ~DualTables
  /\ Throw
  /\ UNCHANGED <<tables, connections, workers, result>>

\* Fresh recorders; a worker computes its range when it starts.
StartSpawning ==
  /\ phase = "connect" /\ idx = NumThreads
  /\ phase' = "spawn"
  /\ idx' = 0
  /\ NoWorkers
  /\ UNCHANGED <<tables, connections, result, history>>

Spawn ==
  /\ Running /\ idx < NumThreads
  /\ pc' = [pc EXCEPT ![idx] = "insert"]
  /\ next' = [next EXCEPT ![idx] = StartIdx(idx)]
  /\ idx' = idx + 1
  /\ UNCHANGED <<tables, phase, connections, count, result, history>>

\* The constructor of a thread throws: alone, it leaves execute(); with
\* threads already running, their vector is destroyed while they are joinable.
SpawnThrows ==
  /\ Running /\ idx < NumThreads
  /\ IF idx = 0 THEN Throw ELSE Terminate
  /\ UNCHANGED <<tables, connections, workers, result>>

-----------------------------------------------------------------------------
(* A worker: conn->insert_one, then recorder.record, for each of its rows *)

Inserting(t) == Running /\ pc[t] = "insert" /\ next[t] < EndIdx(t)

\* The insert has returned: record its latency, go on to the next row.
Advance(t) ==
  /\ next' = [next EXCEPT ![t] = @ + 1]
  /\ count' = [count EXCEPT ![t] = @ + 1]

\* Mutant: Cassandra's second statement is never sent.
InsertOneTable(t) ==
  /\ Inserting(t)
  /\ InsertOrder(next[t])
  /\ Advance(t)
  /\ UNCHANGED <<by_user, main, connections, pc, result, history>>

Insert(t) ==
  /\ Inserting(t)
  /\ Accepts(next[t])
  /\ InsertOrder(next[t])
  /\ IF DualTables
       THEN pc' = [pc EXCEPT ![t] = "by_user"] /\ UNCHANGED <<next, count>>
       ELSE Advance(t) /\ UNCHANGED pc
  /\ UNCHANGED <<by_user, main, connections, result, history>>

InsertUser(t) ==
  /\ Running /\ pc[t] = "by_user"
  /\ InsertByUser(next[t])
  /\ pc' = [pc EXCEPT ![t] = "insert"]
  /\ Advance(t)
  /\ UNCHANGED <<orders, main, connections, result, history>>

\* Mutant: the loop condition is off by one.
FinishLate(t) ==
  /\ Running /\ pc[t] = "insert" /\ next[t] > EndIdx(t)
  /\ pc' = [pc EXCEPT ![t] = "done"]
  /\ UNCHANGED <<tables, main, connections, next, count, result, history>>

Finish(t) ==
  /\ Running /\ pc[t] = "insert" /\ next[t] >= EndIdx(t)
  /\ pc' = [pc EXCEPT ![t] = "done"]
  /\ UNCHANGED <<tables, main, connections, next, count, result, history>>

\* Nothing in the lambda catches: an exception of insert_one, be it a lost
\* connection or a duplicate order_id, ends the process.
WorkerThrows(t) ==
  /\ \/ /\ Inserting(t)
        /\ IF Accepts(next[t]) THEN InsertOrderInDoubt(next[t]) ELSE UNCHANGED orders
        /\ UNCHANGED by_user
     \/ /\ Running /\ pc[t] = "by_user"
        /\ InsertByUserInDoubt(next[t])
        /\ UNCHANGED orders
  /\ pc' = [pc EXCEPT ![t] = "threw"]
  /\ Terminate
  /\ UNCHANGED <<connections, next, count, result>>

Worker(t) == Insert(t) \/ InsertUser(t) \/ Finish(t)

-----------------------------------------------------------------------------
(* The main thread again: join, merge, teardown() *)

\* Mutant: the last thread is not joined.
JoinAllButLast ==
  /\ Running /\ idx = NumThreads
  /\ \A t \in Thread : t < NumThreads - 1 => pc[t] = "done"
  /\ phase' = "merge"
  /\ UNCHANGED <<tables, idx, connections, workers, result, history>>

Join ==
  /\ Running /\ idx = NumThreads
  /\ \A t \in Thread : pc[t] = "done"
  /\ phase' = "merge"
  /\ UNCHANGED <<tables, idx, connections, workers, result, history>>

\* Mutant: the count is the 64-bit total.
MergeWide ==
  /\ phase = "merge" /\ NumThreads # 0
  /\ result_ops' = Requested
  /\ result_stats' = "garbage"
  /\ phase' = "teardown"
  /\ UNCHANGED <<tables, idx, connections, workers, history>>

\* merge_thread_results ends without a return statement.  The object run()
\* reads the percentiles from was never constructed: they are what the memory
\* held, when the process survives.  run() sets the operation count itself.
Merge ==
  /\ phase = "merge" /\ NumThreads # 0
  /\ result_ops' = Total
  /\ result_stats' = "garbage"
  /\ phase' = "teardown"
  /\ UNCHANGED <<tables, idx, connections, workers, history>>

MergeCrashes ==
  /\ phase = "merge" /\ NumThreads # 0
  /\ Terminate
  /\ UNCHANGED <<tables, connections, workers, result>>

\* Mutant: merging no recorder yields an empty result.
MergeNothing ==
  /\ phase = "merge" /\ NumThreads = 0
  /\ phase' = "teardown"
  /\ UNCHANGED <<tables, idx, connections, workers, result, history>>

\* invalid_argument: no recorder.
MergeThrows ==
  /\ phase = "merge" /\ NumThreads = 0
  /\ Throw
  /\ UNCHANGED <<tables, connections, workers, result>>

\* Mutant: every connection is disconnected and deleted, the shared client too.
OwnedUnguarded == {t \in Thread : slot[t] # "null"}

\* The slots whose connection is there and is not db_.
Owned == {t \in Thread : slot[t] \notin {"null", "db"}}

\* Mutant: the vector is cleared without deleting what it points to.
TeardownLeaks ==
  /\ phase = "teardown"
  /\ leaked' = leaked + Cardinality({t \in Thread : slot[t] = "own"})
  /\ slot' = NoSlots
  /\ NoWorkers
  /\ phase' = "done"
  /\ UNCHANGED <<tables, idx, db_open, result, history>>

\* The owned connections are disconnected, swallowing errors, and deleted;
\* then the vector is cleared, and what it still points to is reached by db_
\* or by nothing.
Teardown ==
  /\ phase = "teardown"
  /\ leaked' = leaked + Cardinality({t \in Thread \ Owned : slot[t] = "own"})
  /\ db_open' = (db_open /\ \A t \in Owned : slot[t] # "db")
  /\ slot' = NoSlots
  /\ NoWorkers
  /\ phase' = "done"
  /\ UNCHANGED <<tables, idx, result, history>>

-----------------------------------------------------------------------------
(* The caller: the same object again, or a new process on the old tables *)

Again ==
  /\ runs < MaxRuns
  /\ runs' = runs + 1
  /\ phase' = "clear"
  /\ idx' = 0
  /\ UNCHANGED tables

Reexecute ==
  /\ phase \in {"done", "threw"}
  /\ Again
  /\ UNCHANGED <<connections, workers, result, threw>>

NewProcess ==
  /\ Ended
  /\ Again
  /\ slot' = NoSlots /\ leaked' = 0 /\ db_open' = TRUE
  /\ NoWorkers
  /\ result_ops' = 0 /\ result_stats' = "initial"
  /\ threw' = FALSE

-----------------------------------------------------------------------------
Main ==
  \/ Clear \/ ClearByUser \/ Divide \/ Connect \/ StartSpawning \/ Spawn
  \/ Join \/ Merge \/ Teardown

Fails ==
  \/ ClearThrows \/ ClearByUserThrows \/ DivideTraps \/ ConnectThrows
  \/ SpawnThrows \/ MergeThrows \/ MergeCrashes
  \/ \E t \in Thread : WorkerThrows(t)

Next ==
  \/ Main
  \/ \E t \in Thread : Worker(t)
  \/ Fails
  \/ Reexecute
  \/ NewProcess

(***************************************************************************)
(* The operating system runs every runnable thread, and every call to the  *)
(* database returns or throws.  A worker's exception is no substitute for  *)
(* its progress, so failures carry no fairness but MergeThrows, which is   *)
(* what merging no recorder does.                                          *)
(***************************************************************************)
Fairness ==
  /\ WF_vars(Main)
  /\ WF_vars(MergeThrows)
  /\ \A t \in Thread : WF_vars(Worker(t))

Spec == Init /\ [][Next]_vars /\ Fairness

-----------------------------------------------------------------------------
(* Properties *)

\* The rows execute() is to load.
Target == 0 .. Total - 1

\* However the threads interleave, a worker about to insert a row finds it
\* absent: the ranges of Experiment2.cpp:56-58 do not overlap, and the table
\* was emptied.  Otherwise Postgres and Mongo would end the process on a
\* duplicate key, and Cassandra would silently overwrite.
FreshInserts == \A t \in Thread : Inserting(t) => next[t] \notin orders

\* When the workers are joined and their results merged, the table holds the
\* requested rows, each of them and nothing else: the ranges cover the data
\* set, remainder included.  (For totals below 2^32: see Total.)
LoadedExactly ==
  phase \in {"teardown", "done"} /\ Requested < UInt32
     => orders = 0 .. Requested - 1

\* total_ops is set from the configuration, not counted (Experiment2.cpp:92);
\* still it is the number of recorded inserts and of rows in the table.
OpsReported ==
  phase = "teardown" =>
     /\ result_ops = Cardinality(orders)
     /\ result_ops = SumFunction(count)

\* At no time, not even after the process has died between the two
\* statements of insert_one or of clear_table, are there more rows in
\* orders_by_id without a row under their key in orders_by_user than there
\* are threads.
OutOfSyncBound == DualTables => Cardinality(Orphans) <= NumThreads

\* Whatever was left behind by earlier executions, one that returns leaves
\* the two Cassandra tables in sync: a key is occupied exactly if an order of
\* the table has it, and by such an order.
UserViewAgrees ==
  DualTables /\ phase = "done" =>
     \A k \in UserKey :
        IF \E r \in orders : KeyOf[r] = k
          THEN by_user[k] \in orders /\ KeyOf[by_user[k]] = k
          ELSE by_user[k] = NoRow

\* teardown() releases every connection the factory opened for a thread, and
\* never the client main shares with the threads of Cassandra, though it
\* stands in every slot (Experiment2.cpp:116); a connection is lost only in a
\* process in which execute() has thrown before.
ConnectionsReleased ==
  /\ phase = "done" => \A t \in Thread : slot[t] = "null"
  /\ leaked > 0 => threw
  /\ db_open

\* Every call of execute() comes to an end: no thread waits for ever.
ExecuteEnds == (phase = "clear") ~> Ended

LoadStatus ==
  CASE phase = "clear" -> "stale"
    [] phase \in {"teardown", "done"} -> "complete"
    [] phase \in {"threw", "terminated"} -> "failed"
    [] OTHER -> "loading"

Bulk == INSTANCE BulkLoad WITH
          Storable <- Row, loaded <- orders, status <- LoadStatus

\* The threads together do what an insert phase promises.
ImplementsBulkLoad == Bulk!Spec

\* post6.md:66-70 reports percentiles of the inserts of the 8 threads: the
\* fields of result_ hold what merge_thread_results has merged.
PercentilesReported == phase = "done" => result_stats = "merged"
=============================================================================
