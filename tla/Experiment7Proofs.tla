-------------------------- MODULE Experiment7Proofs --------------------------
(***************************************************************************)
(* Theorems about Experiment7, for every data set, number of runs and      *)
(* executions, kind of database and behaviour of the restarts.             *)
(***************************************************************************)
EXTENDS Experiment7, FoldLemmas

-----------------------------------------------------------------------------
(* The inductive invariant *)

Loaded == {"flush", "connect", "read"}

\* While a run lasts, its ids are those of the first i rows, each of them once,
\* and its recorder has counted them.
WrittenInOrder ==
  /\ phase \in {"write"} \cup Loaded =>
        /\ Len(written) = i
        /\ \A j \in 1 .. i : written[j] = j - 1
        /\ write_ops = i
  /\ phase \in Loaded => i = n

\* The table holds the rows inserted so far; once they are all inserted, that
\* ends only when the server is killed.
OrdersByWrites ==
  /\ phase \in {"write", "flush"} => intact
  /\ phase = "write" => orders = 0 .. i - 1
  /\ phase \in Loaded /\ intact => orders = 0 .. n - 1

\* After the restart, nothing is warm but what was read.
ColdUntilRead ==
  /\ phase = "connect" => warm = {}
  /\ phase = "read" => \A j \in left : written[j] \notin warm

\* The recorder of the reads has counted the ids that are not left.
ReadsCounted ==
  /\ phase # "read" => left = {}
  /\ phase = "read" => IsFiniteSet(left) /\ read_ops + Cardinality(left) = n

Running == {"clear", "write", "flush", "connect", "read"}

\* The entries of the runs that have ended are the present execution's; only an
\* entry that was stored has an execution.
EntriesOwn ==
  /\ phase \in Running => \A k \in Run : k < run => results[k].execution = executions
  /\ phase \in {"average", "done"} => \A k \in Run : results[k].execution = executions
  /\ \A k \in Run : results[k].execution # 0 => results[k].run_number # 0

\* Once they are averaged, the average is that of any of them.
AverageOfRuns ==
  /\ average \in [writes : Nat, reads : Nat]
  /\ phase = "done" => average = [writes |-> n, reads |-> n]

IInv ==
  /\ RunTypeOK
  /\ WrittenInOrder
  /\ OrdersByWrites
  /\ ColdUntilRead
  /\ ReadsCounted
  /\ StoredRunsAreSymmetric
  /\ EntriesOwn
  /\ AverageOfRuns

-----------------------------------------------------------------------------
(* Lemmas *)

\* The rows of a run are rows of the data set.
LEMMA RowsOfRun == n \in Nat /\ 0 .. n - 1 \subseteq Row
<1> USE TablesAssumption, Experiment7Assumption DEF n, Row
<1>1. n \in Nat /\ n <= DatasetSize
  OBVIOUS
<1> QED
  BY <1>1

\* A restart keeps the types of the tables and takes rows away at most.
LEMMA RestartType ==
  ASSUME EngineTypeOK, NEW clean \in BOOLEAN, Restart(clean)
  PROVE  /\ EngineTypeOK'
         /\ orders' \subseteq orders
         /\ clean => orders' = orders
         /\ warm' = {}
<1>1. CASE clean
  BY <1>1 DEF EngineTypeOK, TablesTypeOK, Restart, tables
<1>2. CASE ~clean
  <2>1. PICK lost \in SUBSET UserKey :
          by_user' = [k \in UserKey |-> IF k \in lost THEN NoRow ELSE by_user[k]]
    BY <1>2 DEF Restart
  <2> QED
    BY <1>2, <2>1 DEF EngineTypeOK, TablesTypeOK, Restart
<1> QED
  BY <1>1, <1>2

\* The calls of a client keep the types of the tables.
LEMMA ClearTableType ==
  ASSUME EngineTypeOK, ClearTable
  PROVE  EngineTypeOK' /\ orders' = {} /\ warm' = {}
BY DEF EngineTypeOK, TablesTypeOK, ClearTable, TruncateOrders, TruncateByUser, NoUserRows

LEMMA ClearTableThrowsType ==
  ASSUME EngineTypeOK, ClearTableThrows
  PROVE  EngineTypeOK' /\ orders' \in {orders, {}}
BY DEF EngineTypeOK, TablesTypeOK, ClearTableThrows, TruncateOrdersInDoubt,
       TruncateOrders, TruncateByUserInDoubt, TruncateByUser, NoUserRows

LEMMA InsertOneType ==
  ASSUME EngineTypeOK, NEW r \in Row, InsertOne(r)
  PROVE  EngineTypeOK' /\ orders' = orders \cup {r}
<1>1. KeyOf[r] \in UserKey
  BY TablesAssumption
<1> QED
  BY <1>1 DEF EngineTypeOK, TablesTypeOK, InsertOne, InsertOrder, InsertByUser

LEMMA InsertOneThrowsType ==
  ASSUME EngineTypeOK, NEW r \in Row, InsertOneThrows(r)
  PROVE  EngineTypeOK' /\ (orders' = orders \/ orders' = orders \cup {r})
<1>1. KeyOf[r] \in UserKey
  BY TablesAssumption
<1> QED
  BY <1>1 DEF EngineTypeOK, TablesTypeOK, InsertOneThrows, InsertOrder,
              InsertByUserInDoubt, InsertByUser, tables

LEMMA FindType ==
  ASSUME EngineTypeOK, NEW r, FindByPrimaryKey(r)
  PROVE  EngineTypeOK' /\ orders' = orders /\ warm' \subseteq warm \cup {r}
BY DEF EngineTypeOK, TablesTypeOK, FindByPrimaryKey, tables

-----------------------------------------------------------------------------
(* Types *)

LEMMA TypeStep ==
  ASSUME RunTypeOK, ReadsCounted, [Next]_vars
  PROVE  RunTypeOK'
<1> USE DEF RunTypeOK, control, phases, output
<1>1. CASE Clear
  <2>1. left = {}
    BY <1>1 DEF Clear, ReadsCounted
  <2> QED
    BY <1>1, <2>1, ClearTableType, RowsOfRun DEF Clear, Proceed
<1>2. CASE ClearThrows
  BY <1>2, ClearTableThrowsType DEF ClearThrows, Throw
<1>3. CASE Write
  <2>1. i \in Row /\ i + 1 \in 0 .. n
    BY <1>3, RowsOfRun DEF Write
  <2>2. EngineTypeOK'
    BY <1>3, <2>1, InsertOneType DEF Write
  <2>3. written' \in Seq(Row) /\ left' \subseteq 1 .. Len(written')
    BY <1>3, <2>1 DEF Write
  <2> QED
    BY <1>3, <2>1, <2>2, <2>3 DEF Write
<1>4. CASE WriteThrows
  <2>1. i \in Row
    BY <1>4, RowsOfRun DEF WriteThrows
  <2> QED
    BY <1>4, <2>1, InsertOneThrowsType DEF WriteThrows, Throw
<1>5. CASE EndWrite
  BY <1>5 DEF EndWrite, Proceed, EngineTypeOK, TablesTypeOK, engine, tables
<1>6. CASE Flush
  <2>1. PICK clean \in BOOLEAN : RestartServer(clean)
    BY <1>6 DEF Flush
  <2> QED
    BY <1>6, <2>1, RestartType DEF Flush, RestartServer, Proceed
<1>7. CASE FlushThrows
  <2>1. CASE UNCHANGED <<engine, intact>>
    BY <1>7, <2>1 DEF FlushThrows, Throw, EngineTypeOK, TablesTypeOK, engine, tables
  <2>2. CASE \E clean \in BOOLEAN : RestartServer(clean)
    <3>1. PICK clean \in BOOLEAN : RestartServer(clean)
      BY <2>2
    <3> QED
      BY <1>7, <3>1, RestartType DEF FlushThrows, RestartServer, Throw
  <2> QED
    BY <1>7, <2>1, <2>2 DEF FlushThrows
<1>8. CASE Connect
  BY <1>8 DEF Connect, Proceed, EngineTypeOK, TablesTypeOK, engine, tables
<1>9. CASE ConnectThrows \/ ReadThrows
  BY <1>9 DEF ConnectThrows, ReadThrows, Throw, EngineTypeOK, TablesTypeOK, engine, tables
<1>10. CASE Read
  <2>1. PICK j \in left : FindByPrimaryKey(written[j]) /\ left' = left \ {j}
    BY <1>10 DEF Read
  <2> QED
    BY <1>10, <2>1, FindType DEF Read
<1>11. CASE EndRun
  <2>1. Entry \in Result
    BY Experiment7Assumption DEF Entry, Result, Run
  <2>2. run' \in Run
    BY <1>11, Experiment7Assumption DEF EndRun, NextRun, Run
  <2>3. EngineTypeOK'
    BY <1>11 DEF EndRun, EngineTypeOK, TablesTypeOK, engine, tables
  <2> QED
    BY <1>11, <2>1, <2>2, <2>3 DEF EndRun, NextRun
<1>12. CASE Average
  BY <1>12 DEF Average, Proceed, EngineTypeOK, TablesTypeOK, engine, tables
<1>13. CASE Reexecute
  BY <1>13, Experiment7Assumption
     DEF Reexecute, Run, EngineTypeOK, TablesTypeOK, engine, tables
<1>14. CASE UNCHANGED vars
  BY <1>14 DEF vars, EngineTypeOK, TablesTypeOK, engine, tables
<1> QED
  BY <1>1, <1>2, <1>3, <1>4, <1>5, <1>6, <1>7, <1>8, <1>9, <1>10, <1>11, <1>12,
     <1>13, <1>14 DEF Next, Step, Fails

-----------------------------------------------------------------------------
(* The ids that were written, and the rows of the table *)

LEMMA WrittenStep ==
  ASSUME RunTypeOK, WrittenInOrder, [Next]_vars
  PROVE  WrittenInOrder'
<1> USE DEF WrittenInOrder, Loaded, control, phases
<1>1. CASE Clear
  BY <1>1 DEF Clear, Proceed
<1>2. CASE Write
  <2>1. /\ Len(written') = i + 1
        /\ \A j \in 1 .. i : written'[j] = written[j]
        /\ written'[i + 1] = i
    BY <1>2 DEF Write, RunTypeOK
  <2> QED
    BY <1>2, <2>1 DEF Write, RunTypeOK
<1>3. CASE EndWrite
  BY <1>3, RowsOfRun DEF EndWrite, Proceed, RunTypeOK
<1>4. CASE Flush \/ Connect \/ Read
  BY <1>4 DEF Flush, Connect, Read, Proceed
<1>5. CASE Fails
  BY <1>5 DEF Fails, ClearThrows, WriteThrows, FlushThrows, ConnectThrows,
              ReadThrows, Throw
<1>6. CASE EndRun \/ Average \/ Reexecute
  BY <1>6 DEF EndRun, NextRun, Average, Proceed, Reexecute
<1>7. CASE UNCHANGED vars
  BY <1>7 DEF vars
<1> QED
  BY <1>1, <1>2, <1>3, <1>4, <1>5, <1>6, <1>7 DEF Next, Step

LEMMA OrdersStep ==
  ASSUME RunTypeOK, WrittenInOrder, OrdersByWrites, [Next]_vars
  PROVE  OrdersByWrites'
<1> USE DEF OrdersByWrites, Loaded, control, phases
<1>1. CASE Clear
  BY <1>1, ClearTableType DEF Clear, Proceed, RunTypeOK
<1>2. CASE Write
  <2>1. i \in Row /\ i \in Nat
    BY <1>2, RowsOfRun DEF Write, RunTypeOK
  <2>2. orders' = orders \cup {i}
    BY <1>2, <2>1, InsertOneType DEF Write, RunTypeOK
  <2> QED
    BY <1>2, <2>1, <2>2 DEF Write
<1>3. CASE EndWrite
  <2>1. i = n
    BY <1>3, RowsOfRun DEF EndWrite, RunTypeOK
  <2> QED
    BY <1>3, <2>1 DEF EndWrite, Proceed, engine, tables
<1>4. CASE Flush
  <2>1. PICK clean \in BOOLEAN : RestartServer(clean)
    BY <1>4 DEF Flush
  <2> QED
    BY <1>4, <2>1, RestartType DEF Flush, RestartServer, Proceed, RunTypeOK
<1>5. CASE Connect
  BY <1>5 DEF Connect, Proceed, engine, tables
<1>6. CASE Read
  BY <1>6 DEF Read, FindByPrimaryKey, tables
<1>7. CASE Fails
  BY <1>7 DEF Fails, ClearThrows, WriteThrows, FlushThrows, ConnectThrows,
              ReadThrows, Throw
<1>8. CASE EndRun \/ Average \/ Reexecute
  BY <1>8 DEF EndRun, NextRun, Average, Proceed, Reexecute, engine, tables
<1>9. CASE UNCHANGED vars
  BY <1>9 DEF vars, engine, tables
<1> QED
  BY <1>1, <1>2, <1>3, <1>4, <1>5, <1>6, <1>7, <1>8, <1>9 DEF Next, Step

-----------------------------------------------------------------------------
(* The reads *)

LEMMA ColdStep ==
  ASSUME RunTypeOK, WrittenInOrder, ColdUntilRead, [Next]_vars
  PROVE  ColdUntilRead'
<1> USE DEF ColdUntilRead, control, phases
<1>1. CASE Flush
  <2>1. PICK clean \in BOOLEAN : RestartServer(clean)
    BY <1>1 DEF Flush
  <2> QED
    BY <1>1, <2>1, RestartType DEF Flush, RestartServer, Proceed, RunTypeOK
<1>2. CASE Connect
  BY <1>2 DEF Connect, Proceed, engine
\* No id is that of two positions: what is read next was not read before.
<1>3. CASE Read
  <2>1. PICK k \in left : FindByPrimaryKey(written[k]) /\ left' = left \ {k}
    BY <1>3 DEF Read
  <2>2. \A j \in left : j \in 1 .. i /\ written[j] = j - 1
    BY <1>3 DEF Read, WrittenInOrder, Loaded, RunTypeOK
  <2>3. warm' \subseteq warm \cup {written[k]}
    BY <2>1, FindType DEF RunTypeOK
  <2>4. \A j \in left' : written[j] # written[k]
    BY <2>1, <2>2 DEF RunTypeOK
  <2> QED
    BY <1>3, <2>1, <2>3, <2>4 DEF Read
<1>4. CASE Clear \/ Write \/ EndWrite
  BY <1>4 DEF Clear, Write, EndWrite, Proceed
<1>5. CASE Fails
  BY <1>5 DEF Fails, ClearThrows, WriteThrows, FlushThrows, ConnectThrows,
              ReadThrows, Throw
<1>6. CASE EndRun \/ Average \/ Reexecute
  BY <1>6 DEF EndRun, NextRun, Average, Proceed, Reexecute
<1>7. CASE UNCHANGED vars
  BY <1>7 DEF vars, engine
<1> QED
  BY <1>1, <1>2, <1>3, <1>4, <1>5, <1>6, <1>7 DEF Next, Step

LEMMA CountStep ==
  ASSUME RunTypeOK, WrittenInOrder, ReadsCounted, [Next]_vars
  PROVE  ReadsCounted'
<1> USE DEF ReadsCounted, control, phases
<1>1. CASE Connect
  <2>1. left' = 1 .. n /\ n \in Nat
    BY <1>1, RowsOfRun DEF Connect, WrittenInOrder, Loaded
  <2>2. IsFiniteSet(left') /\ Cardinality(left') = n
    <3>1. 1 \in Int /\ n \in Int
      BY <2>1
    <3> QED
      BY <2>1, <3>1, FS_Interval
  <2> QED
    BY <1>1, <2>1, <2>2 DEF Connect, Proceed
<1>2. CASE Read
  <2>1. PICK k \in left : left' = left \ {k}
    BY <1>2 DEF Read
  <2>2. /\ IsFiniteSet(left') /\ Cardinality(left') = Cardinality(left) - 1
        /\ Cardinality(left) \in Nat
    BY <1>2, <2>1, FS_RemoveElement, FS_CardinalityType DEF Read
  <2> QED
    BY <1>2, <2>2, RowsOfRun DEF Read, RunTypeOK
<1>3. CASE Clear \/ Write \/ EndWrite \/ Flush
  BY <1>3 DEF Clear, Write, EndWrite, Flush, Proceed
<1>4. CASE Fails
  BY <1>4 DEF Fails, ClearThrows, WriteThrows, FlushThrows, ConnectThrows,
              ReadThrows, Throw
<1>5. CASE EndRun \/ Average \/ Reexecute
  BY <1>5 DEF EndRun, NextRun, Average, Proceed, Reexecute, Ended
<1>6. CASE UNCHANGED vars
  BY <1>6 DEF vars
<1> QED
  BY <1>1, <1>2, <1>3, <1>4, <1>5, <1>6 DEF Next, Step

\* A result is stored when no read is left, so as many were counted as rows.
LEMMA ResultsStep ==
  ASSUME RunTypeOK, WrittenInOrder, ReadsCounted, StoredRunsAreSymmetric, [Next]_vars
  PROVE  StoredRunsAreSymmetric'
<1> USE DEF StoredRunsAreSymmetric, output
<1>1. CASE EndRun
  <2>1. write_ops = n /\ read_ops = n
    <3>1. Cardinality(left) = 0
      BY <1>1, FS_EmptySet DEF EndRun
    <3> QED
      BY <1>1, <3>1, RowsOfRun DEF EndRun, WrittenInOrder, Loaded, ReadsCounted, RunTypeOK
  <2> QED
    BY <1>1, <2>1 DEF EndRun, Entry, RunTypeOK
<1>2. CASE Clear \/ Write \/ EndWrite \/ Flush \/ Connect \/ Read \/ Average \/ Reexecute
  BY <1>2 DEF Clear, Write, EndWrite, Flush, Connect, Read, Average, Reexecute
<1>3. CASE Fails
  BY <1>3 DEF Fails, ClearThrows, WriteThrows, FlushThrows, ConnectThrows,
              ReadThrows, Throw
<1>4. CASE UNCHANGED vars
  BY <1>4 DEF vars
<1> QED
  BY <1>1, <1>2, <1>3, <1>4 DEF Next, Step

\* run() stores the entries in their order, so behind its loop all are its own.
LEMMA EntriesStep ==
  ASSUME RunTypeOK, EntriesOwn, [Next]_vars
  PROVE  EntriesOwn'
<1> USE DEF EntriesOwn, Running, control, output
<1>1. CASE EndRun
  <2>1. /\ phase = "read" /\ executions' = executions /\ executions # 0
        /\ run \in Run /\ run \in Nat /\ run <= NumRuns /\ run # 0
    BY <1>1, Experiment7Assumption DEF EndRun, RunTypeOK, Run
  <2>2. /\ results'[run].execution = executions /\ results'[run].run_number = run
        /\ \A k \in Run \ {run} : results'[k] = results[k]
    BY <1>1, <2>1 DEF EndRun, Entry, RunTypeOK
  <2>3. \A k \in Run : k \in Nat /\ k <= NumRuns
    BY DEF Run
  <2>4. \A k \in Run : k <= run => results'[k].execution = executions
    BY <2>1, <2>2, <2>3
  <2>5. \/ run' = run + 1 /\ phase' = "clear"
        \/ run = NumRuns /\ phase' = "average"
    BY <1>1, <2>1, Experiment7Assumption DEF EndRun, NextRun
  <2> QED
    BY <2>1, <2>2, <2>3, <2>4, <2>5
<1>2. CASE Reexecute
  BY <1>2 DEF Reexecute, Run
<1>3. CASE Clear \/ Write \/ EndWrite \/ Flush \/ Connect \/ Read \/ Average
  BY <1>3 DEF Clear, Write, EndWrite, Flush, Connect, Read, Average, Proceed
<1>4. CASE Fails
  BY <1>4 DEF Fails, ClearThrows, WriteThrows, FlushThrows, ConnectThrows,
              ReadThrows, Throw
<1>5. CASE UNCHANGED vars
  BY <1>5 DEF vars
<1> QED
  BY <1>1, <1>2, <1>3, <1>4, <1>5 DEF Next, Step

\* The mean of entries that are all of the same number of operations.
LEMMA MeanOfRuns ==
  ASSUME NEW field, \A k \in Run : results[k][field] = n
  PROVE  Mean(field) = n
<1> DEFINE ops == [k \in Run |-> results[k][field]]
<1>1. IsFiniteSet(Run) /\ Cardinality(Run) = NumRuns
  <2>1. 1 \in Int /\ NumRuns \in Int /\ NumRuns >= 1
    BY Experiment7Assumption
  <2> QED
    BY <2>1, FS_Interval DEF Run
<1>2. n \in Nat /\ \A k \in Run : ops[k] = n
  BY RowsOfRun
<1> HIDE DEF ops
<1>3. SumFunctionOnSet(ops, Run) = n * NumRuns
  BY <1>1, <1>2, SumConstant
<1>4. (n * NumRuns) \div NumRuns = n
  BY <1>2, Experiment7Assumption
<1> QED
  BY <1>3, <1>4 DEF Mean, SumFunction, ops

LEMMA AverageStep ==
  ASSUME RunTypeOK, StoredRunsAreSymmetric, EntriesOwn, AverageOfRuns, [Next]_vars
  PROVE  AverageOfRuns'
<1> USE DEF AverageOfRuns, control, output
<1>1. CASE Average
  <2>1. \A k \in Run : results[k].writes = n /\ results[k].reads = n
    BY <1>1 DEF Average, EntriesOwn, StoredRunsAreSymmetric, RunTypeOK
  <2>2. Mean("writes") = n /\ Mean("reads") = n
    BY <2>1, MeanOfRuns
  <2> QED
    BY <1>1, <2>2, RowsOfRun DEF Average, Proceed
<1>2. CASE Clear \/ Write \/ EndWrite \/ Flush \/ Connect \/ Read \/ EndRun \/ Reexecute
  BY <1>2 DEF Clear, Write, EndWrite, Flush, Connect, Read, EndRun, NextRun,
              Reexecute, Proceed
<1>3. CASE Fails
  BY <1>3 DEF Fails, ClearThrows, WriteThrows, FlushThrows, ConnectThrows,
              ReadThrows, Throw
<1>4. CASE UNCHANGED vars
  BY <1>4 DEF vars
<1> QED
  BY <1>1, <1>2, <1>3, <1>4 DEF Next, Step

-----------------------------------------------------------------------------
(* Theorems *)

LEMMA InitIInv == Init => IInv
<1> SUFFICES ASSUME Init PROVE IInv
  OBVIOUS
<1> USE DEF Init, EmptyTables, NoUserRows
<1>1. EngineTypeOK
  BY DEF EngineTypeOK, TablesTypeOK
<1>2. NoResult \in Result /\ 1 \in Run /\ 1 \in 1 .. MaxExecutions
  BY Experiment7Assumption DEF NoResult, Result, Run
<1>3. RunTypeOK
  BY <1>1, <1>2, RowsOfRun DEF RunTypeOK
<1>4. StoredRunsAreSymmetric /\ EntriesOwn
  BY DEF StoredRunsAreSymmetric, EntriesOwn, Running, NoResult, Run
<1> QED
  BY <1>3, <1>4 DEF IInv, WrittenInOrder, Loaded, OrdersByWrites, ColdUntilRead,
                    ReadsCounted, AverageOfRuns, NoAverage

LEMMA StepIInv == IInv /\ [Next]_vars => IInv'
BY TypeStep, WrittenStep, OrdersStep, ColdStep, CountStep, ResultsStep, EntriesStep,
   AverageStep DEF IInv

\* The inductive invariant holds in every reachable state.
THEOREM Invariance == Spec => []IInv
BY InitIInv, StepIInv, PTL DEF Spec

\* Every variable keeps its type.
THEOREM TypeCorrect == Spec => []TypeOK
<1>1. IInv => TypeOK
  BY DEF IInv, AverageOfRuns, TypeOK
<1> QED
  BY Invariance, <1>1, PTL

\* No read of the read phase is of a row accessed since the restart.
THEOREM EveryReadIsCold == Spec => []ReadsAreCold
<1>1. IInv => ReadsAreCold
  BY DEF IInv, ColdUntilRead, ReadsAreCold
<1> QED
  BY Invariance, <1>1, PTL

\* Every id that is read back is that of a row of the table, unless the
\* restart has killed the server.
THEOREM EveryReadFinds == Spec => []ReadsFindRows
<1>1. IInv => ReadsFindRows
  <2> SUFFICES ASSUME IInv, phase \in {"connect", "read"}, intact,
                      NEW j \in 1 .. Len(written)
               PROVE  written[j] \in orders
    BY DEF ReadsFindRows
  <2>1. Len(written) = n /\ written[j] = j - 1 /\ orders = 0 .. n - 1
    BY DEF IInv, WrittenInOrder, OrdersByWrites, Loaded
  <2> QED
    BY <2>1, RowsOfRun
<1> QED
  BY Invariance, <1>1, PTL

\* A stored result comes from as many reads as writes, those of every row.
THEOREM ResultsSymmetric == Spec => []StoredRunsAreSymmetric
<1>1. IInv => StoredRunsAreSymmetric
  BY DEF IInv
<1> QED
  BY Invariance, <1>1, PTL

\* What is averaged is one execution, however many have thrown before it.
THEOREM AverageIsOwn == Spec => []AveragesOneExecution
<1>1. IInv => AveragesOneExecution
  BY DEF IInv, EntriesOwn, AverageOfRuns, AveragesOneExecution
<1> QED
  BY Invariance, <1>1, PTL

-----------------------------------------------------------------------------
(* The refinement of BulkLoad *)

LEMMA BulkInit == Init => Bulk!Init
BY DEF Init, EmptyTables, Bulk!Init, LoadStatus

LEMMA BulkStep ==
  ASSUME IInv, [Next]_vars
  PROVE  [Bulk!Next]_(Bulk!vars)
<1> USE DEF control, phases
<1>1. CASE Clear
  <2>1. Bulk!Clear
    BY <1>1, ClearTableType DEF Clear, Proceed, LoadStatus, Bulk!Clear, IInv, RunTypeOK
  <2> QED
    BY <2>1 DEF Bulk!Next
<1>2. CASE ClearThrows
  <2>1. Bulk!FailClearing
    BY <1>2, ClearTableThrowsType
       DEF ClearThrows, Throw, LoadStatus, Bulk!FailClearing, IInv, RunTypeOK
  <2> QED
    BY <2>1 DEF Bulk!Next
<1>3. CASE Write
  <2>1. i \in 0 .. n - 1 /\ i \in Row /\ i \notin orders
    BY <1>3, RowsOfRun DEF Write, IInv, RunTypeOK, OrdersByWrites
  <2>2. Bulk!Insert(i)
    BY <1>3, <2>1, InsertOneType DEF Write, LoadStatus, Bulk!Insert, IInv, RunTypeOK
  <2> QED
    BY <2>1, <2>2 DEF Bulk!Next
<1>4. CASE WriteThrows
  <2>1. i \in 0 .. n - 1 /\ i \in Row
    BY <1>4, RowsOfRun DEF WriteThrows, IInv, RunTypeOK
  <2>2. Bulk!FailLoading
    BY <1>4, <2>1, InsertOneThrowsType
       DEF WriteThrows, Throw, LoadStatus, Bulk!FailLoading, IInv, RunTypeOK
  <2> QED
    BY <2>2 DEF Bulk!Next
<1>5. CASE EndWrite
  <2>1. i = n /\ orders = 0 .. n - 1 /\ intact
    BY <1>5, RowsOfRun DEF EndWrite, IInv, RunTypeOK, OrdersByWrites
  <2>2. Bulk!Complete
    BY <1>5, <2>1 DEF EndWrite, Proceed, LoadStatus, Bulk!Complete, engine, tables
  <2> QED
    BY <2>2 DEF Bulk!Next
\* A clean restart changes nothing; another loses what was complete.
<1>6. ASSUME NEW clean \in BOOLEAN, RestartServer(clean),
             phase = "flush", phase' \in {"connect", "threw"}
      PROVE  [Bulk!Next]_(Bulk!vars)
  <2>1. intact /\ orders' \subseteq orders /\ (clean => orders' = orders)
    BY <1>6, RestartType DEF RestartServer, IInv, RunTypeOK, OrdersByWrites
  <2>2. CASE clean
    BY <1>6, <2>1, <2>2 DEF RestartServer, LoadStatus, Bulk!vars
  <2>3. CASE ~clean
    <3>1. Bulk!Lose
      BY <1>6, <2>1, <2>3 DEF RestartServer, LoadStatus, Bulk!Lose
    <3> QED
      BY <3>1 DEF Bulk!Next
  <2> QED
    BY <2>2, <2>3
<1>7. CASE Flush
  BY <1>6, <1>7 DEF Flush, Proceed
<1>8. CASE FlushThrows
  <2>1. CASE UNCHANGED <<engine, intact>>
    BY <1>8, <2>1 DEF FlushThrows, Throw, LoadStatus, Bulk!vars, engine, tables
  <2> QED
    BY <1>6, <1>8, <2>1 DEF FlushThrows, Throw
<1>9. CASE Connect \/ ConnectThrows \/ ReadThrows \/ Average
  BY <1>9 DEF Connect, ConnectThrows, ReadThrows, Average, Throw, Proceed,
              LoadStatus, Bulk!vars, engine, tables
<1>10. CASE Read
  BY <1>10 DEF Read, FindByPrimaryKey, LoadStatus, Bulk!vars, tables
<1>11. CASE EndRun \/ Reexecute
  <2>1. orders' = orders /\ intact' = intact
    BY <1>11 DEF EndRun, Reexecute, engine, tables
  <2>2. \/ LoadStatus' = LoadStatus
        \/ LoadStatus \in {"complete", "failed"} /\ LoadStatus' = "stale"
    BY <1>11, <2>1 DEF EndRun, NextRun, Reexecute, Ended, LoadStatus
  <2>3. CASE LoadStatus' = LoadStatus
    BY <2>1, <2>3 DEF Bulk!vars
  <2>4. CASE LoadStatus \in {"complete", "failed"} /\ LoadStatus' = "stale"
    <3>1. Bulk!Restart
      BY <2>1, <2>4 DEF Bulk!Restart
    <3> QED
      BY <3>1 DEF Bulk!Next
  <2> QED
    BY <2>2, <2>3, <2>4
<1>12. CASE UNCHANGED vars
  BY <1>12 DEF vars, LoadStatus, Bulk!vars, engine, tables
<1> QED
  BY <1>1, <1>2, <1>3, <1>4, <1>5, <1>7, <1>8, <1>9, <1>10, <1>11, <1>12
     DEF Next, Step, Fails

\* The write phase of every run does what an insert phase promises, and only a
\* server that is killed takes a row of it away.
THEOREM Refinement == Spec => ImplementsBulkLoad
BY BulkInit, BulkStep, Invariance, PTL DEF Spec, Bulk!Spec, ImplementsBulkLoad
=============================================================================
