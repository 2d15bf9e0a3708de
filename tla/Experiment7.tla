----------------------------- MODULE Experiment7 -----------------------------
(***************************************************************************)
(* Experiment 7, write and read symmetry.  Each of its runs clears the     *)
(* table, inserts the data set, restarts the server to empty its caches,   *)
(* reconnects, and reads back in a random order every id it has inserted.  *)
(* The results of the runs are then averaged.  An exception of any call    *)
(* leaves run(), with what the members hold by then.                       *)
(***************************************************************************)
EXTENDS Engine, Sequences, Functions

CONSTANTS TotalRows,      \* config_.total_rows
          NumRuns,        \* NUM_RUNS
          MaxExecutions   \* bound: calls of execute() on the object

ASSUME Experiment7Assumption ==
  /\ TotalRows \in Nat
  /\ NumRuns \in Nat \ {0}
  /\ MaxExecutions \in Nat \ {0}

VARIABLES phase,       \* where run() is
          run,         \* its loop variable
          i,           \* the next row of write_phase
          written,     \* written_order_ids_
          left,        \* positions of the shuffled copy still to be read
          write_ops,   \* what write_rec has recorded
          read_ops,    \* what read_rec has recorded
          results,     \* run_results_
          average,     \* the operations in avg_write_result_, avg_read_result_
          executions,  \* calls of execute(), the present one included
          \* Not in the code:
          intact       \* the server has not been killed since clear_table()

control == <<phase, run, executions>>
phases == <<i, written, left, write_ops, read_ops>>
output == <<results, average>>

vars == <<engine, control, phases, output, intact>>

n == IF DatasetSize < TotalRows THEN DatasetSize ELSE TotalRows

Run == 1 .. NumRuns

\* The execution that stored the entry is not in the code.
Result == [execution : 0 .. MaxExecutions, run_number : 0 .. NumRuns,
           writes : Nat, reads : Nat]

NoResult == [execution |-> 0, run_number |-> 0, writes |-> 0, reads |-> 0]

NoAverage == [writes |-> 0, reads |-> 0]

Ended == phase \in {"done", "load_failed", "threw"}

RunTypeOK ==
  /\ EngineTypeOK
  /\ phase \in {"clear", "write", "flush", "connect", "read", "average",
                "done", "load_failed", "threw"}
  /\ run \in Run
  /\ i \in 0 .. n
  /\ written \in Seq(Row)
  /\ left \subseteq 1 .. Len(written)
  /\ {write_ops, read_ops} \subseteq Nat
  /\ results \in [Run -> Result]
  /\ executions \in 1 .. MaxExecutions
  /\ intact \in BOOLEAN

TypeOK ==
  /\ RunTypeOK
  /\ average \in [writes : Nat, reads : Nat]

Init ==
  /\ EmptyTables
  /\ warm = {}
  /\ phase = "clear" /\ run = 1 /\ executions = 1
  /\ i = 0 /\ written = <<>> /\ left = {} /\ write_ops = 0 /\ read_ops = 0
  /\ results = [k \in Run |-> NoResult]
  /\ average = NoAverage
  /\ intact = TRUE

\* The locals of read_phase are gone; written_order_ids_ stays.
Throw(to) ==
  /\ phase' = to
  /\ left' = {}
  /\ UNCHANGED <<run, executions, i, written, write_ops, read_ops, output>>

Proceed(to) ==
  /\ phase' = to
  /\ UNCHANGED <<run, executions>>

-----------------------------------------------------------------------------
(* Step 1 and 2: a clean state, the write phase *)

\* Mutant: the ids of an earlier run are kept.
ClearKeepsIds ==
  /\ phase = "clear"
  /\ ClearTable
  /\ intact' = TRUE
  /\ i' = 0 /\ write_ops' = 0
  /\ Proceed("write")
  /\ UNCHANGED <<written, left, read_ops, output>>

\* Mutant: one recorder serves every run.
ClearKeepsRecorder ==
  /\ phase = "clear"
  /\ ClearTable
  /\ intact' = TRUE
  /\ i' = 0 /\ written' = <<>>
  /\ Proceed("write")
  /\ UNCHANGED <<left, write_ops, read_ops, output>>

\* Mutant: the table is cleared for the first run only.
ClearOnce ==
  /\ phase = "clear"
  /\ IF run = 1 THEN ClearTable ELSE UNCHANGED engine
  /\ intact' = TRUE
  /\ i' = 0 /\ written' = <<>> /\ write_ops' = 0
  /\ Proceed("write")
  /\ UNCHANGED <<left, read_ops, output>>

Clear ==
  /\ phase = "clear"
  /\ ClearTable
  /\ intact' = TRUE
  /\ i' = 0 /\ written' = <<>> /\ write_ops' = 0
  /\ Proceed("write")
  /\ UNCHANGED <<left, read_ops, output>>

ClearThrows ==
  /\ phase = "clear"
  /\ ClearTableThrows
  /\ Throw("load_failed")
  /\ UNCHANGED intact

Write ==
  /\ phase = "write" /\ i < n
  /\ InsertOne(i)
  /\ i' = i + 1
  /\ write_ops' = write_ops + 1
  /\ written' = Append(written, i)
  /\ UNCHANGED <<control, left, read_ops, output, intact>>

\* Mutant: an insert that throws is logged, and its id read all the same.
WriteSwallows ==
  /\ phase = "write" /\ i < n
  /\ InsertOneThrows(i)
  /\ i' = i + 1
  /\ written' = Append(written, i)
  /\ UNCHANGED <<control, left, write_ops, read_ops, output, intact>>

WriteThrows ==
  /\ phase = "write" /\ i < n
  /\ InsertOneThrows(i)
  /\ Throw("load_failed")
  /\ UNCHANGED intact

EndWrite ==
  /\ phase = "write" /\ i >= n
  /\ Proceed("flush")
  /\ UNCHANGED <<engine, phases, output, intact>>

-----------------------------------------------------------------------------
(* Step 3 and 4: the restart, the read phase *)

\* A clean restart shuts the server down, another kills it.
RestartServer(clean) ==
  /\ Restart(clean)
  /\ intact' = (intact /\ clean)

Flush ==
  /\ phase = "flush"
  /\ \E clean \in BOOLEAN : RestartServer(clean)
  /\ Proceed("connect")
  /\ UNCHANGED <<phases, output>>

\* The script has failed, after or before it has restarted the server.
FlushThrows ==
  /\ phase = "flush"
  /\ \/ UNCHANGED <<engine, intact>>
     \/ \E clean \in BOOLEAN : RestartServer(clean)
  /\ Throw("threw")

Connect ==
  /\ phase = "connect"
  /\ left' = 1 .. Len(written)
  /\ read_ops' = 0
  /\ Proceed("read")
  /\ UNCHANGED <<engine, i, written, write_ops, output, intact>>

ConnectThrows ==
  /\ phase = "connect"
  /\ Throw("threw")
  /\ UNCHANGED <<engine, intact>>

Read ==
  /\ phase = "read"
  /\ \E j \in left :
       /\ FindByPrimaryKey(written[j])
       /\ left' = left \ {j}
  /\ read_ops' = read_ops + 1
  /\ UNCHANGED <<control, i, written, write_ops, output, intact>>

ReadThrows ==
  /\ phase = "read" /\ left # {}
  /\ Throw("threw")
  /\ UNCHANGED <<engine, intact>>

-----------------------------------------------------------------------------
(* The end of a run and of the experiment *)

Entry == [execution |-> executions, run_number |-> run,
          writes |-> write_ops, reads |-> read_ops]

NextRun ==
  IF run < NumRuns THEN run' = run + 1 /\ phase' = "clear"
                   ELSE UNCHANGED run /\ phase' = "average"

\* Mutant: the loop variable is not incremented.
EndRunStuck ==
  /\ phase = "read" /\ left = {}
  /\ results' = [results EXCEPT ![run] = Entry]
  /\ Proceed("clear")
  /\ UNCHANGED <<engine, phases, average, intact>>

\* Mutant: the index is not run - 1, and the first entry is never set.
EndRunShifted ==
  /\ phase = "read" /\ left = {}
  /\ results' = [k \in Run |-> IF k = run + 1 THEN Entry ELSE results[k]]
  /\ NextRun
  /\ UNCHANGED <<engine, executions, phases, average, intact>>

EndRun ==
  /\ phase = "read" /\ left = {}
  /\ results' = [results EXCEPT ![run] = Entry]
  /\ NextRun
  /\ UNCHANGED <<engine, executions, phases, average, intact>>

\* compute_averages, of a field "writes" or "reads".
Mean(field) == SumFunction([k \in Run |-> results[k][field]]) \div NumRuns

Average ==
  /\ phase = "average"
  /\ average' = [writes |-> Mean("writes"), reads |-> Mean("reads")]
  /\ Proceed("done")
  /\ UNCHANGED <<engine, phases, results, intact>>

\* The caller executes the same object again: run() resets no member.
Reexecute ==
  /\ Ended
  /\ executions < MaxExecutions
  /\ executions' = executions + 1
  /\ run' = 1 /\ phase' = "clear"
  /\ UNCHANGED <<engine, phases, output, intact>>

-----------------------------------------------------------------------------
Step ==
  \/ Clear \/ Write \/ EndWrite \/ Flush \/ Connect \/ Read \/ EndRun \/ Average

Fails ==
  ClearThrows \/ WriteThrows \/ FlushThrows \/ ConnectThrows \/ ReadThrows

Next == Step \/ Fails \/ Reexecute

\* One thread runs it, and every call, the script's included, returns or throws.
Spec == Init /\ [][Next]_vars /\ WF_vars(Step)

-----------------------------------------------------------------------------
(* Properties *)

\* What the flush is for (Experiment7.cpp:35-36): no read of the read phase
\* is of a row accessed since the restart, whatever order the shuffle gives:
\* no id is read twice, and none was touched between the restart and its read.
ReadsAreCold == phase = "read" => \A j \in left : written[j] \notin warm

\* Every id a run reads back is that of a row of the table, inserted by this
\* run, unless its restart has killed the server: the read phase times no miss.
ReadsFindRows ==
  phase \in {"connect", "read"} /\ intact =>
     \A j \in 1 .. Len(written) : written[j] \in orders

\* "1:1 correspondence" (Experiment7.cpp:82-83): whatever the restarts have
\* lost, a stored result comes from as many reads as writes, those of all rows.
StoredRunsAreSymmetric ==
  \A k \in Run : results[k].run_number # 0 =>
     /\ results[k].run_number = k
     /\ results[k].writes = n
     /\ results[k].reads = n

\* An average is never one of entries of several executions or of runs that
\* have not taken place: when execute() returns, every entry is its own.
AveragesOneExecution ==
  phase = "done" =>
     /\ \A k \in Run : results[k].execution = executions
     /\ average = [writes |-> n, reads |-> n]

\* Every call of execute() comes to an end.
ExecuteEnds == (phase = "clear") ~> Ended

LoadStatus ==
  CASE phase = "clear" -> "stale"
    [] phase = "write" -> "loading"
    [] phase = "load_failed" -> "failed"
    [] OTHER -> IF intact THEN "complete" ELSE "stale"

Bulk == INSTANCE BulkLoad WITH
          Storable <- Row, Target <- 0 .. n - 1,
          loaded <- orders, status <- LoadStatus

\* Each run's write phase does what an insert phase promises, from a table in
\* any state; nothing after it takes a row away but a server that is killed.
ImplementsBulkLoad == Bulk!Spec
=============================================================================
